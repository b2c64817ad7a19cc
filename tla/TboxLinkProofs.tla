--------------------------- MODULE TboxLinkProofs ---------------------------
(***************************************************************************)
(* Proofs about TboxLink.  IInv is inductive: it ties the place of the     *)
(* watch thread to the reader, the writer, the socket and mNetState, and   *)
(* bounds the two counters of failed reads and writes by what the loops    *)
(* test.  The properties of threads and socket follow from it; the one     *)
(* about the states that report needs LoginInv besides, the one about the  *)
(* address that accepted a login GoodInv, which follows the messages on    *)
(* their way and the three threads that change the address, and the one    *)
(* about the wait after failures BackoffInv.                               *)
(***************************************************************************)
EXTENDS MCTboxBackoff, SequenceTheorems, TLAPS

UndoPc == {"undoFile", "undoLoad", "undoClear"}
RevertPc == {"revertFile", "revertLoad", "revertClear"}
Idling == {"start", "connect", "idle", "delay", "longDelay"} \cup UndoPc
Serviced == {"enterWait", "wait", "lost", "revert", "stop", "join"} \cup RevertPc

\* Where the watch thread is says which threads exist, whether the socket is
\* open and what mNetState says.
ThreadsInv ==
  /\ pcWatch \in Idling \cup {"spawnRecv"} => pcRecv = "none" /\ pcSend = "none"
  /\ pcWatch = "spawnSend" => pcRecv # "none" /\ pcSend = "none"
  /\ pcWatch \in Serviced => pcRecv # "none" /\ pcSend # "none"
  /\ sock = "closed" <=> pcWatch \in Idling
  /\ mNetState = "Connected" <=> pcWatch \in Serviced
  /\ pcRecv = "exited" \/ pcSend = "exited" => ~running

\* A thread in its loop has not yet reached its timeout, and a thread that has
\* ended left its counter at zero for the next connection.
CountInv ==
  /\ pcRecv = "loop" /\ running => readtimeout < PlatformRespTimeout
  /\ pcRecv \in {"none", "exited"} => readtimeout = 0
  /\ pcSend = "loop" /\ running => writetimeout <= TerminalRespTimeout
  /\ pcSend \in {"none", "exited"} => writetimeout = 0

IInv == TypeOK /\ ThreadsInv /\ CountInv

\* The initial states satisfy the inductive invariant.
LEMMA InitIInv == Init => IInv
<1> SUFFICES ASSUME Init PROVE IInv
  OBVIOUS
<1>1. running \in BOOLEAN /\ platLogged \in BOOLEAN /\ lapsed \in BOOLEAN
  BY DEF Init
<1>2. TypeOK
  BY <1>1, LinkAssumption DEF Init, TypeOK, MachineState, WatchPc, LoopPc, SocPc, HandlePc,
     SamplePc, RetryLimit
<1>3. ThreadsInv /\ CountInv
  BY LinkAssumption DEF Init, ThreadsInv, CountInv, Idling, Serviced, UndoPc, RevertPc
<1> QED
  BY <1>2, <1>3 DEF IInv

\* Every step preserves the types; the counters need CountInv for it.
LEMMA TypeStep == IInv /\ [Next]_vars => TypeOK'
<1> SUFFICES ASSUME IInv, [Next]_vars PROVE TypeOK'
  OBVIOUS
<1> USE LinkAssumption DEF IInv, TypeOK, MachineState, WatchPc, Reverting, LoopPc, SocPc,
        HandlePc, Changing, RetryLimit, Bump,
        SamplePc, NoMsg, tboxVars, confVars, queueVars, threadVars, handVars, sideVars,
        farVars, histVars
<1>1. CASE DnsFails
  BY <1>1 DEF DnsFails
<1>2. CASE Resolve
  BY <1>2 DEF Resolve
<1>3. CASE ConnectFails
  <2>1. lapsed' \in BOOLEAN
    BY <1>3 DEF ConnectFails, Lapse
  <2> QED
    BY <1>3, <2>1 DEF ConnectFails
<1>u. CASE Undo \/ revertIPConfig
  <2>1. /\ pcWatch' \in {"undoLoad", "undoClear", "idle", "revertLoad", "revertClear", "stop"}
        /\ UNCHANGED <<ChangeNetParmSave, lapsed>>
    BY <1>u DEF Undo, revertIPConfig, RevertFile, RevertLoad, RevertClear
  <2>2. /\ cfgFile' \in Addrs \cup {NoAddr, BadFile} /\ cfgMem' \in Addrs \cup {NoAddr}
        /\ ChangeNetParm' \in {0, 1} /\ mRetryCount' \in 0..3
    BY <1>u DEF Undo, revertIPConfig, RevertFile, RevertLoad, RevertClear, UpdateParmConfig,
       vehicleConfigInit
  <2>3. UNCHANGED <<tboxVars, mNetState, state, running, queueVars, sock, target,
                    threadVars, handVars, sideVars, farVars, histVars>>
    BY <1>u DEF Undo, revertIPConfig
  <2> QED
    BY <2>1, <2>2, <2>3
<1>s. CASE WatchTaskSample
  <2>1. pcSample' \in SamplePc /\ lapsed' \in BOOLEAN
    BY <1>s DEF WatchTaskSample, SampleConnectFails, SampleUndo, Lapse
  <2>2. /\ cfgFile' \in Addrs \cup {NoAddr, BadFile} /\ cfgMem' \in Addrs \cup {NoAddr}
        /\ ChangeNetParm' \in {0, 1}
    BY <1>s DEF WatchTaskSample, SampleConnectFails, SampleUndo, UpdateParmConfig,
       vehicleConfigInit
  <2>3. UNCHANGED <<tboxVars, ChangeNetParmSave, mNetState, state, running, mRetryCount,
                    queueVars, sock, target, pcWatch, threadVars, handVars, pcSoc, socPower,
                    farVars, histVars>>
    BY <1>s DEF WatchTaskSample, SampleConnectFails, SampleUndo
  <2> QED
    BY <2>1, <2>2, <2>3
<1>4. CASE ConnectOk
  BY <1>4 DEF ConnectOk
<1>5. CASE SpawnRecv
  BY <1>5 DEF SpawnRecv, UpMsg
<1>6. CASE SpawnSend
  BY <1>6 DEF SpawnSend
<1>7. CASE IdleService
  BY <1>7 DEF IdleService, Pause
<1>8. CASE IdleTest
  BY <1>8 DEF IdleTest
<1>9. CASE EndDelay
  BY <1>9 DEF EndDelay
<1>10. CASE getUpdateNetState
  BY <1>10 DEF getUpdateNetState
<1>11. CASE LinkLost
  BY <1>11 DEF LinkLost
<1>12. CASE RevertIfSilent
  <2>1. lapsed' \in BOOLEAN
    BY <1>12 DEF RevertIfSilent, Lapse
  <2> QED
    BY <1>12, <2>1 DEF RevertIfSilent
<1>13. CASE Stop
  <2>1. running' \in BOOLEAN
    BY <1>13 DEF Stop
  <2> QED
    BY <1>13, <2>1 DEF Stop
<1>14. CASE Join
  <2>1. platLogged' \in BOOLEAN
    BY <1>14 DEF Join, Joined
  <2> QED
    BY <1>14, <2>1 DEF Join, Joined
<1>15. CASE RecvRead
  BY <1>15 DEF RecvRead
<1>16. CASE RecvNothing
  BY <1>16 DEF RecvNothing, Silent, setNetLose, CountInv
<1>17. CASE RecvDrop
  <2>1. running' \in BOOLEAN
    BY <1>17 DEF RecvDrop
  <2> QED
    BY <1>17, <2>1 DEF RecvDrop
<1>18. CASE RecvExit
  BY <1>18 DEF RecvExit
<1>19. CASE SendOk
  <2>1. /\ mSendQueue' \in Seq(UpMsg)
        /\ writetimeout' \in 0..(TerminalRespTimeout + 1)
    BY <1>19 DEF SendOk
  <2>2. ASSUME NEW c \in {"loginOk", "loginRej", "timeOk", "beat", "logoutOk"}
        PROVE  Append(down, Answer(c)) \in Seq(DownMsg)
    BY DEF DownMsg
  <2>3. platLogged' \in BOOLEAN /\ accepted' \subseteq Addrs /\ down' \in Seq(DownMsg)
    <3>1. CASE Platform(Head(mSendQueue))
      <4>1. platLogged' \in BOOLEAN
        BY <3>1 DEF Platform
      <4>2. accepted' \subseteq Addrs
        BY <3>1 DEF Platform
      <4>3. down' \in Seq(DownMsg)
        BY <3>1, <2>2 DEF Platform
      <4> QED
        BY <4>1, <4>2, <4>3
    <3>2. CASE UNCHANGED <<platLogged, accepted, down>>
      BY <3>2
    <3> QED
      BY <1>19, <3>1, <3>2 DEF SendOk
  <2> QED
    BY <1>19, <2>1, <2>3 DEF SendOk
<1>20. CASE SendFails
  BY <1>20 DEF SendFails, setNetLose, CountInv
<1>21. CASE SendDrop
  <2>1. running' \in BOOLEAN
    BY <1>21 DEF SendDrop
  <2> QED
    BY <1>21, <2>1 DEF SendDrop
<1>22. CASE SendExit
  BY <1>22 DEF SendExit
<1>23. CASE RecvQueueDequeue
  BY <1>23 DEF RecvQueueDequeue
<1>24. CASE HandleLoginOk
  <2>1. lapsed' \in BOOLEAN
    BY <1>24 DEF HandleLoginOk
  <2> QED
    BY <1>24, <2>1 DEF HandleLoginOk, Handled, UpMsg
<1>25. CASE HandleLoginRej
  <2>1. lapsed' \in BOOLEAN
    BY <1>25 DEF HandleLoginRej, Lapse
  <2> QED
    BY <1>25, <2>1 DEF HandleLoginRej, UpdateParmConfig, Handled, UpMsg
<1>26. CASE HandleLogoutOk
  BY <1>26 DEF HandleLogoutOk, setNetLose, Handled, UpMsg
<1>27. CASE HandleTimeOk
  BY <1>27 DEF HandleTimeOk, Handled, UpMsg
<1>28. CASE HandleHeartbeat
  <2>1. mSendQueue' \in Seq(UpMsg)
    <3>1. mSendQueue \in Seq(UpMsg) /\ "logout" \in UpMsg
      BY DEF UpMsg
    <3>2. mSendQueue' = mSendQueue \/ mSendQueue' = Append(mSendQueue, "logout")
      BY <1>28 DEF HandleHeartbeat
    <3>3. Append(mSendQueue, "logout") \in Seq(UpMsg)
      BY <3>1, AppendProperties, Zenon
    <3> QED
      BY <3>1, <3>2, <3>3, Zenon
  <2> QED
    BY <1>28, <2>1 DEF HandleHeartbeat, Handled
<1>q. ASSUME mSendQueue' \in {mSendQueue \o <<"info">>, mSendQueue \o <<"info", "logout">>}
      PROVE  mSendQueue' \in Seq(UpMsg)
  <2>1. <<"info", "logout">> \in Seq(UpMsg) /\ <<"info">> \in Seq(UpMsg)
    BY DEF UpMsg
  <2>2. \A q \in Seq(UpMsg) : mSendQueue \o q \in Seq(UpMsg)
    BY ConcatProperties, Zenon
  <2> QED
    BY <1>q, <2>1, <2>2, Zenon
<1>29. CASE ParmWrite
  <2>1. lapsed' \in BOOLEAN
    BY <1>29 DEF ParmWrite, Lapse
  <2> QED
    BY <1>29, <2>1 DEF ParmWrite, UpdateParmConfig, HandleStep
<1>30. CASE RejectCommand
  BY <1>30 DEF RejectCommand, Handled
<1>41. CASE ParmLoad
  BY <1>41 DEF ParmLoad, LoadParmConfig, HandleStep
<1>42. CASE ParmCompare
  BY <1>42 DEF ParmCompare, HandleStep
<1>43. CASE ParmSave
  BY <1>43 DEF ParmSave, OldAddress, HandleStep
<1>44. CASE ParmReply
  <2>1. mSendQueue' \in Seq(UpMsg)
    BY <1>q, <1>44 DEF ParmReply
  <2> QED
    BY <1>44, <2>1 DEF ParmReply, setNetLose, HandleStep
<1>45. CASE HandleRemoteCtl
  <2>1. mSendQueue' \in Seq(UpMsg)
    BY <1>q, <1>45 DEF HandleRemoteCtl
  <2>2. parm' \in Addrs \cup {NoAddr} /\ cfgFile' \in {cfgFile, BadFile}
    BY <1>45 DEF HandleRemoteCtl, LoadParmConfig
  <2>3. /\ UNCHANGED <<cfgMem, ChangeNetParmSave, ChangeNetParm, lapsed, pcWatch>>
        /\ \E to \in {"sample", "copy", "reload"} : HandleStep("handle", to)
    BY <1>45 DEF HandleRemoteCtl
  <2> QED
    BY <2>1, <2>2, <2>3 DEF HandleStep
<1>46. CASE SampleWrite
  <2>1. lapsed' \in BOOLEAN
    BY <1>46 DEF SampleWrite, Lapse
  <2> QED
    BY <1>46, <2>1 DEF SampleWrite, UpdateParmConfig, HandleStep
<1>47. CASE ResetCopy
  <2>1. lapsed' \in BOOLEAN
    BY <1>47 DEF ResetCopy, Lapse
  <2> QED
    BY <1>47, <2>1 DEF ResetCopy, HandleStep
<1>48. CASE CommandDone
  BY <1>48 DEF CommandDone, vehicleConfigInit
<1>49. CASE Restart
  <2>1. platLogged' \in BOOLEAN /\ running' \in BOOLEAN /\ lapsed' \in BOOLEAN
    BY <1>49 DEF Restart
  <2> QED
    BY <1>49, <2>1 DEF Restart
<1>31. CASE HeartTask
  BY <1>31 DEF HeartTask, PeriodicSend, UpMsg
<1>32. CASE SendTask
  BY <1>32 DEF SendTask, PeriodicSend, UpMsg
<1>33. CASE getSOCPowerState
  BY <1>33 DEF getSOCPowerState
<1>34. CASE SocWakeup
  BY <1>34 DEF SocWakeup
<1>35. CASE SocSleep
  BY <1>35 DEF SocSleep, UpMsg
<1>36. CASE SocEvent
  BY <1>36 DEF SocEvent
<1>37. CASE SpuriousWakeup
  BY <1>37 DEF SpuriousWakeup
<1>38. CASE PlatformCommands
  BY <1>38 DEF PlatformCommands, DownMsg
<1>39. CASE PeerGone
  <2>1. platLogged' \in BOOLEAN
    BY <1>39 DEF PeerGone
  <2>2. down' \in Seq(DownMsg)
    <3>1. down' = down \/ down' = << >>
      BY <1>39 DEF PeerGone
    <3>2. << >> \in Seq(DownMsg) /\ down \in Seq(DownMsg)
      OBVIOUS
    <3> QED
      BY <3>1, <3>2, Zenon
  <2>3. peer' \in {"none", "up", "gone"}
    BY <1>39 DEF PeerGone
  <2> QED
    BY <1>39, <2>1, <2>2, <2>3 DEF PeerGone
<1>40. CASE UNCHANGED vars
  BY <1>40 DEF vars
<1> QED
  BY <1>1, <1>2, <1>3, <1>4, <1>5, <1>6, <1>7, <1>8, <1>9, <1>10, <1>11, <1>12, <1>13, <1>14,
     <1>15, <1>16, <1>17, <1>18, <1>19, <1>20, <1>21, <1>22, <1>23, <1>24, <1>25, <1>26, <1>27,
     <1>28, <1>29, <1>30, <1>31, <1>32, <1>33, <1>34, <1>35, <1>36, <1>37, <1>38, <1>39, <1>40,
     <1>41, <1>42, <1>43, <1>44, <1>45, <1>46, <1>47, <1>48, <1>49, <1>u, <1>s
  DEF Next, WatchTask, Start, Idle, TearDown, recvFunc, sendFunc, RecvTask, HandleMessage,
     HandleParm, WatchSOCPowerStateTask, Environment

-----------------------------------------------------------------------------
(* The threads of a connection.  A step either touches none of what the     *)
(* invariant is about and leaves the watch thread in the same stage, is *)
(* one of the steps that open, serve or close a connection, or starts anew. *)

Aside ==
  /\ UNCHANGED <<threadVars, running, sock, mNetState>>
  /\ \/ pcWatch' = pcWatch
     \/ pcWatch \in Idling /\ pcWatch' \in Idling
     \/ pcWatch \in Serviced /\ pcWatch' \in Serviced

Connection ==
  \/ ConnectOk \/ SpawnRecv \/ SpawnSend \/ Stop \/ Join
  \/ RecvRead \/ RecvNothing \/ RecvDrop \/ RecvExit
  \/ SendOk \/ SendFails \/ SendDrop \/ SendExit \/ Restart

\* A step either leaves the connection and its threads alone, or is one of the
\* steps of the watch thread, the reader and the writer, or a restart.
LEMMA StepKinds == TypeOK /\ [Next]_vars => Aside \/ Connection
<1> SUFFICES ASSUME TypeOK, [Next]_vars, ~Connection PROVE Aside
  OBVIOUS
<1> USE DEF Aside, threadVars, Idling, Serviced, UndoPc, RevertPc
<1>1. CASE DnsFails
  BY <1>1 DEF DnsFails
<1>2. CASE Resolve
  BY <1>2 DEF Resolve
<1>3. CASE ConnectFails
  BY <1>3 DEF ConnectFails
<1>4. CASE IdleService
  BY <1>4 DEF IdleService, Pause
<1>5. CASE IdleTest
  BY <1>5 DEF IdleTest
<1>6. CASE EndDelay
  BY <1>6 DEF EndDelay
<1>7. CASE getUpdateNetState
  BY <1>7 DEF getUpdateNetState
<1>8. CASE LinkLost
  BY <1>8 DEF LinkLost
<1>9. CASE RevertIfSilent
  BY <1>9 DEF RevertIfSilent
<1>u. CASE Undo \/ revertIPConfig
  BY <1>u DEF Undo, revertIPConfig, RevertFile, RevertLoad, RevertClear
<1>s. CASE WatchTaskSample
  BY <1>s DEF WatchTaskSample, SampleConnectFails, SampleUndo
<1>10. CASE RecvQueueDequeue
  BY <1>10 DEF RecvQueueDequeue
<1>11. CASE HandleLoginOk
  BY <1>11 DEF HandleLoginOk, Handled
<1>12. CASE HandleLoginRej
  BY <1>12 DEF HandleLoginRej, Handled
<1>13. CASE HandleLogoutOk
  BY <1>13 DEF HandleLogoutOk, setNetLose, Handled
<1>14. CASE HandleTimeOk
  BY <1>14 DEF HandleTimeOk, Handled
<1>15. CASE HandleHeartbeat
  BY <1>15 DEF HandleHeartbeat, Handled
<1>16. CASE HandleParm
  BY <1>16 DEF HandleParm, ParmWrite, ParmLoad, ParmCompare, ParmSave, ParmReply, setNetLose,
     HandleStep
<1>17. CASE RejectCommand
  BY <1>17 DEF RejectCommand, Handled
<1>28. CASE HandleRemoteCtl \/ SampleWrite \/ ResetCopy \/ CommandDone
  BY <1>28 DEF HandleRemoteCtl, SampleWrite, ResetCopy, CommandDone, HandleStep
<1>18. CASE HeartTask
  BY <1>18 DEF HeartTask, PeriodicSend
<1>19. CASE SendTask
  BY <1>19 DEF SendTask, PeriodicSend
<1>20. CASE getSOCPowerState
  BY <1>20 DEF getSOCPowerState
<1>21. CASE SocWakeup
  BY <1>21 DEF SocWakeup
<1>22. CASE SocSleep
  BY <1>22 DEF SocSleep
<1>23. CASE SocEvent
  BY <1>23 DEF SocEvent
<1>24. CASE SpuriousWakeup
  BY <1>24 DEF SpuriousWakeup
<1>25. CASE PlatformCommands
  BY <1>25 DEF PlatformCommands
<1>26. CASE PeerGone
  BY <1>26 DEF PeerGone
<1>27. CASE UNCHANGED vars
  BY <1>27 DEF vars
<1> QED
  BY <1>1, <1>2, <1>3, <1>4, <1>5, <1>6, <1>7, <1>8, <1>9, <1>10, <1>11, <1>12, <1>13, <1>14,
     <1>15, <1>16, <1>17, <1>18, <1>19, <1>20, <1>21, <1>22, <1>23, <1>24, <1>25, <1>26, <1>27,
     <1>28, <1>u, <1>s
  DEF Next, WatchTask, Start, Idle, TearDown, recvFunc,
     sendFunc, RecvTask, HandleMessage, WatchSOCPowerStateTask, Environment, Connection

\* Every step preserves the relation between the threads and the socket.
LEMMA ConnectionStep == IInv /\ [Next]_vars => ThreadsInv' /\ CountInv'
<1> SUFFICES ASSUME IInv, [Next]_vars PROVE ThreadsInv' /\ CountInv'
  OBVIOUS
<1> USE LinkAssumption DEF ThreadsInv, CountInv, Idling, Serviced, UndoPc, RevertPc, threadVars
<1>0. TypeOK /\ ThreadsInv /\ CountInv
  BY DEF IInv
<1>t. /\ pcWatch \in WatchPc /\ pcRecv \in LoopPc /\ pcSend \in LoopPc
      /\ readtimeout \in 0..PlatformRespTimeout
      /\ writetimeout \in 0..(TerminalRespTimeout + 1)
      /\ running \in BOOLEAN /\ sock \in {"closed", "open"}
  BY <1>0 DEF TypeOK
<1>1. CASE ConnectOk
  BY <1>0, <1>t, <1>1 DEF ConnectOk, LoopPc, WatchPc, Reverting
<1>2. CASE SpawnRecv
  BY <1>0, <1>t, <1>2 DEF SpawnRecv, LoopPc, WatchPc, Reverting
<1>3. CASE SpawnSend
  BY <1>0, <1>t, <1>3 DEF SpawnSend, LoopPc, WatchPc, Reverting
<1>4. CASE Stop
  BY <1>0, <1>t, <1>4 DEF Stop, LoopPc, WatchPc, Reverting
<1>5. CASE Join
  BY <1>0, <1>t, <1>5 DEF Join, Joined, LoopPc, WatchPc, Reverting
<1>6. CASE RecvRead
  BY <1>0, <1>t, <1>6 DEF RecvRead, LoopPc, WatchPc, Reverting
<1>7. CASE RecvNothing
  BY <1>0, <1>t, <1>7 DEF RecvNothing, Silent, setNetLose, LoopPc, WatchPc, Reverting
<1>8. CASE RecvDrop
  BY <1>0, <1>t, <1>8 DEF RecvDrop, LoopPc, WatchPc, Reverting
<1>9. CASE RecvExit
  BY <1>0, <1>t, <1>9 DEF RecvExit, LoopPc, WatchPc, Reverting
<1>10. CASE SendOk
  BY <1>0, <1>t, <1>10 DEF SendOk, LoopPc, WatchPc, Reverting
<1>11. CASE SendFails
  BY <1>0, <1>t, <1>11 DEF SendFails, setNetLose, LoopPc, WatchPc, Reverting
<1>12. CASE SendDrop
  BY <1>0, <1>t, <1>12 DEF SendDrop, LoopPc, WatchPc, Reverting
<1>13. CASE SendExit
  BY <1>0, <1>t, <1>13 DEF SendExit, LoopPc, WatchPc, Reverting
<1>14. CASE Aside
  BY <1>0, <1>t, <1>14 DEF Aside
<1>15. CASE Restart
  BY <1>15 DEF Restart
<1> QED
  BY <1>0, <1>1, <1>2, <1>3, <1>4, <1>5, <1>6, <1>7, <1>8, <1>9, <1>10, <1>11, <1>12, <1>13,
     <1>14, <1>15, StepKinds DEF Connection

\* The inductive invariant holds in every behaviour.
THEOREM Invariance == Spec => []IInv
<1>1. IInv /\ [Next]_vars => IInv'
  BY TypeStep, ConnectionStep DEF IInv
<1> QED
  BY InitIInv, <1>1, PTL DEF Spec

\* Every variable keeps its type: in particular the failed reads a reader
\* counts never pass the timeout that ends its connection.
THEOREM TypeCorrect == Spec => []TypeOK
<1>1. IInv => TypeOK
  BY DEF IInv
<1> QED
  BY Invariance, <1>1, PTL

\* No thread uses a socket that is closed, and no thread is left when the next
\* connection is opened.
THEOREM SocketOwnership == Spec => []SocketOwned
<1>1. IInv => SocketOwned
  BY DEF IInv, TypeOK, ThreadsInv, SocketOwned, Idling, Serviced, UndoPc, RevertPc, WatchPc,
     Reverting
<1> QED
  BY Invariance, <1>1, PTL

\* As long as running is true a connection has both its threads.
THEOREM ThreadsLive == Spec => []LiveWhileRunning
<1>1. IInv => LiveWhileRunning
  BY DEF IInv, TypeOK, ThreadsInv, LiveWhileRunning, Serviced, RevertPc, LoopPc, Reading, Writing
<1> QED
  BY Invariance, <1>1, PTL

-----------------------------------------------------------------------------
(* The link implements SocketUse.                                          *)

\* The initial states map to the initial state of SocketUse.
LEMMA SocketInit == Init => Sockets!Init
BY DEF Init, Sockets!Init, Using, Done, Reading, Writing

\* Every step maps to a step of SocketUse or leaves its state alone.
LEMMA SocketStep ==
  IInv /\ [Next]_vars => [Sockets!Next \/ Sockets!Exit]_<<sock = "open", Using, Done>>
<1> SUFFICES ASSUME IInv, [Next]_vars
             PROVE  [Sockets!Next \/ Sockets!Exit]_<<sock = "open", Using, Done>>
  OBVIOUS
<1>0. TypeOK /\ ThreadsInv
  BY DEF IInv
<1> USE DEF Idling, Serviced, UndoPc, RevertPc, Reverting, threadVars, Using, Done, Reading,
        Writing, ThreadsInv, LoopPc
<1>t. pcRecv \in LoopPc /\ pcSend \in LoopPc /\ pcWatch \in WatchPc
  BY <1>0 DEF TypeOK
<1>1. CASE ConnectOk
  <2>1. Sockets!Open
    BY <1>0, <1>t, <1>1 DEF ConnectOk, Sockets!Open, WatchPc
  <2> QED
    BY <2>1 DEF Sockets!Next
<1>2. CASE SpawnRecv
  <2>1. Sockets!Enter("recv")
    <3>1. /\ sock = "open" /\ sock' = "open" /\ pcRecv = "none" /\ pcSend = "none"
          /\ pcRecv' = "loop" /\ pcSend' = "none"
      BY <1>0, <1>t, <1>2 DEF SpawnRecv, TypeOK
    <3>2. Using = {} /\ Done = {} /\ Using' = {"recv"} /\ Done' = {}
      BY <3>1
    <3> HIDE DEF Using, Done
    <3> QED
      BY <3>1, <3>2 DEF Sockets!Enter
  <2> QED
    BY <2>1 DEF Sockets!Next
<1>3. CASE SpawnSend
  <2>1. Sockets!Enter("send")
    <3>1. /\ sock = "open" /\ sock' = "open" /\ pcSend = "none"
          /\ pcRecv' = pcRecv /\ pcSend' = "loop"
      BY <1>0, <1>t, <1>3 DEF SpawnSend, TypeOK
    <3>2. "send" \notin Using /\ "send" \notin Done /\ Using' = Using \cup {"send"} /\ Done' = Done
      BY <3>1
    <3> HIDE DEF Using, Done
    <3> QED
      BY <3>1, <3>2 DEF Sockets!Enter
  <2> QED
    BY <2>1 DEF Sockets!Next
<1>4. CASE RecvExit
  <2>1. Sockets!Leave("recv")
    BY <1>0, <1>t, <1>4 DEF RecvExit, Sockets!Leave
  <2> QED
    BY <2>1 DEF Sockets!Next
<1>5. CASE SendExit
  <2>1. Sockets!Leave("send")
    BY <1>0, <1>t, <1>5 DEF SendExit, Sockets!Leave
  <2> QED
    BY <2>1 DEF Sockets!Next
<1>6. CASE Join
  <2>1. Sockets!Close
    <3>1. /\ sock = "open" /\ sock' = "closed" /\ pcRecv = "exited" /\ pcSend = "exited"
          /\ pcRecv' = "none" /\ pcSend' = "none"
      BY <1>0, <1>t, <1>6 DEF Join, Joined, TypeOK
    <3>2. Using = {} /\ Done = {"recv", "send"} /\ Using' = {} /\ Done' = {}
      BY <3>1
    <3> HIDE DEF Using, Done
    <3> QED
      BY <3>1, <3>2 DEF Sockets!Close
  <2> QED
    BY <2>1 DEF Sockets!Next
<1>7. CASE UNCHANGED sock /\ (Reading' <=> Reading) /\ (Writing' <=> Writing)
           /\ (pcRecv' = "exited" <=> pcRecv = "exited")
           /\ (pcSend' = "exited" <=> pcSend = "exited")
  BY <1>7
<1>8. CASE \/ Stop \/ RecvRead \/ RecvNothing \/ RecvDrop
           \/ SendOk \/ SendFails \/ SendDrop
  BY <1>7, <1>8, <1>t DEF Stop, RecvRead, RecvNothing, RecvDrop, SendOk, SendFails, SendDrop
<1>9. CASE Aside
  BY <1>7, <1>9 DEF Aside
<1>10. CASE Restart
  <2>1. Sockets!Exit
    BY <1>10 DEF Restart, Sockets!Exit
  <2> QED
    BY <2>1
<1> QED
  BY <1>0, <1>1, <1>2, <1>3, <1>4, <1>5, <1>6, <1>8, <1>9, <1>10, StepKinds DEF Connection

\* Every connection is opened once, gets one reader and one writer, and is
\* closed after both have ended.
THEOREM SocketRefinement == Spec => ImplementsSocketUse
BY SocketInit, SocketStep, Invariance, PTL DEF Spec, ImplementsSocketUse, Sockets!SpecWithExit

-----------------------------------------------------------------------------
(* Before the first accepted login nothing that depends on one is under     *)
(* way: no time request is queued and no answer to one is on its way back.  *)

Early == UpMsg \ {"timesync"}
EarlyAnswer == DownMsg \ {Answer("timeOk")}

LoginInv ==
  network = 0 =>
    /\ mState \notin {"UpReport", "Realtime"}
    /\ mSendQueue \in Seq(Early) /\ mRecvQueue \in Seq(EarlyAnswer)
    /\ down \in Seq(EarlyAnswer) /\ hand # Answer("timeOk")

\* No time request or time answer exists at boot.
LEMMA LoginInit ==
  ASSUME BootStates \cap {"UpReport", "Realtime"} = {} PROVE Init => LoginInv
BY DEF Init, LoginInv, NoMsg, Answer

\* The steps that touch neither the queues nor the state of the session.
Quiet == UNCHANGED <<mState, network, mSendQueue, mRecvQueue, down, hand>>

\* Every step preserves it: a time request is queued only in a state that
\* reports, and such a state is entered only with an accepted login.
LEMMA LoginStep ==
  ASSUME BootStates \cap {"UpReport", "Realtime"} = {}
  PROVE  IInv /\ LoginInv /\ [Next]_vars => LoginInv'
<1> SUFFICES ASSUME IInv, LoginInv, [Next]_vars, network' = 0 PROVE LoginInv'
  BY DEF LoginInv
<1> USE DEF LoginInv, tboxVars, queueVars, farVars, handVars, Quiet
<1>0. TypeOK
  BY DEF IInv
<1>m. /\ "login" \in Early /\ "info" \in Early /\ "heartbeat" \in Early
      /\ "logout" \in Early
      /\ \A c \in {"loginOk", "loginRej", "beat", "logoutOk"} : Answer(c) \in EarlyAnswer
      /\ Commands \subseteq EarlyAnswer
      /\ NoMsg # Answer("timeOk")
  BY DEF Early, EarlyAnswer, UpMsg, DownMsg, Commands, Answer, ParmSet, NoMsg
<1>21. CASE Quiet
  BY <1>21
<1>1. CASE ConnectOk
  BY <1>0, <1>m, <1>1 DEF ConnectOk, TypeOK
<1>2. CASE SpawnRecv
  BY <1>0, <1>m, <1>2 DEF SpawnRecv, TypeOK
<1>3. CASE LinkLost
  BY <1>0, <1>m, <1>3 DEF LinkLost, TypeOK
<1>4. CASE Join
  BY <1>0, <1>m, <1>4 DEF Join, Joined, TypeOK
<1>5. CASE RecvRead
  BY <1>0, <1>m, <1>5 DEF RecvRead, TypeOK
<1>6. CASE SendOk
  <2>1. /\ mSendQueue \in Seq(Early) /\ down \in Seq(EarlyAnswer) /\ mSendQueue # << >>
        /\ mSendQueue' = Tail(mSendQueue)
    BY <1>6 DEF SendOk
  <2>2. Head(mSendQueue) # "timesync" /\ mSendQueue' \in Seq(Early)
    BY <2>1 DEF Early
  <2>3. ASSUME NEW c \in {"loginOk", "loginRej", "beat", "logoutOk"}
        PROVE  Append(down, Answer(c)) \in Seq(EarlyAnswer)
    BY <1>m, <2>1
  <2>4. down' \in Seq(EarlyAnswer)
    <3>1. CASE Platform(Head(mSendQueue))
      BY <3>1, <2>1, <2>2, <2>3 DEF Platform
    <3>2. CASE UNCHANGED down
      BY <3>2, <2>1
    <3> QED
      BY <1>6, <3>1, <3>2 DEF SendOk
  <2> QED
    BY <1>6, <2>2, <2>4 DEF SendOk
<1>7. CASE SendFails
  BY <1>0, <1>m, <1>7 DEF SendFails, TypeOK
<1>8. CASE RecvQueueDequeue
  BY <1>0, <1>m, <1>8 DEF RecvQueueDequeue, EarlyAnswer, TypeOK
<1>9. CASE HandleLoginOk
  BY <1>0, <1>m, <1>9 DEF HandleLoginOk, Handled, TypeOK
<1>10. CASE HandleLoginRej
  BY <1>0, <1>m, <1>10 DEF HandleLoginRej, Handled, TypeOK
<1>11. CASE HandleLogoutOk
  BY <1>0, <1>m, <1>11 DEF HandleLogoutOk, Handled, TypeOK
<1>12. CASE HandleTimeOk
  BY <1>0, <1>m, <1>12 DEF HandleTimeOk, Handled, TypeOK
<1>13. CASE HandleHeartbeat
  <2>1. /\ mSendQueue' = mSendQueue \/ mSendQueue' = Append(mSendQueue, "logout")
        /\ UNCHANGED <<mState, network, mRecvQueue, down>>
        /\ hand' = NoMsg
    BY <1>13 DEF HandleHeartbeat, Handled
  <2>2. mSendQueue \in Seq(Early)
    BY <2>1
  <2>3. mSendQueue' \in Seq(Early)
    BY <1>m, <2>1, <2>2
  <2> QED
    BY <1>m, <2>1, <2>3
<1>14. CASE ParmReply \/ HandleRemoteCtl
  <2>1. mSendQueue' \in {mSendQueue \o <<"info">>, mSendQueue \o <<"info", "logout">>}
    BY <1>14 DEF ParmReply, HandleRemoteCtl
  <2>2. UNCHANGED <<mState, network, mRecvQueue, down, hand>>
    BY <1>14 DEF ParmReply, HandleRemoteCtl, HandleStep
  <2>3. <<"info", "logout">> \in Seq(Early) /\ <<"info">> \in Seq(Early)
    BY <1>m
  <2>4. mSendQueue \in Seq(Early)
    BY <2>2
  <2>5. \A q \in Seq(Early) : mSendQueue \o q \in Seq(Early)
    BY <2>4, ConcatProperties, Zenon
  <2>6. mSendQueue' \in Seq(Early)
    BY <2>1, <2>3, <2>5, Zenon
  <2> QED
    BY <2>2, <2>6
<1>23. CASE ParmWrite \/ ParmLoad \/ ParmCompare \/ ParmSave \/ SampleWrite \/ ResetCopy
  BY <1>21, <1>23 DEF ParmWrite, ParmLoad, ParmCompare, ParmSave, SampleWrite, ResetCopy, HandleStep
<1>24. CASE CommandDone
  BY <1>m, <1>24 DEF CommandDone
<1>25. CASE Undo \/ revertIPConfig \/ WatchTaskSample
  BY <1>21, <1>25 DEF Undo, revertIPConfig, WatchTaskSample, SampleConnectFails, SampleUndo
<1>26. CASE Restart
  BY <1>0, <1>m, <1>26, BootStates \cap {"UpReport", "Realtime"} = {} DEF Restart
<1>15. CASE RejectCommand
  BY <1>0, <1>m, <1>15 DEF RejectCommand, Handled, TypeOK
<1>16. CASE HeartTask
  BY <1>0, <1>m, <1>16 DEF HeartTask, PeriodicSend, TypeOK
<1>17. CASE SendTask
  BY <1>0, <1>m, <1>17 DEF SendTask, PeriodicSend, TypeOK
<1>18. CASE SocSleep
  BY <1>0, <1>m, <1>18 DEF SocSleep, TypeOK
<1>19. CASE PlatformCommands
  BY <1>0, <1>m, <1>19 DEF PlatformCommands, TypeOK
<1>20. CASE PeerGone
  <2>1. down \in Seq(EarlyAnswer) /\ << >> \in Seq(EarlyAnswer)
    BY <1>20 DEF PeerGone
  <2>2. down' = down \/ down' = << >>
    BY <1>20 DEF PeerGone
  <2>3. down' \in Seq(EarlyAnswer)
    BY <2>1, <2>2, Zenon
  <2> QED
    BY <1>20, <2>3 DEF PeerGone
<1>22. CASE \/ DnsFails \/ Resolve \/ ConnectFails \/ SpawnSend \/ IdleService \/ IdleTest
            \/ EndDelay \/ getUpdateNetState \/ RevertIfSilent \/ Stop \/ RecvNothing \/ RecvDrop
            \/ RecvExit \/ SendDrop \/ SendExit \/ getSOCPowerState \/ SocWakeup \/ SocEvent
            \/ SpuriousWakeup \/ UNCHANGED vars
  BY <1>21, <1>22 DEF DnsFails, Resolve, ConnectFails, SpawnSend, IdleService, IdleTest,
     EndDelay, getUpdateNetState, RevertIfSilent, Stop, RecvNothing, RecvDrop, RecvExit,
     SendDrop, SendExit, getSOCPowerState, SocWakeup, SocEvent, SpuriousWakeup, vars
<1> QED
  BY <1>1, <1>2, <1>3, <1>4, <1>5, <1>6, <1>7, <1>8, <1>9, <1>10, <1>11, <1>12, <1>13, <1>14,
     <1>15, <1>16, <1>17, <1>18, <1>19, <1>20, <1>21, <1>22, <1>23, <1>24, <1>25, <1>26
  DEF Next, WatchTask, Start, Idle, TearDown, recvFunc,
     sendFunc, RecvTask, HandleMessage, HandleParm, WatchSOCPowerStateTask, Environment

\* A TBOX that does not boot in one of the states that report asks for the
\* time and sends heartbeats only after a login was accepted.
THEOREM ReportsAfterLogin ==
  ASSUME BootStates \cap {"UpReport", "Realtime"} = {}
  PROVE  Spec => []OnlineAfterLogin
<1>1. Init => LoginInv
  BY LoginInit
<1>2. IInv /\ LoginInv => OnlineAfterLogin
  BY DEF LoginInv, OnlineAfterLogin, IInv, TypeOK
<1> QED
  BY <1>1, <1>2, LoginStep, Invariance, PTL DEF Spec

-----------------------------------------------------------------------------
(* The address that once accepted a login.  A message on its way is in      *)
(* `down', in mRecvQueue or in hand, in that order; an accepted login is    *)
(* handled before anything that came after it, and before the next login is *)
(* asked for (MessageInv).  So the address it speaks of is the one in the   *)
(* file, outside of the lapses (AddressInv).                                *)

Without(queue, set) == \A i \in 1..Len(queue) : queue[i] \notin set
Single(queue, set) ==
  \A i, j \in 1..Len(queue) : queue[i] \in set /\ queue[j] \in set => i = j
First(queue, set) == \A i \in 1..Len(queue) : queue[i] \in set => i = 1

LoginOk == {Answer("loginOk")}
Login == {"login"}

\* Some message of the set is on its way to HandleMessage.
Coming(set) == hand \in set \/ ~Without(mRecvQueue, set) \/ ~Without(down, set)

\* Nothing comes before an accepted login, and what is handled in steps is a
\* command.
OrderInv ==
  /\ hand # NoMsg => Without(mRecvQueue, LoginOk)
  /\ First(mRecvQueue, LoginOk) /\ First(down, LoginOk)
  /\ Without(down, LoginOk) \/ (hand = NoMsg /\ mRecvQueue = <<>>)
  /\ pcHandle # "handle" => hand \in Commands

\* Nothing has come over this connection and nothing is left of the last one.
Unanswered == hand = NoMsg /\ mRecvQueue = <<>> /\ down = <<>> /\ ~platLogged

\* A login that is still to be sent is the first message of its connection.
PendingInv ==
  /\ pcWatch \in Idling => down = <<>> /\ ~platLogged
  /\ pcWatch \in {"start", "connect", "spawnRecv"} \cup UndoPc => Unanswered
  /\ pcWatch = "spawnRecv" => Without(mSendQueue, Login)
  /\ pcWatch \in {"spawnSend"} \cup Serviced =>
       /\ Single(mSendQueue, Login)
       /\ Without(mSendQueue, Login) \/ (running => Unanswered)
  /\ pcWatch \in RevertPc => ~running

MessageInv == OrderInv /\ PendingInv

\* The attempts whose login is still to be sent.
Asking ==
  \/ pcWatch \in {"connect", "spawnRecv"}
  \/ pcWatch \in {"spawnSend"} \cup Serviced /\ running /\ ~Without(mSendQueue, Login)

\* The platform is asked, and answers, at the address in the file, or a revert has
\* meanwhile written an address that accepted a login.
PlatformInv ==
  /\ Asking => target = cfgFile \/ cfgFile \in accepted
  /\ Coming(LoginOk) => cfgFile \in accepted

\* While no command is handled and no revert is under way, the memory has what is
\* in the file.
MemoryInv ==
  /\ cfgFile = BadFile => pcHandle = "copy"
  /\ pcHandle = "handle" /\ pcWatch \notin {"undoLoad", "revertLoad"} /\ pcSample # "load" =>
       cfgMem = cfgFile

\* While 0x81 is handled the old address is in memory and the new one in the file.
ChangeInv ==
  /\ pcHandle \in Changing => cfgMem \in accepted
  /\ pcHandle \in {"compare", "save"} => parm = cfgFile
  /\ pcHandle = "compare" => ChangeNetParm = 0
  /\ pcHandle = "save" /\ ChangeNetParm = 0 => cfgFile = cfgMem

\* A revert goes back to an address that accepted a login, if to any.
RevertInv ==
  /\ ChangeNetParm = 1 /\ pcHandle # "save" => ChangeNetParmSave \in accepted \cup {NoAddr}
  /\ UnderWay => ChangeNetParmSave \in accepted /\ pcHandle \notin Changing
  /\ pcWatch \in Reverting \ {"undoFile", "revertFile"} \/ pcSample \in {"load", "clear"} =>
       cfgFile \in accepted \/ pcHandle = "copy"

AddressInv == KnownGoodReachable /\ MemoryInv /\ ChangeInv /\ RevertInv /\ PlatformInv

GoodInv == MessageInv /\ (lapsed \/ AddressInv)

\* A message at the end of a queue.
LEMMA Appended ==
  ASSUME NEW S, NEW q \in Seq(S), NEW m \in S, NEW set
  PROVE  /\ Append(q, m) \in Seq(S)
         /\ Without(Append(q, m), set) <=> Without(q, set) /\ m \notin set
         /\ Single(q, set) /\ (m \notin set \/ Without(q, set)) => Single(Append(q, m), set)
         /\ First(q, set) /\ (m \notin set \/ q = <<>>) => First(Append(q, m), set)
<1>1. /\ Append(q, m) \in Seq(S) /\ Len(Append(q, m)) = Len(q) + 1 /\ Len(q) \in Nat
      /\ \A i \in 1..Len(q) : Append(q, m)[i] = q[i]
      /\ Append(q, m)[Len(q) + 1] = m
  BY AppendProperties, LenProperties
<1> DEFINE r == Append(q, m)
<1>2. q = <<>> => Len(q) = 0
  OBVIOUS
<1> HIDE DEF r
<1>3. \A i \in 1..Len(r) : \/ i \in 1..Len(q) /\ r[i] = q[i]
                           \/ i = Len(q) + 1 /\ r[i] = m
  BY <1>1 DEF r
<1>4. \A i \in 1..Len(q) : i \in 1..Len(r) /\ r[i] = q[i]
  BY <1>1 DEF r
<1>5. Len(q) + 1 \in 1..Len(r) /\ r[Len(q) + 1] = m
  BY <1>1 DEF r
<1>6. Without(r, set) <=> Without(q, set) /\ m \notin set
  BY <1>3, <1>4, <1>5 DEF Without
<1>7. Single(q, set) /\ (m \notin set \/ Without(q, set)) => Single(r, set)
  BY <1>3 DEF Without, Single
<1>8. First(q, set) /\ (m \notin set \/ q = <<>>) => First(r, set)
  BY <1>2, <1>3 DEF First
<1> QED
  BY <1>1, <1>6, <1>7, <1>8 DEF r

\* Messages of other kinds at the end of a queue.
LEMMA Concatenated ==
  ASSUME NEW S, NEW q \in Seq(S), NEW r \in Seq(S), NEW set, Without(r, set)
  PROVE  /\ Without(q, set) => Without(q \o r, set)
         /\ Single(q, set) => Single(q \o r, set)
<1>1. /\ Len(q \o r) = Len(q) + Len(r) /\ Len(q) \in Nat /\ Len(r) \in Nat
      /\ \A i \in 1..(Len(q) + Len(r)) :
           (q \o r)[i] = IF i <= Len(q) THEN q[i] ELSE r[i - Len(q)]
  BY ConcatProperties, LenProperties
<1> DEFINE t == q \o r
<1> HIDE DEF t
<1>2. \A i \in 1..Len(t) : t[i] \in set => i \in 1..Len(q) /\ t[i] = q[i]
  <2> SUFFICES ASSUME NEW i \in 1..Len(t), t[i] \in set PROVE i \in 1..Len(q) /\ t[i] = q[i]
    OBVIOUS
  <2>1. CASE i <= Len(q)
    BY <1>1, <2>1 DEF t
  <2>2. CASE ~(i <= Len(q))
    <3>1. i - Len(q) \in 1..Len(r) /\ t[i] = r[i - Len(q)]
      BY <1>1, <2>2 DEF t
    <3> QED
      BY <3>1 DEF Without
  <2> QED
    BY <2>1, <2>2
<1>3. (Without(q, set) => Without(t, set)) /\ (Single(q, set) => Single(t, set))
  BY <1>2 DEF Without, Single
<1> QED
  BY <1>3 DEF t

\* What is left of a queue without its first n messages.
Rest(rest, queue, n) ==
  /\ Len(rest) = Len(queue) - n
  /\ \A i \in 1..Len(rest) : rest[i] = queue[n + i]

\* A queue without its first messages.
LEMMA Shortened ==
  ASSUME NEW S, NEW q \in Seq(S), NEW n \in 1..Len(q), NEW set,
         NEW r \in Seq(S), Rest(r, q, n)
  PROVE  /\ q # <<>> /\ Head(q) \in S
         /\ Without(q, set) => Without(r, set) /\ Head(q) \notin set
         /\ Single(q, set) => Single(r, set) /\ (Head(q) \in set => Without(r, set))
         /\ First(q, set) => Without(r, set)
<1>1. /\ Len(q) \in Nat /\ n \in Nat /\ n >= 1 /\ n <= Len(q) /\ Len(r) \in Nat
      /\ Len(r) = Len(q) - n /\ \A i \in 1..Len(r) : r[i] = q[n + i]
  BY LenProperties DEF Rest
<1>2. q # <<>> /\ Head(q) = q[1] /\ 1 \in 1..Len(q) /\ q[1] \in S
  <2>1. q # <<>> /\ 1 \in 1..Len(q)
    BY <1>1
  <2>2. q[1] \in S
    BY <2>1, ElementOfSeq
  <2> QED
    BY <2>1, <2>2, HeadTailProperties
<1>3. \A i \in 1..Len(r) : n + i \in 1..Len(q) /\ n + i # 1 /\ r[i] = q[n + i]
  BY <1>1
<1>4. Without(q, set) => Without(r, set) /\ Head(q) \notin set
  BY <1>2, <1>3 DEF Without
<1>5. Single(q, set) => Single(r, set)
  <2> SUFFICES ASSUME Single(q, set), NEW i \in 1..Len(r), NEW j \in 1..Len(r),
                      r[i] \in set, r[j] \in set
               PROVE  i = j
    BY DEF Single
  <2>1. n + i \in 1..Len(q) /\ n + j \in 1..Len(q) /\ q[n + i] \in set /\ q[n + j] \in set
    BY <1>3
  <2>2. n + i = n + j
    BY <2>1 DEF Single
  <2> QED
    BY <1>1, <2>2
<1>6. Single(q, set) /\ Head(q) \in set => Without(r, set)
  BY <1>2, <1>3 DEF Single, Without
<1>7. First(q, set) => Without(r, set)
  BY <1>3 DEF First, Without
<1> QED
  BY <1>2, <1>4, <1>5, <1>6, <1>7

\* A queue without its first message.
LEMMA TailShort ==
  ASSUME NEW S, NEW q \in Seq(S), q # <<>>, NEW set
  PROVE  /\ Head(q) \in S /\ Tail(q) \in Seq(S)
         /\ Without(q, set) => Without(Tail(q), set) /\ Head(q) \notin set
         /\ Single(q, set) => Single(Tail(q), set) /\ (Head(q) \in set => Without(Tail(q), set))
         /\ First(q, set) => Without(Tail(q), set)
<1>1. /\ Len(q) \in Nat /\ 1 \in 1..Len(q) /\ Tail(q) \in Seq(S) /\ Len(Tail(q)) = Len(q) - 1
      /\ \A i \in 1..Len(Tail(q)) : Tail(q)[i] = q[1 + i]
  OBVIOUS
<1> DEFINE r == Tail(q)
<1> HIDE DEF r
<1>2. r \in Seq(S)
  BY <1>1 DEF r
<1>4. Rest(r, q, 1)
  BY <1>1 DEF r, Rest
<1>5. 1 \in 1..Len(q)
  BY <1>1
<1>6. /\ Head(q) \in S
      /\ Without(q, set) => Without(r, set) /\ Head(q) \notin set
      /\ Single(q, set) => Single(r, set) /\ (Head(q) \in set => Without(r, set))
      /\ First(q, set) => Without(r, set)
  BY <1>2, <1>4, <1>5, Shortened
<1> QED
  BY <1>2, <1>6 DEF r

\* A stream without what one read took.
LEMMA RestShort ==
  ASSUME NEW S, NEW q \in Seq(S), NEW n \in 1..Len(q), NEW set
  PROVE  LET r == SubSeq(q, n + 1, Len(q))
         IN  /\ q # <<>> /\ Head(q) \in S /\ r \in Seq(S)
             /\ Without(q, set) => Without(r, set) /\ Head(q) \notin set
             /\ Single(q, set) => Single(r, set) /\ (Head(q) \in set => Without(r, set))
             /\ First(q, set) => Without(r, set)
<1> DEFINE r == SubSeq(q, n + 1, Len(q))
<1>1. Len(q) \in Nat /\ n \in Nat /\ n <= Len(q)
  BY LenProperties
<1>2. ASSUME NEW i \in (n + 1)..Len(q) PROVE q[i] \in S
  <2>1. i \in 1..Len(q)
    BY <1>1
  <2> QED
    BY <2>1, ElementOfSeq
<1>3. /\ r \in Seq(S) /\ Len(r) = IF n + 1 <= Len(q) THEN Len(q) - (n + 1) + 1 ELSE 0
      /\ \A i \in 1..(Len(q) - (n + 1) + 1) : r[i] = q[(n + 1) + i - 1]
  BY <1>1, <1>2, SubSeqProperties
<1> HIDE DEF r
<1>4. Len(r) = Len(q) - n
  BY <1>1, <1>3
<1>5. ASSUME NEW i \in 1..Len(r) PROVE r[i] = q[n + i]
  <2>1. i \in 1..(Len(q) - (n + 1) + 1) /\ (n + 1) + i - 1 = n + i
    BY <1>1, <1>4
  <2> QED
    BY <1>3, <2>1
<1>6. /\ q # <<>> /\ Head(q) \in S
      /\ Without(q, set) => Without(r, set) /\ Head(q) \notin set
      /\ Single(q, set) => Single(r, set) /\ (Head(q) \in set => Without(r, set))
      /\ First(q, set) => Without(r, set)
  <2>1. r \in Seq(S)
    BY <1>3
  <2>2. Rest(r, q, n)
    BY <1>4, <1>5 DEF Rest
  <2> QED
    BY <2>1, <2>2, Shortened
<1> QED
  BY <1>3, <1>6 DEF r

\* An empty queue has nothing of any kind.
LEMMA EmptyQueue ==
  ASSUME NEW set
  PROVE  Without(<<>>, set) /\ Single(<<>>, set) /\ First(<<>>, set)
BY DEF Without, Single, First

\* What is no command and no accepted login.
LEMMA Kinds ==
  /\ NoMsg \notin DownMsg /\ NoMsg \notin Commands /\ NoMsg \notin LoginOk
  /\ \A m \in Commands : m \notin LoginOk /\ m \in DownMsg
  /\ \A c \in {"loginOk", "loginRej", "timeOk", "beat", "logoutOk"} :
       Answer(c) \in DownMsg /\ Answer(c) \notin Commands
  /\ \A c \in {"loginRej", "timeOk", "beat", "logoutOk"} : Answer(c) \notin LoginOk
<1>1. /\ Answer("loginOk").cmd = "loginOk" /\ Answer("loginRej").cmd = "loginRej"
      /\ Answer("timeOk").cmd = "timeOk" /\ Answer("beat").cmd = "beat"
      /\ Answer("logoutOk").cmd = "logoutOk" /\ NoMsg.cmd = "none"
  BY DEF Answer, NoMsg
<1>2. \A m \in Commands : m.cmd \in {"remoteCmd", "factoryReset", "parm"} /\ m \in DownMsg
  BY DEF Commands, ParmSet, Answer, DownMsg
<1>3. \A c \in {"loginOk", "loginRej", "timeOk", "beat", "logoutOk"} :
        Answer(c) \in DownMsg /\ Answer(c).cmd = c
  BY DEF Answer, DownMsg
<1>4. \A m \in LoginOk : m.cmd = "loginOk"
  BY <1>1 DEF LoginOk
<1>5. \A m \in DownMsg : m.cmd # "none"
  BY <1>1, <1>2 DEF DownMsg
<1>6. NoMsg \notin DownMsg /\ NoMsg \notin Commands /\ NoMsg \notin LoginOk
  BY <1>1, <1>2, <1>4, <1>5
<1>7. \A m \in Commands : m \notin LoginOk /\ m \in DownMsg
  BY <1>2, <1>4
<1>8. \A c \in {"loginOk", "loginRej", "timeOk", "beat", "logoutOk"} :
        Answer(c) \in DownMsg /\ Answer(c) \notin Commands
  BY <1>2, <1>3
<1>9. \A c \in {"loginRej", "timeOk", "beat", "logoutOk"} : Answer(c) \notin LoginOk
  BY <1>3, <1>4
<1> QED
  BY <1>6, <1>7, <1>8, <1>9

\* Only SpawnRecv puts a login into the send queue.
Fewer ==
  /\ Without(mSendQueue, Login) => Without(mSendQueue', Login)
  /\ Single(mSendQueue, Login) => Single(mSendQueue', Login)

\* No other step puts a login into the send queue: not the timers, not the answers to
\* commands, not the power events.
LEMMA FewerLogins ==
  ASSUME TypeOK, [Next]_vars, ~SpawnRecv
  PROVE  Fewer
<1>0. mSendQueue \in Seq(UpMsg)
  BY DEF TypeOK
<1>1. ASSUME NEW m \in {"info", "timesync", "heartbeat", "logout"},
             mSendQueue' = Append(mSendQueue, m)
      PROVE  Fewer
  <2>1. m \in UpMsg /\ m \notin Login
    BY DEF UpMsg, Login
  <2> QED
    BY <1>0, <1>1, <2>1, Appended DEF Fewer
<1>2. ASSUME NEW r \in {<<"info">>, <<"info", "logout">>}, mSendQueue' = mSendQueue \o r
      PROVE  Fewer
  <2>1. <<"info">> \in Seq(UpMsg) /\ <<"info", "logout">> \in Seq(UpMsg)
    BY DEF UpMsg
  <2>2. Without(<<"info">>, Login) /\ Without(<<"info", "logout">>, Login)
    <3>1. \A i \in 1..2 : <<"info", "logout">>[i] \notin Login
      BY DEF Login
    <3> QED
      BY <3>1 DEF Login, Without
  <2> QED
    BY <1>0, <1>2, <2>1, <2>2, Concatenated DEF Fewer
<1>3. ASSUME mSendQueue # <<>>, mSendQueue' = Tail(mSendQueue) PROVE Fewer
  BY <1>0, <1>3, TailShort DEF Fewer
<1>4. ASSUME mSendQueue' = <<>> PROVE Fewer
  BY <1>4, EmptyQueue DEF Fewer
<1>5. ASSUME mSendQueue' = mSendQueue PROVE Fewer
  BY <1>5 DEF Fewer
<1>6. CASE SendOk \/ SendFails
  BY <1>3, <1>6 DEF SendOk, SendFails
<1>7. CASE HandleLoginOk \/ HandleHeartbeat
  BY <1>1, <1>5, <1>7 DEF HandleLoginOk, HandleHeartbeat
<1>8. CASE ParmReply
  <2>1. \E r \in {<<"info">>, <<"info", "logout">>} : mSendQueue' = mSendQueue \o r
    BY <1>8 DEF ParmReply
  <2> QED
    BY <1>2, <2>1
<1>9. CASE HandleRemoteCtl
  <2>1. \E r \in {<<"info">>, <<"info", "logout">>} : mSendQueue' = mSendQueue \o r
    BY <1>9 DEF HandleRemoteCtl
  <2> QED
    BY <1>2, <2>1
<1>10. CASE HeartTask \/ SendTask
  BY <1>1, <1>10 DEF HeartTask, SendTask, PeriodicSend
<1>11. CASE SocSleep
  BY <1>1, <1>5, <1>11 DEF SocSleep
<1>12. CASE ConnectOk \/ Restart
  BY <1>4, <1>12 DEF ConnectOk, Restart
<1>13. CASE DnsFails \/ Resolve \/ ConnectFails \/ Undo \/ SpawnSend \/ Idle \/ getUpdateNetState
            \/ TearDown
  BY <1>5, <1>13 DEF DnsFails, Resolve, ConnectFails, Undo, SpawnSend, Idle, IdleService,
     IdleTest, EndDelay, getUpdateNetState, TearDown, LinkLost, RevertIfSilent, revertIPConfig,
     Stop, Join, queueVars
<1>14. CASE recvFunc \/ SendDrop \/ SendExit \/ RecvQueueDequeue
  BY <1>5, <1>14 DEF recvFunc, RecvRead, RecvNothing, RecvDrop, RecvExit, SendDrop, SendExit,
     RecvQueueDequeue, queueVars
<1>15. CASE HandleLoginRej \/ HandleLogoutOk \/ HandleTimeOk \/ RejectCommand
  BY <1>5, <1>15 DEF HandleLoginRej, HandleLogoutOk, HandleTimeOk, RejectCommand
<1>16. CASE getSOCPowerState \/ SocWakeup \/ SocEvent \/ SpuriousWakeup \/ PlatformCommands
            \/ PeerGone \/ UNCHANGED vars
  BY <1>5, <1>16 DEF getSOCPowerState, SocWakeup, SocEvent, SpuriousWakeup, PlatformCommands,
     PeerGone, vars, queueVars
<1>17. CASE ParmWrite \/ ParmLoad \/ ParmCompare \/ ParmSave \/ SampleWrite \/ ResetCopy
            \/ CommandDone
  BY <1>5, <1>17 DEF ParmWrite, ParmLoad, ParmCompare, ParmSave, SampleWrite, ResetCopy,
     CommandDone, queueVars
<1>18. CASE WatchTaskSample
  BY <1>5, <1>18 DEF WatchTaskSample, SampleConnectFails, SampleUndo, queueVars
<1> QED
  BY <1>6, <1>7, <1>8, <1>9, <1>10, <1>11, <1>12, <1>13, <1>14, <1>15, <1>16, <1>17, <1>18
  DEF Next, WatchTask, Start, sendFunc, RecvTask, HandleMessage, HandleParm,
     WatchSOCPowerStateTask, Environment

\* No message moves.
Unheard ==
  /\ UNCHANGED <<hand, pcHandle, mRecvQueue, down, platLogged>>
  /\ running' => running
  /\ \/ pcWatch' = pcWatch
     \/ /\ pcWatch \in Idling /\ pcWatch' \in Idling
        /\ pcWatch' \in {"start", "connect"} \cup UndoPc => Unanswered
        /\ pcWatch' = "connect" => Resolve
     \/ /\ pcWatch \in {"spawnSend"} \cup Serviced /\ pcWatch' \in {"spawnSend"} \cup Serviced
        /\ pcWatch' \in RevertPc => ~running'

\* HandleMessage works on what is in hand.
Handling ==
  /\ hand # NoMsg /\ hand' \in {hand, NoMsg}
  /\ pcHandle' # "handle" => hand' = hand /\ hand \in Commands
  /\ UNCHANGED <<mRecvQueue, down, platLogged, running>>
  /\ pcWatch' = pcWatch \/ (pcWatch = "wait" /\ pcWatch' = "lost")

Moving ==
  \/ ConnectOk \/ SpawnRecv \/ Join \/ RecvRead \/ SendOk \/ RecvQueueDequeue
  \/ PlatformCommands \/ PeerGone \/ Restart

\* The steps, by what they have to do with messages.
LEMMA MessageSteps ==
  ASSUME RecvPrompt, TypeOK, MessageInv, [Next]_vars
  PROVE  Unheard \/ (Handling /\ HandleMessage) \/ Moving
<1> SUFFICES ASSUME ~Moving PROVE Unheard \/ (Handling /\ HandleMessage)
  OBVIOUS
<1> USE DEF tboxVars, queueVars, farVars, handVars
<1>0. /\ pcWatch \in Idling => down = <<>> /\ ~platLogged
      /\ pcWatch \in {"start", "connect"} \cup UndoPc => Unanswered
      /\ pcWatch \in RevertPc => ~running
  BY DEF MessageInv, PendingInv
<1>1. CASE DnsFails \/ SpawnSend
  BY <1>1 DEF DnsFails, SpawnSend, Unheard, Idling, Serviced, UndoPc, RevertPc
<1>2. CASE Resolve \/ ConnectFails
  BY <1>0, <1>2 DEF Resolve, ConnectFails, Unheard, Idling, UndoPc
<1>3. CASE Undo
  BY <1>0, <1>3 DEF Undo, RevertFile, RevertLoad, RevertClear, Unheard, Idling, UndoPc
<1>4. CASE IdleService \/ IdleTest
  BY <1>4 DEF IdleService, IdleTest, Pause, Unheard, Idling, UndoPc
<1>5. CASE EndDelay
  BY <1>0, <1>5 DEF EndDelay, Unheard, Unanswered, Idling, UndoPc
<1>6. CASE getUpdateNetState \/ SpuriousWakeup \/ LinkLost
  BY <1>6 DEF getUpdateNetState, SpuriousWakeup, LinkLost, Unheard, Serviced, RevertPc
<1>7. CASE Stop \/ RecvDrop \/ SendDrop
  BY <1>7 DEF Stop, RecvDrop, SendDrop, Unheard, Serviced, RevertPc
<1>8. CASE RevertIfSilent
  BY <1>8 DEF RevertIfSilent, Unheard, Serviced, RevertPc
<1>9. CASE revertIPConfig
  BY <1>0, <1>9 DEF revertIPConfig, RevertFile, RevertLoad, RevertClear, Unheard, Serviced, RevertPc
<1>10. CASE RecvNothing
  BY <1>10 DEF RecvNothing, setNetLose, Unheard, Serviced, RevertPc
<1>11. CASE SendFails
  BY <1>11 DEF SendFails, setNetLose, Unheard, Serviced, RevertPc
<1>12. CASE RecvExit \/ SendExit
  BY <1>12 DEF RecvExit, SendExit, Unheard
<1>13. CASE HandleMessage
  <2>1. CASE HandleLoginOk \/ HandleLoginRej \/ HandleLogoutOk \/ HandleTimeOk \/ HandleHeartbeat
             \/ RejectCommand
    <3>1. hand \in DownMsg
      BY <2>1, Kinds DEF HandleLoginOk, HandleLoginRej, HandleLogoutOk, HandleTimeOk,
         HandleHeartbeat, RejectCommand
    <3>2. pcWatch' = pcWatch \/ (pcWatch = "wait" /\ pcWatch' = "lost")
      BY <2>1 DEF HandleLoginOk, HandleLoginRej, HandleLogoutOk, HandleTimeOk,
         HandleHeartbeat, RejectCommand, setNetLose
    <3>3. Handled
      BY <2>1 DEF HandleLoginOk, HandleLoginRej, HandleLogoutOk, HandleTimeOk,
         HandleHeartbeat, RejectCommand
    <3> QED
      BY <1>13, <3>1, <3>2, <3>3, Kinds DEF Handled, Handling
  <2>2. CASE HandleParm \/ HandleRemoteCtl \/ SampleWrite \/ ResetCopy
    <3>1. PICK from, to \in HandlePc : HandleStep(from, to)
      BY <2>2 DEF HandleParm, ParmWrite, ParmLoad, ParmCompare, ParmSave, ParmReply,
         HandleRemoteCtl, SampleWrite, ResetCopy, HandlePc, Changing
    <3>2. hand \in Commands
      <4>1. CASE pcHandle # "handle"
        BY <4>1 DEF MessageInv, OrderInv
      <4>2. CASE pcHandle = "handle"
        BY <2>2, <4>2 DEF HandleParm, ParmWrite, ParmLoad, ParmCompare, ParmSave, ParmReply,
           HandleRemoteCtl, SampleWrite, ResetCopy, HandleStep, Commands
      <4> QED
        BY <4>1, <4>2
    <3>3. pcWatch' = pcWatch \/ (pcWatch = "wait" /\ pcWatch' = "lost")
      BY <2>2 DEF HandleParm, ParmWrite, ParmLoad, ParmCompare, ParmSave, ParmReply,
         HandleRemoteCtl, SampleWrite, ResetCopy, setNetLose
    <3> QED
      BY <1>13, <3>1, <3>2, <3>3, Kinds DEF HandleStep, Handling
  <2>3. CASE CommandDone
    <3>1. hand \in Commands
      BY <2>3 DEF CommandDone, MessageInv, OrderInv
    <3> QED
      BY <1>13, <2>3, <3>1, Kinds DEF CommandDone, Handling
  <2> QED
    BY <1>13, <2>1, <2>2, <2>3 DEF HandleMessage
<1>14. CASE HeartTask \/ SendTask
  BY <1>14 DEF HeartTask, SendTask, PeriodicSend, Unheard
<1>15. CASE WatchSOCPowerStateTask \/ SocEvent
  BY <1>15 DEF WatchSOCPowerStateTask, getSOCPowerState, SocWakeup, SocSleep, SocEvent, Unheard
<1>16. CASE UNCHANGED vars
  BY <1>16 DEF vars, Unheard
<1>17. CASE WatchTaskSample
  BY <1>17 DEF WatchTaskSample, SampleConnectFails, SampleUndo, Unheard
<1> QED
  BY <1>1, <1>2, <1>3, <1>4, <1>5, <1>6, <1>7, <1>8, <1>9, <1>10, <1>11, <1>12, <1>13, <1>14,
     <1>15, <1>16, <1>17
  DEF Next, WatchTask, Start, Idle, TearDown, recvFunc, sendFunc, RecvTask, Environment, Moving

\* What is on its way after a step was on its way before.
NoNewLogin == Coming(LoginOk)' => Coming(LoginOk)

\* A step in which no message moves.
LEMMA UnheardStep ==
  ASSUME TypeOK, MessageInv, Unheard, Fewer
  PROVE  MessageInv' /\ NoNewLogin
<1> USE DEF Unheard, MessageInv
<1>1. NoNewLogin /\ OrderInv'
  BY DEF NoNewLogin, Coming, OrderInv
<1>2. Unanswered => Unanswered'
  BY DEF Unanswered
<1>3. PendingInv'
  <2>1. CASE pcWatch' = pcWatch
    BY <1>2, <2>1 DEF PendingInv, Fewer
  <2>2. CASE /\ pcWatch \in Idling /\ pcWatch' \in Idling
             /\ pcWatch' \in {"start", "connect"} \cup UndoPc => Unanswered
    BY <1>2, <2>2 DEF PendingInv, Idling, Serviced, UndoPc, RevertPc
  <2>3. CASE /\ pcWatch \in {"spawnSend"} \cup Serviced
             /\ pcWatch' \in {"spawnSend"} \cup Serviced
             /\ pcWatch' \in RevertPc => ~running'
    BY <1>2, <2>3 DEF PendingInv, Fewer, Idling, Serviced, UndoPc, RevertPc
  <2> QED
    BY <2>1, <2>2, <2>3
<1> QED
  BY <1>1, <1>3

\* A step that handles what is in hand.
LEMMA HandlingStep ==
  ASSUME TypeOK, MessageInv, Handling, Fewer
  PROVE  MessageInv' /\ NoNewLogin
<1> USE DEF Handling, MessageInv
<1>1. Without(mRecvQueue, LoginOk) /\ Without(down, LoginOk)
  BY DEF OrderInv
<1>2. NoNewLogin
  BY <1>1, Kinds DEF NoNewLogin, Coming
<1>3. OrderInv'
  BY <1>1 DEF OrderInv
<1>4. PendingInv'
  <2>1. ~Unanswered
    BY DEF Unanswered
  <2>2. CASE pcWatch' = pcWatch
    BY <2>1, <2>2 DEF PendingInv, Fewer
  <2>3. CASE pcWatch = "wait" /\ pcWatch' = "lost"
    BY <2>1, <2>3 DEF PendingInv, Fewer, Idling, Serviced, UndoPc, RevertPc
  <2> QED
    BY <2>2, <2>3
<1> QED
  BY <1>2, <1>3, <1>4

\* RecvRead takes the first message from the stream; what was read with it is lost.
LEMMA ReadStep ==
  ASSUME IInv, MessageInv, RecvRead, Fewer
  PROVE  MessageInv' /\ NoNewLogin
<1> DEFINE m == Head(down)
<1>0. mRecvQueue \in Seq(DownMsg) /\ down \in Seq(DownMsg)
  BY DEF IInv, TypeOK
<1>1. PICK n \in 1..Len(down) : down' = SubSeq(down, n + 1, Len(down))
  BY DEF RecvRead
<1>2. mRecvQueue' = Append(mRecvQueue, m)
  BY DEF RecvRead
<1>3. UNCHANGED <<hand, pcHandle, platLogged, running, pcWatch, mSendQueue>>
  BY DEF RecvRead, handVars
<1>4. down # <<>> /\ m \in DownMsg
  BY <1>0, <1>1, RestShort
<1>5. /\ Without(down, LoginOk) => Without(down', LoginOk) /\ m \notin LoginOk
      /\ First(down, LoginOk) => Without(down', LoginOk)
  BY <1>0, <1>1, RestShort
<1>6. /\ Without(mRecvQueue', LoginOk) <=> Without(mRecvQueue, LoginOk) /\ m \notin LoginOk
      /\ First(mRecvQueue, LoginOk) /\ (m \notin LoginOk \/ mRecvQueue = <<>>) =>
           First(mRecvQueue', LoginOk)
  BY <1>0, <1>2, <1>4, Appended
<1> HIDE DEF m
<1>7. NoNewLogin
  BY <1>3, <1>5, <1>6 DEF NoNewLogin, Coming
<1>8. OrderInv'
  <2>1. Without(down', LoginOk)
    BY <1>5 DEF MessageInv, OrderInv
  <2>2. First(down', LoginOk)
    BY <2>1 DEF First, Without
  <2>3. m \notin LoginOk \/ (hand = NoMsg /\ mRecvQueue = <<>>)
    BY <1>5 DEF MessageInv, OrderInv
  <2> QED
    BY <1>3, <1>6, <2>1, <2>2, <2>3 DEF MessageInv, OrderInv
<1>9. PendingInv'
  <2>1. pcRecv # "none" /\ pcWatch \notin Idling \cup {"spawnRecv"}
    BY DEF RecvRead, IInv, ThreadsInv
  <2>2. ~Unanswered
    BY <1>4 DEF Unanswered
  <2> QED
    BY <1>3, <2>1, <2>2 DEF MessageInv, PendingInv, Idling
<1> QED
  BY <1>7, <1>8, <1>9 DEF MessageInv

\* RecvQueueDequeue takes the first message that was received.
LEMMA DequeueStep ==
  ASSUME TypeOK, MessageInv, RecvQueueDequeue, Fewer
  PROVE  MessageInv' /\ NoNewLogin
<1> DEFINE m == Head(mRecvQueue)
<1>0. mRecvQueue \in Seq(DownMsg) /\ mRecvQueue # <<>>
  BY DEF TypeOK, RecvQueueDequeue
<1>1. hand = NoMsg /\ hand' = m /\ mRecvQueue' = Tail(mRecvQueue)
  BY DEF RecvQueueDequeue
<1>2. UNCHANGED <<down, pcHandle, platLogged, running, pcWatch, mSendQueue>>
  BY DEF RecvQueueDequeue, farVars
<1>3. /\ Without(mRecvQueue, LoginOk) => Without(mRecvQueue', LoginOk) /\ m \notin LoginOk
      /\ First(mRecvQueue, LoginOk) => Without(mRecvQueue', LoginOk)
  BY <1>0, <1>1, TailShort
<1> HIDE DEF m
<1>4. NoNewLogin
  BY <1>1, <1>2, <1>3 DEF NoNewLogin, Coming
<1>5. OrderInv'
  <2>1. Without(mRecvQueue', LoginOk)
    BY <1>3 DEF MessageInv, OrderInv
  <2>2. First(mRecvQueue', LoginOk)
    BY <2>1 DEF First, Without
  <2>3. Without(down, LoginOk) /\ First(down, LoginOk)
    BY <1>0 DEF MessageInv, OrderInv
  <2>4. pcHandle = "handle"
    BY <1>1, Kinds DEF MessageInv, OrderInv
  <2> QED
    BY <1>2, <2>1, <2>2, <2>3, <2>4 DEF OrderInv
<1>6. PendingInv'
  <2>1. ~Unanswered
    BY <1>0 DEF Unanswered
  <2> QED
    BY <1>2, <2>1 DEF MessageInv, PendingInv, Idling, Serviced, UndoPc, RevertPc
<1> QED
  BY <1>4, <1>5, <1>6 DEF MessageInv

\* The platform answers a login, or anything else; it accepts a login at the address
\* where it was asked.
LEMMA SentStep ==
  ASSUME IInv, MessageInv, SendOk, Fewer
  PROVE  /\ MessageInv'
         /\ Coming(LoginOk)' => Coming(LoginOk) \/ (Asking /\ target \in accepted')
<1>0. mSendQueue \in Seq(UpMsg) /\ mSendQueue # <<>> /\ down \in Seq(DownMsg) /\ running
  BY DEF IInv, TypeOK, SendOk
<1>1. pcWatch \in Serviced
  BY DEF SendOk, IInv, TypeOK, ThreadsInv, Idling, Serviced, UndoPc, RevertPc, WatchPc, Reverting
<1>2. UNCHANGED <<hand, pcHandle, mRecvQueue, running, pcWatch>>
  BY DEF SendOk, handVars
<1>3. Single(mSendQueue, Login) /\ (Without(mSendQueue, Login) \/ Unanswered)
  BY <1>0, <1>1 DEF MessageInv, PendingInv
<1>4. /\ Without(mSendQueue, Login) => Without(mSendQueue', Login) /\ Head(mSendQueue) # "login"
      /\ Single(mSendQueue', Login)
      /\ Head(mSendQueue) = "login" => Without(mSendQueue', Login)
  BY <1>0, <1>3, TailShort DEF SendOk, Login
<1>p. pcWatch \in RevertPc => ~running
  BY DEF MessageInv, PendingInv
<1> DEFINE Goal == /\ MessageInv'
                   /\ Coming(LoginOk)' => Coming(LoginOk) \/ (Asking /\ target \in accepted')
<1>5. CASE UNCHANGED <<platLogged, accepted, down>>
  <2>1. OrderInv' /\ (Coming(LoginOk)' => Coming(LoginOk))
    BY <1>2, <1>5 DEF MessageInv, OrderInv, Coming
  <2>2. PendingInv'
    BY <1>1, <1>2, <1>3, <1>4, <1>5, <1>p DEF PendingInv, Unanswered, Idling, Serviced, UndoPc,
       RevertPc
  <2> QED
    BY <2>1, <2>2 DEF MessageInv
<1>6. ASSUME NEW c \in {"loginRej", "timeOk", "beat", "logoutOk"},
             down' = Append(down, Answer(c)), Without(mSendQueue', Login)
      PROVE  Goal
  <2>1. Answer(c) \in DownMsg /\ Answer(c) \notin LoginOk
    BY Kinds
  <2>2. /\ Without(down', LoginOk) <=> Without(down, LoginOk)
        /\ First(down, LoginOk) => First(down', LoginOk)
    BY <1>0, <1>6, <2>1, Appended
  <2>3. OrderInv' /\ (Coming(LoginOk)' => Coming(LoginOk))
    BY <1>2, <2>2 DEF MessageInv, OrderInv, Coming
  <2>4. Single(mSendQueue', Login)
    BY <1>4
  <2>5. PendingInv'
    BY <1>1, <1>2, <1>6, <2>4, <1>p DEF PendingInv, Idling, Serviced, UndoPc, RevertPc
  <2> QED
    BY <2>3, <2>5 DEF MessageInv
<1>7. ASSUME Head(mSendQueue) = "login", accepted' = accepted \cup {target},
             down' = Append(down, Answer("loginOk"))
      PROVE  Goal
  <2>1. Unanswered /\ ~Without(mSendQueue, Login) /\ Without(mSendQueue', Login)
    BY <1>3, <1>4, <1>7
  <2>2. down = <<>> /\ mRecvQueue = <<>> /\ hand = NoMsg
    BY <2>1 DEF Unanswered
  <2>3. Answer("loginOk") \in DownMsg
    BY Kinds
  <2>4. First(down', LoginOk)
    BY <1>0, <1>7, <2>2, <2>3, Appended, EmptyQueue
  <2>5. OrderInv'
    BY <1>2, <2>2, <2>4 DEF MessageInv, OrderInv
  <2>6. Asking /\ target \in accepted'
    BY <1>0, <1>1, <1>7, <2>1 DEF Asking
  <2>7. Single(mSendQueue', Login)
    BY <1>4
  <2>8. PendingInv'
    BY <1>1, <1>2, <2>1, <2>7, <1>p DEF PendingInv, Idling, Serviced, UndoPc, RevertPc
  <2> QED
    BY <2>5, <2>6, <2>8 DEF MessageInv
<1>8. platLogged => Without(mSendQueue', Login)
  BY <1>3, <1>4 DEF Unanswered
<1>9. Platform(Head(mSendQueue)) \/ UNCHANGED <<platLogged, accepted, down>>
  BY DEF SendOk
<1> QED
  BY <1>4, <1>5, <1>6, <1>7, <1>8, <1>9 DEF Platform

\* The platform gives a command to a vehicle that is logged in.
LEMMA CommandStep ==
  ASSUME TypeOK, MessageInv, PlatformCommands, Fewer
  PROVE  MessageInv' /\ NoNewLogin
<1>0. down \in Seq(DownMsg)
  BY DEF TypeOK
<1>1. PICK m \in Commands : down' = Append(down, m)
  BY DEF PlatformCommands
<1>2. platLogged
      /\ UNCHANGED <<hand, pcHandle, mRecvQueue, platLogged, running, pcWatch, mSendQueue>>
  BY DEF PlatformCommands, queueVars, handVars
<1>3. m \in DownMsg /\ m \notin LoginOk
  BY Kinds
<1>4. /\ Without(down, LoginOk) <=> Without(down', LoginOk)
      /\ First(down, LoginOk) => First(down', LoginOk)
  BY <1>0, <1>1, <1>3, Appended
<1>5. NoNewLogin
  BY <1>2, <1>4 DEF NoNewLogin, Coming
<1>6. OrderInv'
  BY <1>2, <1>4 DEF MessageInv, OrderInv
<1>7. PendingInv'
  <2>1. ~Unanswered /\ pcWatch \notin Idling
    BY <1>2 DEF Unanswered, MessageInv, PendingInv
  <2> QED
    BY <1>2, <2>1 DEF MessageInv, PendingInv, Idling, UndoPc
<1> QED
  BY <1>5, <1>6, <1>7 DEF MessageInv

\* The connection breaks, with or without what was under way.
LEMMA GoneStep ==
  ASSUME TypeOK, MessageInv, PeerGone, Fewer
  PROVE  MessageInv' /\ NoNewLogin
<1>1. down' = down \/ down' = <<>>
  BY DEF PeerGone
<1>2. UNCHANGED <<hand, pcHandle, mRecvQueue, running, pcWatch, mSendQueue>> /\ ~platLogged'
  BY DEF PeerGone, queueVars, handVars
<1>3. /\ Without(down, LoginOk) => Without(down', LoginOk)
      /\ First(down, LoginOk) => First(down', LoginOk)
  BY <1>1, EmptyQueue
<1>4. NoNewLogin
  BY <1>2, <1>3 DEF NoNewLogin, Coming
<1>5. OrderInv'
  BY <1>2, <1>3 DEF MessageInv, OrderInv
<1>6. PendingInv'
  <2>1. Unanswered => Unanswered'
    BY <1>1, <1>2 DEF Unanswered
  <2> QED
    BY <1>1, <1>2, <2>1 DEF MessageInv, PendingInv
<1> QED
  BY <1>4, <1>5, <1>6 DEF MessageInv

\* A connection is opened, gets its login, and is closed; or the process starts anew.
LEMMA OpenStep ==
  ASSUME TypeOK, MessageInv, ConnectOk \/ SpawnRecv \/ Join \/ Restart, Fewer \/ SpawnRecv
  PROVE  MessageInv' /\ NoNewLogin
<1> USE DEF MessageInv, handVars, farVars
<1>1. CASE ConnectOk
  <2>1. UNCHANGED <<hand, pcHandle, down, platLogged, running>>
        /\ pcWatch = "connect" /\ pcWatch' = "spawnRecv"
        /\ mSendQueue' = <<>> /\ mRecvQueue' = <<>>
    BY <1>1 DEF ConnectOk
  <2>2. Unanswered
    BY <2>1 DEF PendingInv
  <2>3. OrderInv' /\ NoNewLogin
    BY <2>1, <2>2 DEF Unanswered, OrderInv, NoNewLogin, Coming
  <2>4. PendingInv'
    BY <2>1, <2>2, EmptyQueue DEF PendingInv, Unanswered, Idling, Serviced, UndoPc, RevertPc
  <2> QED
    BY <2>3, <2>4
<1>2. CASE SpawnRecv
  <2>1. UNCHANGED <<hand, pcHandle, mRecvQueue, down, platLogged>>
        /\ mSendQueue' = Append(mSendQueue, "login")
        /\ pcWatch = "spawnRecv" /\ pcWatch' = "spawnSend"
    BY <1>2 DEF SpawnRecv
  <2>2. mSendQueue \in Seq(UpMsg) /\ "login" \in UpMsg
    BY DEF TypeOK, UpMsg
  <2>3. Without(mSendQueue, Login) /\ Unanswered
    BY <2>1 DEF PendingInv
  <2>4. Single(mSendQueue, Login)
    BY <2>3 DEF Without, Single
  <2>5. Single(mSendQueue', Login)
    BY <2>1, <2>2, <2>3, <2>4, Appended
  <2>6. OrderInv' /\ NoNewLogin
    BY <2>1 DEF OrderInv, NoNewLogin, Coming
  <2>7. PendingInv'
    BY <2>1, <2>3, <2>5 DEF PendingInv, Unanswered, Idling, Serviced, UndoPc, RevertPc
  <2> QED
    BY <2>6, <2>7
<1>3. CASE Join
  <2>1. UNCHANGED <<hand, pcHandle, mRecvQueue>>
        /\ pcWatch' = "idle" /\ down' = <<>> /\ ~platLogged'
    BY <1>3 DEF Join, queueVars
  <2>2. OrderInv' /\ NoNewLogin
    BY <2>1, EmptyQueue DEF OrderInv, NoNewLogin, Coming
  <2>3. PendingInv'
    BY <2>1 DEF PendingInv, Idling, Serviced, UndoPc, RevertPc
  <2> QED
    BY <2>2, <2>3
<1>4. CASE Restart
  <2>1. /\ hand' = NoMsg /\ pcHandle' = "handle" /\ mRecvQueue' = <<>> /\ down' = <<>>
        /\ ~platLogged' /\ pcWatch' = "start"
    BY <1>4 DEF Restart
  <2>2. OrderInv' /\ NoNewLogin
    BY <2>1, EmptyQueue, Kinds DEF OrderInv, NoNewLogin, Coming
  <2>3. PendingInv'
    BY <2>1 DEF PendingInv, Unanswered, Idling, Serviced, UndoPc, RevertPc
  <2> QED
    BY <2>2, <2>3
<1> QED
  BY <1>1, <1>2, <1>3, <1>4

\* Every step keeps the order of the messages, and only the platform's answer to a login
\* that was asked for is a new one.
LEMMA MessageStep ==
  ASSUME RecvPrompt, IInv, MessageInv, [Next]_vars
  PROVE  /\ MessageInv'
         /\ NoNewLogin \/ (SendOk /\ Asking /\ target \in accepted')
<1>0. TypeOK
  BY DEF IInv
<1>1. CASE SpawnRecv
  BY <1>0, <1>1, OpenStep
<1>2. CASE ~SpawnRecv
  <2>1. Fewer
    BY <1>0, <1>2, FewerLogins
  <2>2. CASE Unheard
    BY <1>0, <2>1, <2>2, UnheardStep
  <2>3. CASE Handling
    BY <1>0, <2>1, <2>3, HandlingStep
  <2>4. CASE SendOk
    BY <2>1, <2>4, SentStep DEF NoNewLogin
  <2>5. CASE ConnectOk \/ Join \/ RecvRead \/ RecvQueueDequeue \/ PlatformCommands \/ PeerGone
               \/ Restart
    BY <1>0, <2>1, <2>5, ReadStep, DequeueStep, CommandStep, GoneStep, OpenStep
  <2> QED
    BY <1>0, <1>2, <2>2, <2>3, <2>4, <2>5, MessageSteps DEF Moving
<1> QED
  BY <1>1, <1>2

\* An attempt whose login is still to be sent goes on to the address where it began.
LEMMA AskingStep ==
  ASSUME RecvPrompt, IInv, MessageInv, [Next]_vars, Asking'
  PROVE  Resolve \/ (Asking /\ target' = target)
<1> SUFFICES ASSUME ~Resolve PROVE Asking /\ target' = target
  OBVIOUS
<1>0. TypeOK
  BY DEF IInv
<1>1. pcWatch' \in {"connect", "spawnRecv", "spawnSend"} \cup Serviced
  BY DEF Asking
<1>2. CASE ConnectOk \/ SpawnRecv
  BY <1>2 DEF ConnectOk, SpawnRecv, Asking
<1>3. ASSUME ~ConnectOk, ~SpawnRecv PROVE Asking
  <2>1. Fewer
    BY <1>0, <1>3, FewerLogins
  <2>2. CASE Unheard \/ Handling
    BY <1>1, <2>1, <2>2 DEF Unheard, Handling, Fewer, Asking, Idling, Serviced, UndoPc, RevertPc
  <2>3. CASE RecvRead \/ SendOk \/ RecvQueueDequeue \/ PlatformCommands \/ PeerGone
    <3>1. pcWatch' = pcWatch /\ running' = running
      BY <2>3 DEF RecvRead, SendOk, RecvQueueDequeue, PlatformCommands, PeerGone
    <3> QED
      BY <2>1, <3>1 DEF Fewer, Asking
  <2>4. CASE Join \/ Restart
    BY <1>1, <2>4 DEF Join, Restart, Serviced, RevertPc
  <2> QED
    BY <1>0, <1>3, <2>2, <2>3, <2>4, MessageSteps DEF Moving
<1>4. target' = target
  <2>1. CASE ConnectFails \/ Join \/ Restart
    BY <1>1, <2>1 DEF ConnectFails, Join, Restart, Serviced, RevertPc
  <2>2. CASE HandleMessage
    BY <2>2 DEF HandleMessage, HandleLoginOk, HandleLoginRej, HandleLogoutOk, HandleTimeOk,
       HandleHeartbeat, RejectCommand, Handled, HandleParm, ParmWrite, ParmLoad, ParmCompare,
       ParmSave, ParmReply, HandleRemoteCtl, SampleWrite, ResetCopy, HandleStep, CommandDone
  <2>3. CASE DnsFails \/ Undo \/ ConnectOk \/ SpawnRecv \/ SpawnSend \/ Idle \/ getUpdateNetState
             \/ LinkLost \/ RevertIfSilent \/ revertIPConfig \/ Stop
    BY <2>3 DEF DnsFails, Undo, ConnectOk, SpawnRecv, SpawnSend, Idle, IdleService, IdleTest,
       EndDelay, getUpdateNetState, LinkLost, RevertIfSilent, revertIPConfig, Stop
  <2>4. CASE recvFunc \/ sendFunc \/ RecvQueueDequeue
    BY <2>4 DEF recvFunc, RecvRead, RecvNothing, RecvDrop, RecvExit, sendFunc, SendOk, SendFails,
       SendDrop, SendExit, RecvQueueDequeue
  <2>5. CASE HeartTask \/ SendTask \/ WatchSOCPowerStateTask \/ SocEvent \/ SpuriousWakeup
             \/ PlatformCommands \/ PeerGone \/ WatchTaskSample \/ UNCHANGED vars
    BY <2>5 DEF HeartTask, SendTask, PeriodicSend, WatchSOCPowerStateTask, getSOCPowerState,
       SocWakeup, SocSleep, SocEvent, SpuriousWakeup, PlatformCommands, PeerGone,
       WatchTaskSample, SampleConnectFails, SampleUndo, vars
  <2> QED
    BY <2>1, <2>2, <2>3, <2>4, <2>5
    DEF Next, WatchTask, Start, TearDown, RecvTask, Environment
<1> QED
  BY <1>2, <1>3, <1>4

\* The steps that leave the addresses alone.
Untouched ==
  /\ UNCHANGED <<confVars, parm, pcHandle, pcSample>>
  /\ accepted \subseteq accepted'
  /\ pcWatch' = pcWatch \/ (pcWatch \notin Reverting /\ pcWatch' \notin Reverting)

Reverts == ConnectFails \/ Undo \/ RevertIfSilent \/ revertIPConfig \/ WatchTaskSample
Commanded == HandleParm \/ HandleRemoteCtl \/ SampleWrite \/ ResetCopy \/ CommandDone

LEMMA AddressSteps ==
  ASSUME TypeOK, [Next]_vars
  PROVE  Untouched \/ Reverts \/ HandleLoginOk \/ HandleLoginRej \/ Commanded \/ Restart
<1> SUFFICES ASSUME ~Reverts, ~HandleLoginOk, ~HandleLoginRej, ~Commanded, ~Restart
             PROVE  Untouched
  OBVIOUS
<1> USE DEF confVars, histVars, handVars, sideVars, Reverting, Untouched
<1>1. CASE DnsFails \/ Resolve \/ ConnectOk \/ SpawnRecv \/ SpawnSend \/ Idle \/ getUpdateNetState
           \/ LinkLost \/ Stop \/ Join
  BY <1>1 DEF DnsFails, Resolve, ConnectOk, SpawnRecv, SpawnSend, Idle, IdleService, IdleTest,
     Pause, EndDelay, getUpdateNetState, LinkLost, Stop, Join
<1>2. CASE recvFunc \/ RecvQueueDequeue
  BY <1>2 DEF recvFunc, RecvRead, RecvNothing, RecvDrop, RecvExit, RecvQueueDequeue, setNetLose
<1>3. CASE SendOk
  <2>1. accepted \subseteq accepted'
    BY <1>3 DEF SendOk, Platform
  <2> QED
    BY <1>3, <2>1 DEF SendOk
<1>4. CASE SendFails \/ SendDrop \/ SendExit
  BY <1>4 DEF SendFails, SendDrop, SendExit, setNetLose
<1>5. CASE HandleLogoutOk \/ HandleTimeOk \/ HandleHeartbeat \/ RejectCommand
  BY <1>5 DEF HandleLogoutOk, HandleTimeOk, HandleHeartbeat, RejectCommand, Handled, setNetLose
<1>6. CASE HeartTask \/ SendTask \/ WatchSOCPowerStateTask \/ SocEvent \/ SpuriousWakeup
           \/ PlatformCommands \/ PeerGone \/ UNCHANGED vars
  BY <1>6 DEF HeartTask, SendTask, PeriodicSend, WatchSOCPowerStateTask, getSOCPowerState,
     SocWakeup, SocSleep, SocEvent, SpuriousWakeup, PlatformCommands, PeerGone, vars
<1> QED
  BY <1>1, <1>2, <1>3, <1>4, <1>5, <1>6
  DEF Next, WatchTask, Start, TearDown, sendFunc, RecvTask, HandleMessage, Environment, Reverts,
     Commanded

FileInv == KnownGoodReachable /\ MemoryInv /\ ChangeInv /\ RevertInv

\* More addresses may accept a login.
LEMMA UntouchedStep ==
  ASSUME FileInv, Untouched
  PROVE  FileInv'
<1> USE DEF Untouched, confVars, Reverting, UnderWay
<1>1. KnownGoodReachable'
  BY DEF FileInv, KnownGoodReachable
<1>2. MemoryInv' /\ ChangeInv'
  BY DEF FileInv, MemoryInv, ChangeInv
<1>3. RevertInv'
  BY DEF FileInv, RevertInv
<1> QED
  BY <1>1, <1>2, <1>3 DEF FileInv

\* What a revert needs to know of the handler of commands.
LEMMA RevertAlone ==
  ASSUME MessageInv, pcWatch \in {"connect"} \cup UndoPc
  PROVE  hand = NoMsg /\ pcHandle = "handle"
BY Kinds DEF MessageInv, OrderInv, PendingInv, Unanswered

\* A watch thread, of this link or of the one for samples, goes back to the address
\* kept aside, if there is one.
LEMMA RevertsStep ==
  ASSUME TypeOK, MessageInv, FileInv, ~lapsed, ~lapsed', Reverts
  PROVE  FileInv'
<1> USE DEF confVars, histVars, handVars, sideVars, UnderWay
<1>t. pcHandle \in HandlePc /\ NoAddr \notin accepted /\ BadFile \notin accepted
  BY LinkAssumption DEF TypeOK
<1>1. CASE ConnectFails
  <2>1. /\ pcWatch = "connect" /\ pcHandle = "handle"
        /\ UNCHANGED <<cfgFile, cfgMem, ChangeNetParmSave, ChangeNetParm, accepted, handVars,
                       pcSample>>
    BY <1>1, RevertAlone DEF ConnectFails
  <2>2. \/ pcWatch' = "undoFile" /\ ChangeNetParm = 1 /\ ChangeNetParmSave # NoAddr
        \/ pcWatch' = "idle"
    BY <1>1 DEF ConnectFails, Lapse, NothingSaved
  <2> QED
    BY <2>1, <2>2 DEF FileInv, KnownGoodReachable, MemoryInv, ChangeInv, RevertInv, Reverting,
       Changing
<1>2. CASE RevertIfSilent
  <2>1. /\ pcWatch = "revert"
        /\ UNCHANGED <<cfgFile, cfgMem, ChangeNetParmSave, ChangeNetParm, accepted, handVars,
                       pcSample>>
    BY <1>2 DEF RevertIfSilent
  <2>2. \/ /\ pcWatch' = "revertFile" /\ ChangeNetParm = 1 /\ ChangeNetParmSave # NoAddr
           /\ pcHandle \notin Changing
        \/ pcWatch' = "stop"
    BY <1>2 DEF RevertIfSilent, Lapse, NothingSaved
  <2> QED
    BY <2>1, <2>2 DEF FileInv, KnownGoodReachable, MemoryInv, ChangeInv, RevertInv, Reverting,
       Changing
<1>3. CASE \E from, to \in WatchPc : RevertFile(from, to)
           /\ UNCHANGED <<handVars, sideVars, histVars>>
           /\ <<from, to>> \in {<<"undoFile", "undoLoad">>, <<"revertFile", "revertLoad">>}
  BY <1>t, <1>3 DEF RevertFile, UpdateParmConfig, FileInv, KnownGoodReachable, MemoryInv,
     ChangeInv, RevertInv, Reverting, Changing
<1>4. CASE \E from, to \in WatchPc : RevertLoad(from, to)
           /\ UNCHANGED <<handVars, sideVars, histVars>>
           /\ <<from, to>> \in {<<"undoLoad", "undoClear">>, <<"revertLoad", "revertClear">>}
  BY <1>t, <1>4 DEF RevertLoad, vehicleConfigInit, FileInv, KnownGoodReachable, MemoryInv,
     ChangeInv, RevertInv, Reverting, Changing
<1>5. CASE \E from, to \in WatchPc, n \in 0..RetryLimit :
             RevertClear(from, to, n) /\ UNCHANGED <<handVars, sideVars, histVars>>
           /\ <<from, to>> \in {<<"undoClear", "idle">>, <<"revertClear", "stop">>}
  BY <1>t, <1>5 DEF RevertClear, FileInv, KnownGoodReachable, MemoryInv,
     ChangeInv, RevertInv, Reverting, Changing
<1>6. mRetryCount \in 0..RetryLimit /\ 0 \in 0..RetryLimit
  BY DEF TypeOK, RetryLimit
<1>7. CASE SampleConnectFails
  <2>1. /\ pcSample = "none" /\ pcSample' = "file"
        /\ UNCHANGED <<cfgFile, cfgMem, ChangeNetParmSave, ChangeNetParm, accepted, handVars,
                       pcWatch>>
    BY <1>7 DEF SampleConnectFails
  <2>2. ChangeNetParmSave # NoAddr /\ pcHandle \notin Changing /\ ChangeNetParm = 1
    BY <1>7 DEF SampleConnectFails, Lapse, NothingSaved
  <2> QED
    BY <2>1, <2>2 DEF FileInv, KnownGoodReachable, MemoryInv, ChangeInv, RevertInv, Reverting,
       Changing
<1>8. CASE SampleUndo
  <2>1. UNCHANGED <<ChangeNetParmSave, accepted, handVars, pcWatch>>
    BY <1>8 DEF SampleUndo
  <2>2. CASE pcSample = "file"
    <3>1. /\ pcSample' = "load" /\ UNCHANGED <<cfgMem, ChangeNetParm>>
          /\ UpdateParmConfig(ChangeNetParmSave)
      BY <1>8, <2>2 DEF SampleUndo
    <3> QED
      BY <1>t, <2>1, <2>2, <3>1 DEF UpdateParmConfig, FileInv, KnownGoodReachable, MemoryInv,
         ChangeInv, RevertInv, Reverting, Changing
  <2>3. CASE pcSample = "load"
    <3>1. /\ pcSample' = "clear" /\ UNCHANGED <<cfgFile, ChangeNetParm>>
          /\ vehicleConfigInit
      BY <1>8, <2>3 DEF SampleUndo
    <3> QED
      BY <1>t, <2>1, <2>3, <3>1 DEF vehicleConfigInit, FileInv, KnownGoodReachable, MemoryInv,
         ChangeInv, RevertInv, Reverting, Changing
  <2>4. CASE pcSample = "clear"
    <3>1. pcSample' = "none" /\ ChangeNetParm' = 0 /\ UNCHANGED <<cfgFile, cfgMem>>
      BY <1>8, <2>4 DEF SampleUndo
    <3> QED
      BY <1>t, <2>1, <2>4, <3>1 DEF FileInv, KnownGoodReachable, MemoryInv,
         ChangeInv, RevertInv, Reverting, Changing
  <2> QED
    BY <1>8, <2>2, <2>3, <2>4 DEF SampleUndo
<1> QED
  BY <1>1, <1>2, <1>3, <1>4, <1>5, <1>6, <1>7, <1>8
  DEF Reverts, Undo, revertIPConfig, WatchTaskSample, WatchPc, Reverting

\* A login that is answered was asked for at the address in the file; it also ends a
\* lapse if that address is the one in memory too.
LEMMA LoginOkStep ==
  ASSUME TypeOK, MessageInv, lapsed \/ AddressInv, HandleLoginOk, ~lapsed'
  PROVE  FileInv'
<1> USE DEF Changing, UnderWay
<1>1. /\ hand = Answer("loginOk") /\ pcHandle = "handle" /\ pcHandle' = "handle"
      /\ ChangeNetParm' = 0
      /\ UNCHANGED <<cfgFile, cfgMem, ChangeNetParmSave, accepted, pcWatch, pcSample>>
  BY DEF HandleLoginOk, Handled, histVars, sideVars
<1>2. CASE ~lapsed
  <2>1. FileInv /\ PlatformInv
    BY <1>2 DEF AddressInv, FileInv
  <2>2. cfgFile \in accepted
    BY <1>1, <2>1 DEF PlatformInv, Coming, LoginOk
  <2>3. KnownGoodReachable'
    BY <1>1, <2>2 DEF KnownGoodReachable
  <2> QED
    BY <1>1, <2>1, <2>2, <2>3 DEF FileInv, MemoryInv, ChangeInv, RevertInv
<1>3. CASE lapsed
  <2>1. cfgFile \in accepted /\ cfgMem = cfgFile /\ ~UnderWay
    BY <1>3 DEF HandleLoginOk
  <2>2. cfgFile # BadFile
    BY <2>1, LinkAssumption DEF TypeOK
  <2>3. KnownGoodReachable'
    BY <1>1, <2>1 DEF KnownGoodReachable
  <2>4. MemoryInv' /\ ChangeInv'
    BY <1>1, <2>1, <2>2 DEF MemoryInv, ChangeInv
  <2>5. RevertInv'
    BY <1>1, <2>1 DEF RevertInv
  <2> QED
    BY <2>3, <2>4, <2>5 DEF FileInv
<1> QED
  BY <1>2, <1>3

\* A login that is refused at a new address gives the address up.
LEMMA LoginRejStep ==
  ASSUME TypeOK, FileInv, ~lapsed, ~lapsed', HandleLoginRej
  PROVE  FileInv'
<1> USE DEF confVars, histVars, sideVars, Changing, UnderWay
<1>1. /\ pcHandle = "handle" /\ pcHandle' = "handle"
      /\ UNCHANGED <<ChangeNetParmSave, accepted, pcWatch, pcSample, parm>>
  BY DEF HandleLoginRej, Handled
<1>2. cfgFile # BadFile
  BY <1>1 DEF FileInv, MemoryInv
<1>3. CASE ChangeNetParm = 1
  <2>1. ChangeNetParmSave \in accepted
    BY <1>1, <1>3 DEF HandleLoginRej, Lapse, NothingSaved, FileInv, RevertInv
  <2>2. cfgFile' = ChangeNetParmSave /\ cfgMem' = ChangeNetParmSave /\ ChangeNetParm' = 0
    BY <1>2, <1>3 DEF HandleLoginRej, UpdateParmConfig
  <2>3. ChangeNetParmSave # BadFile
    BY <2>1, LinkAssumption DEF TypeOK
  <2> QED
    BY <1>1, <2>1, <2>2, <2>3 DEF FileInv, KnownGoodReachable, MemoryInv, ChangeInv, RevertInv
<1>4. CASE ChangeNetParm # 1
  <2>1. UNCHANGED confVars
    BY <1>4 DEF HandleLoginRej
  <2> QED
    BY <1>1, <2>1 DEF FileInv, KnownGoodReachable, MemoryInv, ChangeInv, RevertInv
<1> QED
  BY <1>3, <1>4

\* Command 0x81: the old address is in memory until it is kept aside, and no revert is
\* under way.
LEMMA ParmStep ==
  ASSUME TypeOK, FileInv, ~lapsed, ~lapsed', HandleParm
  PROVE  FileInv'
<1> USE DEF confVars, histVars, sideVars, HandleStep, Changing, UnderWay
<1>t. BadFile \notin accepted /\ BadFile # NoAddr
  BY LinkAssumption DEF TypeOK
<1>1. CASE ParmWrite
  <2>1. /\ pcHandle = "handle" /\ pcHandle' = "load" /\ pcWatch' = pcWatch
        /\ UNCHANGED <<cfgMem, ChangeNetParmSave, ChangeNetParm, accepted, pcSample>>
    BY <1>1 DEF ParmWrite
  <2>2. cfgFile \in accepted /\ ~UnderWay
    BY <1>1 DEF ParmWrite, Lapse
  <2>3. cfgMem \in accepted
    BY <2>1, <2>2 DEF FileInv, MemoryInv, Reverting
  <2>4. PICK a \in Addrs : cfgFile' = a
    BY <1>1, <1>t, <2>2 DEF ParmWrite, UpdateParmConfig
  <2>5. cfgFile' # BadFile
    BY <2>4, LinkAssumption
  <2>6. KnownGoodReachable' /\ MemoryInv' /\ ChangeInv'
    BY <2>1, <2>3, <2>5 DEF KnownGoodReachable, MemoryInv, ChangeInv
  <2>7. RevertInv'
    BY <2>1, <2>2 DEF FileInv, RevertInv
  <2> QED
    BY <2>6, <2>7 DEF FileInv
<1>2. CASE ParmLoad
  <2>1. /\ pcHandle = "load" /\ pcHandle' = "compare" /\ ChangeNetParm' = 0
        /\ UNCHANGED <<cfgFile, cfgMem, ChangeNetParmSave, accepted, pcWatch, pcSample>>
    BY <1>2 DEF ParmLoad
  <2>2. cfgFile # BadFile
    BY <2>1 DEF FileInv, MemoryInv
  <2>3. parm' = cfgFile
    BY <1>2, <2>2 DEF ParmLoad, LoadParmConfig
  <2> QED
    BY <2>1, <2>2, <2>3 DEF FileInv, KnownGoodReachable, MemoryInv, ChangeInv, RevertInv
<1>3. CASE ParmCompare
  BY <1>3 DEF ParmCompare, FileInv, KnownGoodReachable, MemoryInv, ChangeInv, RevertInv
<1>4. CASE ParmSave
  BY <1>4 DEF ParmSave, OldAddress, FileInv, KnownGoodReachable, MemoryInv, ChangeInv, RevertInv,
     TypeOK
<1>5. CASE ParmReply
  <2>1. pcWatch' = pcWatch \/ (pcWatch = "wait" /\ pcWatch' = "lost")
    BY <1>5 DEF ParmReply, setNetLose
  <2>2. /\ pcHandle = "reply" /\ pcHandle' = "reload"
        /\ UNCHANGED <<cfgFile, cfgMem, ChangeNetParmSave, ChangeNetParm, lapsed, accepted,
                       pcSample>>
    BY <1>5 DEF ParmReply
  <2> QED
    BY <2>1, <2>2 DEF FileInv, KnownGoodReachable, MemoryInv, ChangeInv, RevertInv, Reverting
<1> QED
  BY <1>1, <1>2, <1>3, <1>4, <1>5 DEF HandleParm

\* Command 0x82, and what both commands end with.
LEMMA ControlStep ==
  ASSUME TypeOK, FileInv, ~lapsed, ~lapsed',
         HandleRemoteCtl \/ SampleWrite \/ ResetCopy \/ CommandDone
  PROVE  FileInv'
<1> USE DEF confVars, histVars, sideVars, HandleStep, Changing, UnderWay
<1>t. BadFile \notin accepted /\ BadFile # NoAddr
  BY LinkAssumption DEF TypeOK
<1>1. CASE HandleRemoteCtl
  <2>1. /\ UNCHANGED <<cfgMem, ChangeNetParmSave, ChangeNetParm, lapsed, accepted, pcWatch,
                       pcSample>>
        /\ pcHandle = "handle" /\ pcHandle' \in {"sample", "copy", "reload"}
        /\ cfgFile' = cfgFile \/ (pcHandle' = "copy" /\ cfgFile' = BadFile)
    BY <1>1 DEF HandleRemoteCtl
  <2> QED
    BY <1>t, <2>1 DEF FileInv, KnownGoodReachable, MemoryInv, ChangeInv, RevertInv
<1>2. CASE SampleWrite
  <2>1. /\ UNCHANGED <<cfgFile, cfgMem, ChangeNetParmSave, ChangeNetParm, accepted, pcWatch,
                       pcSample>>
        /\ pcHandle = "sample" /\ pcHandle' = "reload"
    BY <1>2 DEF SampleWrite, Lapse
  <2> QED
    BY <2>1 DEF FileInv, KnownGoodReachable, MemoryInv, ChangeInv, RevertInv
<1>3. CASE ResetCopy
  <2>1. /\ UNCHANGED <<cfgMem, ChangeNetParmSave, ChangeNetParm, accepted, pcWatch, pcSample>>
        /\ pcHandle = "copy" /\ pcHandle' = "reload" /\ cfgFile' \in accepted
    BY <1>3 DEF ResetCopy, Lapse
  <2> QED
    BY <1>t, <2>1 DEF FileInv, KnownGoodReachable, MemoryInv, ChangeInv, RevertInv
<1>4. CASE CommandDone
  <2>1. /\ UNCHANGED <<cfgFile, ChangeNetParmSave, ChangeNetParm, accepted, pcWatch, pcSample>>
        /\ pcHandle = "reload" /\ pcHandle' = "handle"
    BY <1>4 DEF CommandDone
  <2>2. cfgFile # BadFile
    BY <2>1 DEF FileInv, MemoryInv
  <2>3. cfgMem' = cfgFile
    BY <1>4, <2>2 DEF CommandDone, vehicleConfigInit
  <2> QED
    BY <2>1, <2>2, <2>3 DEF FileInv, KnownGoodReachable, MemoryInv, ChangeInv, RevertInv
<1> QED
  BY <1>1, <1>2, <1>3, <1>4

\* The process starts anew with an address that accepted a login, or lapses.
LEMMA RestartStep ==
  ASSUME TypeOK, Restart, ~lapsed'
  PROVE  FileInv'
<1>1. /\ pcHandle' = "handle" /\ pcWatch' = "start" /\ ChangeNetParmSave' = NoAddr
      /\ cfgMem' = cfgFile' /\ accepted' = accepted /\ cfgFile' \in accepted
      /\ pcSample' = "none"
  BY DEF Restart, histVars
<1>2. cfgFile' # BadFile
  BY <1>1, LinkAssumption DEF TypeOK
<1> QED
  BY <1>1, <1>2 DEF FileInv, KnownGoodReachable, MemoryInv, ChangeInv, RevertInv, Reverting,
     Changing, UnderWay

\* Only an accepted login, for an address in the file, or a restart ends a lapse.
LEMMA LapseKept ==
  ASSUME TypeOK, [Next]_vars, ~HandleLoginOk, ~Restart, lapsed
  PROVE  lapsed'
<1>1. CASE Untouched
  BY <1>1 DEF Untouched, confVars
<1>2. CASE Reverts
  BY <1>2 DEF Reverts, ConnectFails, Undo, RevertIfSilent, revertIPConfig, RevertFile, RevertLoad,
     RevertClear, WatchTaskSample, SampleConnectFails, SampleUndo, Lapse
<1>3. CASE HandleLoginRej
  BY <1>3 DEF HandleLoginRej, Lapse, confVars
<1>4. CASE Commanded
  BY <1>4 DEF Commanded, HandleParm, ParmWrite, ParmLoad, ParmCompare, ParmSave, ParmReply,
     HandleRemoteCtl, SampleWrite, ResetCopy, CommandDone, Lapse, confVars
<1> QED
  BY <1>1, <1>2, <1>3, <1>4, AddressSteps

\* Every step keeps an address that accepted a login within reach.
LEMMA FileStep ==
  ASSUME RecvPrompt, IInv, GoodInv, [Next]_vars, ~lapsed'
  PROVE  FileInv'
<1>0. TypeOK /\ MessageInv /\ (lapsed \/ AddressInv)
  BY DEF IInv, GoodInv
<1>1. CASE HandleLoginOk
  BY <1>0, <1>1, LoginOkStep
<1>2. CASE Restart
  BY <1>0, <1>2, RestartStep
<1>3. CASE ~HandleLoginOk /\ ~Restart
  <2>1. ~lapsed
    BY <1>0, <1>3, LapseKept
  <2>2. FileInv
    BY <1>0, <2>1 DEF AddressInv, FileInv
  <2>3. CASE Untouched
    BY <2>2, <2>3, UntouchedStep
  <2>4. CASE Reverts
    BY <1>0, <2>1, <2>2, <2>4, RevertsStep
  <2>5. CASE HandleLoginRej
    BY <1>0, <2>1, <2>2, <2>5, LoginRejStep
  <2>6. CASE Commanded
    BY <1>0, <2>1, <2>2, <2>6, ParmStep, ControlStep DEF Commanded
  <2> QED
    BY <1>0, <1>3, <2>3, <2>4, <2>5, <2>6, AddressSteps
<1> QED
  BY <1>1, <1>2, <1>3

\* While a message is handled no login is still to be sent.
LEMMA HandlingNotAsking ==
  ASSUME MessageInv, hand # NoMsg
  PROVE  ~Asking
BY DEF MessageInv, PendingInv, Unanswered, Asking

\* What is handled in steps is a command.
LEMMA CommandInHand ==
  ASSUME MessageInv, Commanded
  PROVE  hand \in Commands
<1>1. CASE pcHandle # "handle"
  BY <1>1 DEF MessageInv, OrderInv
<1>2. CASE pcHandle = "handle"
  BY <1>2 DEF Commanded, HandleParm, ParmWrite, ParmLoad, ParmCompare, ParmSave, ParmReply,
     HandleRemoteCtl, SampleWrite, ResetCopy, CommandDone, HandleStep, Commands
<1> QED
  BY <1>1, <1>2

\* The file changes by a revert or by a message that is no accepted login.
LEMMA FileChanges ==
  ASSUME TypeOK, MessageInv, FileInv, [Next]_vars, ~Restart
  PROVE  \/ cfgFile' = cfgFile
         \/ cfgFile' \in accepted
         \/ hand # NoMsg /\ hand \notin LoginOk
<1>1. CASE Untouched \/ HandleLoginOk
  BY <1>1 DEF Untouched, confVars, HandleLoginOk
<1>2. CASE ConnectFails \/ RevertIfSilent
  BY <1>2 DEF ConnectFails, RevertIfSilent
<1>3. CASE Undo \/ revertIPConfig
  <2>1. ASSUME NEW from, NEW to, RevertFile(from, to),
               <<from, to>> \in {<<"undoFile", "undoLoad">>, <<"revertFile", "revertLoad">>}
        PROVE  cfgFile' = cfgFile \/ cfgFile' \in accepted
    <3>1. pcWatch = from /\ pcWatch' = to /\ (cfgFile' = cfgFile \/ cfgFile' = ChangeNetParmSave)
      BY <2>1 DEF RevertFile, UpdateParmConfig
    <3>2. ChangeNetParmSave \in accepted
      BY <2>1, <3>1 DEF FileInv, RevertInv, UnderWay, Reverting
    <3> QED
      BY <3>1, <3>2
  <2>3. CASE RevertFile("undoFile", "undoLoad") \/ RevertFile("revertFile", "revertLoad")
    BY <2>1, <2>3
  <2>4. CASE cfgFile' = cfgFile
    BY <2>4
  <2> QED
    BY <1>3, <2>3, <2>4 DEF Undo, revertIPConfig, RevertLoad, RevertClear
<1>4. CASE HandleLoginRej
  BY <1>4, Kinds DEF HandleLoginRej
<1>5. CASE Commanded
  BY <1>5, CommandInHand, Kinds
<1>6. CASE WatchTaskSample
  BY <1>6 DEF WatchTaskSample, SampleConnectFails, SampleUndo, UpdateParmConfig, FileInv,
     RevertInv, UnderWay
<1> QED
  BY <1>1, <1>2, <1>3, <1>4, <1>5, <1>6, AddressSteps DEF Reverts

\* Every step keeps what the platform is asked and answers to the address in the file.
LEMMA PlatformStep ==
  ASSUME RecvPrompt, IInv, GoodInv, [Next]_vars, ~lapsed'
  PROVE  PlatformInv'
<1>0. TypeOK /\ MessageInv /\ (lapsed \/ AddressInv)
  BY DEF IInv, GoodInv
<1>1. CASE Restart
  <2>1. hand' = NoMsg /\ mRecvQueue' = <<>> /\ down' = <<>> /\ pcWatch' = "start"
    BY <1>1 DEF Restart
  <2>2. ~Coming(LoginOk)' /\ ~Asking'
    BY <2>1, EmptyQueue, Kinds DEF Coming, Asking, Serviced, RevertPc
  <2> QED
    BY <2>2 DEF PlatformInv
<1>2. CASE HandleLoginOk
  <2>1. hand # NoMsg /\ hand' = NoMsg /\ UNCHANGED <<mRecvQueue, down>>
    BY <1>2, Kinds DEF HandleLoginOk, Handled, farVars
  <2>2. ~Coming(LoginOk)'
    BY <1>0, <2>1, Kinds DEF Coming, MessageInv, OrderInv
  <2>3. ~Resolve
    BY <2>1 DEF Resolve, handVars
  <2>4. ~Asking'
    BY <1>0, <2>1, <2>3, AskingStep, HandlingNotAsking
  <2> QED
    BY <2>2, <2>4 DEF PlatformInv
<1>3. CASE ~Restart /\ ~HandleLoginOk
  <2>1. ~lapsed
    BY <1>0, <1>3, LapseKept
  <2>2. FileInv /\ PlatformInv
    BY <1>0, <2>1 DEF AddressInv, FileInv
  <2>3. \/ cfgFile' = cfgFile
        \/ cfgFile' \in accepted
        \/ hand # NoMsg /\ hand \notin LoginOk
    BY <1>0, <1>3, <2>2, FileChanges
  <2>4. accepted \subseteq accepted'
    BY <1>0, <1>3, AddressSteps DEF Untouched, Reverts, ConnectFails, Undo, RevertIfSilent,
       revertIPConfig, WatchTaskSample, SampleConnectFails, SampleUndo, HandleLoginRej, Handled,
       Commanded, HandleParm, ParmWrite, ParmLoad, ParmCompare, ParmSave, ParmReply,
       HandleRemoteCtl, SampleWrite, ResetCopy, CommandDone, HandleStep, histVars
  <2>5. ASSUME Asking' PROVE target' = cfgFile' \/ cfgFile' \in accepted'
    <3>1. CASE Resolve
      <4>1. pcWatch = "start" /\ target' = cfgMem /\ cfgFile' = cfgFile
        BY <3>1 DEF Resolve, confVars
      <4>2. pcHandle = "handle"
        BY <1>0, <4>1, Kinds DEF MessageInv, OrderInv, PendingInv, Unanswered
      <4> QED
        BY <2>2, <2>4, <4>1, <4>2 DEF FileInv, MemoryInv, RevertInv
    <3>2. CASE Asking /\ target' = target
      <4>1. hand = NoMsg
        BY <1>0, <3>2, HandlingNotAsking
      <4> QED
        BY <2>2, <2>3, <2>4, <3>2, <4>1 DEF PlatformInv
    <3> QED
      BY <2>5, <3>1, <3>2, AskingStep, <1>0
  <2>6. ASSUME Coming(LoginOk)' PROVE cfgFile' \in accepted'
    <3>1. CASE SendOk /\ Asking /\ target \in accepted'
      BY <2>2, <2>4, <3>1 DEF SendOk, confVars, PlatformInv
    <3>2. CASE NoNewLogin
      <4>1. Coming(LoginOk)
        BY <2>6, <3>2 DEF NoNewLogin
      <4>2. cfgFile \in accepted
        BY <2>2, <4>1 DEF PlatformInv
      <4>3. ~(hand # NoMsg /\ hand \notin LoginOk)
        BY <1>0, <4>1 DEF Coming, MessageInv, OrderInv
      <4> QED
        BY <2>3, <2>4, <4>2, <4>3
    <3> QED
      BY <1>0, <3>1, <3>2, MessageStep
  <2> QED
    BY <2>5, <2>6 DEF PlatformInv
<1> QED
  BY <1>1, <1>2, <1>3

\* Every step keeps the invariant, whatever the platform commands.
LEMMA GoodStep ==
  ASSUME RecvPrompt, IInv, GoodInv, [Next]_vars
  PROVE  GoodInv'
<1>1. MessageInv'
  BY MessageStep DEF GoodInv
<1>2. CASE lapsed'
  BY <1>1, <1>2 DEF GoodInv
<1>3. CASE ~lapsed'
  BY <1>1, <1>3, FileStep, PlatformStep DEF GoodInv, AddressInv, FileInv
<1> QED
  BY <1>2, <1>3

\* The first boot.
LEMMA GoodInitially ==
  ASSUME Init
  PROVE  GoodInv
<1>1. /\ hand = NoMsg /\ mRecvQueue = <<>> /\ down = <<>> /\ mSendQueue = <<>> /\ ~platLogged
      /\ pcWatch = "start" /\ pcHandle = "handle" /\ cfgFile = BootAddr /\ cfgMem = BootAddr
      /\ ChangeNetParmSave = NoAddr /\ accepted = {BootAddr}
      /\ pcSample = "none"
  BY DEF Init
<1>2. MessageInv
  BY <1>1, EmptyQueue DEF MessageInv, OrderInv, PendingInv, Unanswered, Idling, Serviced, UndoPc,
     RevertPc
<1>3. ~Coming(LoginOk) /\ ~Asking
  BY <1>1, Kinds, EmptyQueue DEF Coming, Asking, Serviced, RevertPc
<1>4. BootAddr # BadFile
  BY LinkAssumption
<1>5. KnownGoodReachable /\ MemoryInv /\ ChangeInv /\ RevertInv /\ PlatformInv
  BY <1>1, <1>3, <1>4 DEF KnownGoodReachable, MemoryInv, ChangeInv, RevertInv, PlatformInv,
     Reverting, Changing, UnderWay
<1> QED
  BY <1>2, <1>5 DEF GoodInv, AddressInv

\* HandleMessage and WatchTask, in whatever order their steps come: whatever addresses
\* the platform names, and whatever the vendor's file and the flag at boot say, an
\* address that accepted a login is in the file, or revertIPConfig goes back to one,
\* except in a lapse.  RecvTask has to be done with the messages of a connection within
\* the delay before the next attempt (RecvPrompt).
THEOREM KnownGoodKept ==
  ASSUME RecvPrompt
  PROVE  Spec => []KnownGoodReachable
<1>1. Init => IInv /\ GoodInv
  BY InitIInv, GoodInitially
<1>2. IInv /\ GoodInv /\ [Next]_vars => IInv' /\ GoodInv'
  <2>1. IInv /\ [Next]_vars => IInv'
    BY TypeStep, ConnectionStep DEF IInv
  <2>2. IInv /\ GoodInv /\ [Next]_vars => GoodInv'
    BY GoodStep
  <2> QED
    BY <2>1, <2>2
<1>3. GoodInv => KnownGoodReachable
  BY DEF GoodInv, AddressInv, KnownGoodReachable
<1> QED
  BY <1>1, <1>2, <1>3, PTL DEF Spec

-----------------------------------------------------------------------------
(* The wait after failures.  In test mode mRetryCount counts at least the   *)
(* attempts that failed, one by one: an attempt that is torn down without   *)
(* a login is counted by LinkLost, before it ends, if `state' still says    *)
(* that the platform was reached.                                           *)

CountedInv ==
  /\ failures <= mRetryCount
  /\ pcWatch \in {"revert", "stop", "join"} \cup RevertPc /\ ~excused =>
       Bump(failures) <= mRetryCount
  /\ pcWatch \in {"spawnRecv", "spawnSend", "enterWait", "wait", "lost"} /\ ~excused => state = 3
  /\ pcWatch \in UndoPc => excused
  /\ pcWatch = "delay" => failures < RetryLimit

BackoffInv == failures \in 0..RetryLimit /\ excused \in BOOLEAN /\ (testMode => CountedInv)

\* The watch thread stays in its stage, and what it counts with stays the same.
Uncounted ==
  /\ UNCHANGED <<mRetryCount, state, testMode>>
  /\ \/ pcWatch' = pcWatch
     \/ \E stage \in {{"spawnRecv", "spawnSend", "enterWait", "wait", "lost"},
                      {"revert", "stop", "join"} \cup RevertPc, UndoPc} :
          pcWatch \in stage /\ pcWatch' \in stage

Counting ==
  \/ DnsFails \/ Resolve \/ ConnectFails \/ ConnectOk \/ IdleService \/ IdleTest \/ EndDelay
  \/ Undo \/ LinkLost \/ RevertIfSilent \/ revertIPConfig \/ Join
  \/ HandleLoginOk \/ HandleLoginRej

\* A step either counts nothing or is one of the steps that count.
LEMMA CountingKinds == TypeOK /\ [Next]_vars => Uncounted \/ Counting \/ Restart
<1> SUFFICES ASSUME TypeOK, [Next]_vars, ~Counting, ~Restart PROVE Uncounted
  OBVIOUS
<1> USE DEF Uncounted, tboxVars, RevertPc, UndoPc
<1>1. CASE SpawnRecv \/ SpawnSend \/ getUpdateNetState \/ SpuriousWakeup \/ Stop
  BY <1>1 DEF SpawnRecv, SpawnSend, getUpdateNetState, SpuriousWakeup, Stop
<1>2. CASE RecvRead \/ RecvNothing \/ RecvDrop \/ RecvExit
  BY <1>2 DEF RecvRead, RecvNothing, RecvDrop, RecvExit, setNetLose
<1>3. CASE SendOk \/ SendFails \/ SendDrop \/ SendExit
  BY <1>3 DEF SendOk, SendFails, SendDrop, SendExit, setNetLose
<1>4. CASE RecvQueueDequeue \/ HandleLogoutOk \/ HandleTimeOk \/ HandleHeartbeat
  BY <1>4 DEF RecvQueueDequeue, HandleLogoutOk, HandleTimeOk, HandleHeartbeat, Handled,
     setNetLose
<1>5. CASE HandleParm
  <2>1. pcWatch' = pcWatch \/ (pcWatch = "wait" /\ pcWatch' = "lost")
    BY <1>5 DEF HandleParm, ParmWrite, ParmLoad, ParmCompare, ParmSave, ParmReply, setNetLose
  <2>2. UNCHANGED <<mRetryCount, state, testMode>>
    BY <1>5 DEF HandleParm, ParmWrite, ParmLoad, ParmCompare, ParmSave, ParmReply, HandleStep
  <2> QED
    BY <2>1, <2>2
<1>6. CASE HandleRemoteCtl \/ SampleWrite \/ ResetCopy \/ CommandDone \/ RejectCommand
  BY <1>6 DEF HandleRemoteCtl, SampleWrite, ResetCopy, CommandDone, HandleStep, RejectCommand,
     Handled
<1>8. CASE WatchTaskSample
  BY <1>8 DEF WatchTaskSample, SampleConnectFails, SampleUndo
<1>7. CASE HeartTask \/ SendTask \/ WatchSOCPowerStateTask \/ SocEvent \/ PlatformCommands
             \/ PeerGone \/ UNCHANGED vars
  BY <1>7 DEF HeartTask, SendTask, PeriodicSend, WatchSOCPowerStateTask, getSOCPowerState,
     SocWakeup, SocSleep, SocEvent, PlatformCommands, PeerGone, vars
<1> QED
  BY <1>1, <1>2, <1>3, <1>4, <1>5, <1>6, <1>7, <1>8 DEF Next, WatchTask, Start, Idle, TearDown,
     recvFunc, sendFunc, RecvTask, HandleMessage, Environment, Counting

\* testMode is read once, at boot.
LEMMA TestModeKept == TypeOK /\ [Next]_vars => testMode' = testMode
<1> SUFFICES ASSUME TypeOK, [Next]_vars PROVE testMode' = testMode
  OBVIOUS
<1>1. CASE Uncounted
  BY <1>1 DEF Uncounted
<1>2. CASE Counting
  BY <1>2 DEF Counting, DnsFails, Resolve, ConnectFails, ConnectOk, IdleService, IdleTest,
     EndDelay, Undo, LinkLost, RevertIfSilent, revertIPConfig, Join, HandleLoginOk,
     HandleLoginRej, Handled, tboxVars
<1>3. CASE Restart
  BY <1>3 DEF Restart
<1> QED
  BY <1>1, <1>2, <1>3, CountingKinds

\* A login, an address given up or a network restored: nothing is left to count.
\* An attempt that is under way is excused, and the last of the three comes only
\* while no attempt is.
LEMMA Forgiven ==
  ASSUME TypeOK, TypeOK', [Next]_vars, ~Restart, LoggedIn \/ Reverted \/ NetworkRestored,
         failures' = 0, excused' = ~NetworkRestored, testMode
  PROVE  CountedInv'
<1>1. mRetryCount' \in Nat /\ failures' <= mRetryCount' /\ failures' < RetryLimit
  BY DEF TypeOK, RetryLimit
<1>2. ASSUME NetworkRestored PROVE pcWatch' \in {"longDelay", "start"}
  <2>1. pcWatch = "longDelay"
    BY <1>2 DEF NetworkRestored
  <2>2. CASE Uncounted
    BY <2>1, <2>2 DEF Uncounted, RevertPc, UndoPc
  <2>3. CASE Counting
    BY <2>1, <2>3 DEF Counting, DnsFails, Resolve, ConnectFails, ConnectOk, IdleService,
       IdleTest, EndDelay, Undo, LinkLost, RevertIfSilent, revertIPConfig, RevertFile,
       RevertLoad, RevertClear, Join, HandleLoginOk, HandleLoginRej
  <2> QED
    BY <2>2, <2>3, CountingKinds
<1> QED
  BY <1>1, <1>2 DEF CountedInv, RevertPc, UndoPc

\* Every other step of the ones that count.
LEMMA CountedStep ==
  ASSUME TypeOK, TypeOK', CountedInv, failures \in 0..RetryLimit, excused \in BOOLEAN,
         Counting, ~(LoggedIn \/ Reverted \/ NetworkRestored), testMode,
         failures' = IF AttemptEnds /\ ~excused THEN Bump(failures) ELSE failures,
         excused' = (excused /\ ~AttemptEnds)
  PROVE  CountedInv'
<1> USE DEF CountedInv, RetryLimit, Bump, AttemptEnds, RevertPc, UndoPc
<1>1. mRetryCount \in 0..3 /\ mRetryCount' \in 0..3
  BY DEF TypeOK
<1>2. CASE DnsFails
  BY <1>1, <1>2 DEF DnsFails
<1>3. CASE Resolve
  BY <1>1, <1>3 DEF Resolve
<1>4. CASE ConnectFails
  <2>1. mRetryCount' = Bump(mRetryCount) /\ pcWatch = "connect" /\ pcWatch' = "idle"
    BY <1>4 DEF ConnectFails, Reverted
  <2> QED
    BY <1>1, <2>1
<1>5. CASE ConnectOk
  BY <1>1, <1>5 DEF ConnectOk
<1>6. CASE IdleService
  BY <1>6 DEF IdleService
<1>7. CASE IdleTest
  BY <1>1, <1>7 DEF IdleTest
<1>8. CASE EndDelay
  <2>1. pcWatch' = "start" /\ pcWatch # "idle" /\ mRetryCount' \in {mRetryCount, 0}
    BY <1>8 DEF EndDelay
  <2>2. mRetryCount' = mRetryCount
    BY <1>1, <1>8, <2>1 DEF EndDelay, NetworkRestored
  <2> QED
    BY <1>1, <2>1, <2>2
<1>9. CASE LinkLost
  BY <1>1, <1>9 DEF LinkLost
<1>10. CASE RevertIfSilent
  BY <1>1, <1>10 DEF RevertIfSilent
<1>14. CASE Undo
  BY <1>1, <1>14 DEF Undo, RevertFile, RevertLoad, RevertClear
<1>15. CASE revertIPConfig
  BY <1>1, <1>15 DEF revertIPConfig, RevertFile, RevertLoad, RevertClear, Reverted
<1>11. CASE Join
  BY <1>1, <1>11 DEF Join
<1>12. CASE HandleLoginOk
  BY <1>12 DEF HandleLoginOk, Handled, LoggedIn, Answered, Answer, NoMsg
<1>13. CASE HandleLoginRej
  <2>1. UNCHANGED <<mRetryCount, state, pcWatch>>
    BY <1>13 DEF HandleLoginRej, Handled, Reverted, Answered, Answer, NoMsg
  <2> QED
    BY <1>1, <2>1
<1> QED
  BY <1>2, <1>3, <1>4, <1>5, <1>6, <1>7, <1>8, <1>9, <1>10, <1>11, <1>12, <1>13, <1>14, <1>15
  DEF Counting

\* Every step, with its history, keeps the count.
LEMMA BackoffStep ==
  IInv /\ BackoffInv /\ [Next /\ History]_<<vars, failures, excused>> => BackoffInv'
<1> SUFFICES ASSUME IInv, BackoffInv, [Next /\ History]_<<vars, failures, excused>>
             PROVE  BackoffInv'
  OBVIOUS
<1>1. CASE UNCHANGED <<vars, failures, excused>>
  BY <1>1 DEF vars, tboxVars, BackoffInv, CountedInv
<1>2. CASE Next /\ History
  <2>1. TypeOK /\ TypeOK' /\ [Next]_vars
    BY <1>2, TypeStep DEF IInv
  <2>2. testMode' = testMode
    BY <2>1, TestModeKept
  <2>r. CASE Restart
    <3>1. failures' = 0 /\ excused' = FALSE
      BY <1>2, <2>r DEF History
    <3>2. failures' \in 0..RetryLimit
      BY <3>1 DEF RetryLimit
    <3>5. excused' \in BOOLEAN
      BY <3>1, Zenon
    <3>3. pcWatch' = "start" /\ mRetryCount' = 0
      BY <2>r DEF Restart
    <3>4. CountedInv'
      BY <3>1, <3>3 DEF CountedInv, RetryLimit, RevertPc, UndoPc
    <3> QED
      BY <3>2, <3>4, <3>5 DEF BackoffInv
  <2>3. CASE ~Restart /\ (LoggedIn \/ Reverted \/ NetworkRestored)
    <3>1. failures' = 0 /\ excused' = ~NetworkRestored
      BY <1>2, <2>3 DEF History
    <3>2. failures' \in 0..RetryLimit /\ excused' \in BOOLEAN
      BY <3>1 DEF RetryLimit
    <3>3. testMode => CountedInv'
      BY <2>1, <2>3, <3>1, Forgiven
    <3> QED
      BY <2>2, <3>2, <3>3 DEF BackoffInv
  <2>4. CASE ~Restart /\ ~(LoggedIn \/ Reverted \/ NetworkRestored)
    <3>1. /\ failures' = IF AttemptEnds /\ ~excused THEN Bump(failures) ELSE failures
          /\ excused' = (excused /\ ~AttemptEnds)
      BY <1>2, <2>4 DEF History
    <3>2. failures \in 0..RetryLimit /\ excused \in BOOLEAN
      BY DEF BackoffInv
    <3>3. failures' \in 0..RetryLimit /\ excused' \in BOOLEAN
      BY <3>1, <3>2 DEF RetryLimit, Bump
    <3>4. ASSUME testMode PROVE CountedInv'
      <4>0. CountedInv
        BY <3>4 DEF BackoffInv
      <4>1. CASE Counting
        BY <2>1, <2>4, <3>1, <3>2, <3>4, <4>0, <4>1, CountedStep
      <4>2. CASE Uncounted
        <5>1. failures' = failures
          BY <3>1, <4>2 DEF Uncounted, AttemptEnds, RevertPc, UndoPc
        <5>2. excused' = excused
          BY <3>1, <3>2, <4>2 DEF Uncounted, AttemptEnds, RevertPc, UndoPc
        <5> QED
          BY <4>0, <4>2, <5>1, <5>2 DEF Uncounted, CountedInv, Bump, RevertPc, UndoPc
      <4> QED
        BY <2>1, <2>4, <4>1, <4>2, CountingKinds
    <3> QED
      BY <2>2, <3>3, <3>4 DEF BackoffInv
  <2> QED
    BY <2>r, <2>3, <2>4
<1> QED
  BY <1>1, <1>2

\* WatchTask in test mode: after three attempts in a row without a login, whether
\* the name was not resolved, the connection was refused or the platform did not
\* answer, the TBOX does not try again after the short delay.
THEOREM WaitsAfterFailures == BackoffSpec => []WaitsLongAfterThreeFailures
<1>1. Init /\ failures = 0 /\ excused = FALSE => IInv /\ BackoffInv
  <2>1. Init => IInv
    BY InitIInv
  <2>2. Init /\ failures = 0 /\ excused = FALSE => BackoffInv
    <3> SUFFICES ASSUME Init, failures = 0, excused = FALSE PROVE BackoffInv
      OBVIOUS
    <3>1. excused \in BOOLEAN
      OBVIOUS
    <3>4. failures \in 0..RetryLimit
      BY DEF RetryLimit
    <3>2. pcWatch = "start" /\ mRetryCount = 0
      BY DEF Init
    <3>3. CountedInv
      BY <3>2 DEF CountedInv, RetryLimit, RevertPc, UndoPc
    <3> QED
      BY <3>1, <3>3, <3>4 DEF BackoffInv
  <2> QED
    BY <2>1, <2>2
<1>2. IInv /\ BackoffInv /\ [Next /\ History]_<<vars, failures, excused>> => IInv' /\ BackoffInv'
  <2>1. [Next /\ History]_<<vars, failures, excused>> => [Next]_vars
    OBVIOUS
  <2> QED
    BY <2>1, TypeStep, ConnectionStep, BackoffStep DEF IInv
<1>3. BackoffInv => WaitsLongAfterThreeFailures
  BY DEF BackoffInv, CountedInv, WaitsLongAfterThreeFailures
<1> QED
  BY <1>1, <1>2, <1>3, PTL DEF BackoffSpec
=============================================================================
