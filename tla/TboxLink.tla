------------------------------ MODULE TboxLink ------------------------------
(***************************************************************************)
(* The link of the TBOX process to the telematics platform: the watch      *)
(* thread that connects and tears down, the reader and writer thread of a  *)
(* connection, the thread that handles the platform's messages, the        *)
(* threads that send heartbeats and time requests, and the thread that     *)
(* follows the power state of the SOC.                                     *)
(*                                                                         *)
(* Every condition variable of this code is waited on without a predicate: *)
(* a notification reaches a thread that is inside wait() and is lost       *)
(* otherwise, and a wait may also return spuriously.                       *)
(*                                                                         *)
(* One step of a reader or writer thread is its loop test and the body the *)
(* test guards.  A platform that answers appends its answer to `down', the *)
(* bytes on their way to the vehicle, when the vehicle's write succeeds.   *)
(***************************************************************************)
EXTENDS Naturals, Sequences

CONSTANTS
  Addrs,               \* platform addresses a configuration can name
  NoAddr,              \* an address that is not set
  BadFile,             \* a configuration file that cannot be parsed
  BootAddr,            \* the address in the configuration file at boot
  FactoryAddr,         \* the address in the configuration file of the vendor
  Serving,             \* the addresses where a platform accepts logins
  BootStates,          \* values the uninitialised mState may hold
  BootChangeNetParm,   \* values the uninitialised ChangeNetParm may hold
  SocStates,           \* power states the SOC takes
  TestModes,           \* values of persist.gecko.tbox.testmode = "1"
  SampleLink,          \* the link for samples is in use
  RecvPrompt,          \* a message is handled within the delay before a retry
  PlatformRespTimeout, \* failed reads that end a connection
  TerminalRespTimeout, \* failed writes a connection survives
  QueueBound,          \* bound: messages in a queue when one more is queued unasked
  StreamBound,         \* bound: answers in flight
  CommandBound         \* bound: commands (0x81, 0x82) the platform sends

ASSUME LinkAssumption ==
  /\ NoAddr \notin Addrs /\ BadFile \notin Addrs /\ BadFile # NoAddr
  /\ BootAddr \in Addrs /\ FactoryAddr \in Addrs
  /\ Serving \subseteq Addrs
  /\ BootStates \subseteq {"OffLine", "OnLine", "Login", "UpReport", "Realtime", "Logout"}
  /\ BootChangeNetParm \subseteq {0, 1}
  /\ SocStates \subseteq {"awake", "sleep"}
  /\ TestModes \subseteq BOOLEAN
  /\ SampleLink \in BOOLEAN
  /\ RecvPrompt \in BOOLEAN
  /\ PlatformRespTimeout \in Nat \ {0}
  /\ TerminalRespTimeout \in Nat
  /\ QueueBound \in Nat
  /\ StreamBound \in Nat \ {0}
  /\ CommandBound \in Nat

MachineState == {"OffLine", "OnLine", "Login", "UpReport", "Realtime", "Logout"}

\* Messages to the platform; "info" is the reports that are sent together and
\* have no answer.
UpMsg == {"login", "info", "timesync", "heartbeat", "logout"}

\* Messages from the platform; only the parameter command carries an address.
Answer(c) == [cmd |-> c, addr |-> NoAddr]
ParmSet(a) == [cmd |-> "parm", addr |-> a]
Commands == {Answer("remoteCmd"), Answer("factoryReset")} \cup {ParmSet(a) : a \in Addrs}
DownMsg == {Answer(c) : c \in {"loginOk", "loginRej", "timeOk", "beat", "logoutOk"}}
             \cup Commands
NoMsg == Answer("none")

\* The retry counter is compared with 3 only, so it saturates there.
RetryLimit == 3
Bump(n) == IF n < RetryLimit THEN n + 1 ELSE n

VARIABLES
  \* Tbox
  mState, mSTR, network, testMode,
  \* XMLConfig: the address on disk, the one in memory, the one to go back to
  cfgFile, cfgMem, ChangeNetParmSave, ChangeNetParm,
  \* NetworkComm
  mNetState, state, running, mRetryCount, mSendQueue, mRecvQueue, sock, target,
  \* threads: where each one is, and what it holds; pcSample is the watch thread
  \* of the link for samples, as far as it gives up a changed address
  pcWatch, pcRecv, pcSend, readtimeout, writetimeout, pcSoc, pcSample,
  \* RecvTask: the message it handles, how far it is, the address it has read
  hand, pcHandle, parm,
  \* the SOC, the connection's far end and the bytes on their way back
  socPower, peer, platLogged, down,
  \* history: commands sent, addresses that accepted a login, and whether the
  \* way back to one of these was given up (see Lapse)
  commands, accepted, lapsed

tboxVars == <<mState, mSTR, network, testMode>>
confVars == <<cfgFile, cfgMem, ChangeNetParmSave, ChangeNetParm, lapsed>>
queueVars == <<mSendQueue, mRecvQueue>>
threadVars == <<pcRecv, pcSend, readtimeout, writetimeout>>
farVars == <<peer, platLogged, down>>
handVars == <<hand, pcHandle, parm>>
sideVars == <<pcSoc, socPower, pcSample>>
histVars == <<commands, accepted>>

vars == <<tboxVars, confVars, mNetState, state, running, mRetryCount, queueVars,
          sock, target, pcWatch, threadVars, handVars, sideVars, farVars, histVars>>

\* The watch thread goes back to the address kept aside, in NetworkComm::Start
\* after a failed connect or in WatchTask before it tears down.
Reverting == {"undoFile", "undoLoad", "undoClear", "revertFile", "revertLoad", "revertClear"}
WatchPc == {"start", "connect", "spawnRecv", "spawnSend", "idle", "delay", "longDelay",
            "enterWait", "wait", "lost", "revert", "stop", "join"} \cup Reverting
LoopPc == {"none", "loop", "drop", "exited"}
SocPc == {"wait", "read", "sleep", "awake"}
SamplePc == {"none", "file", "load", "clear"}
\* How far HandleMessage is with a command from the platform.
Changing == {"load", "compare", "save"}
HandlePc == {"handle", "reply", "sample", "copy", "reload"} \cup Changing

TypeOK ==
  /\ mState \in MachineState /\ mSTR \in {0, 1} /\ network \in {0, 1}
  /\ testMode \in BOOLEAN
  /\ cfgFile \in Addrs \cup {NoAddr, BadFile} /\ cfgMem \in Addrs \cup {NoAddr}
  /\ ChangeNetParmSave \in Addrs \cup {NoAddr} /\ ChangeNetParm \in {0, 1}
  /\ lapsed \in BOOLEAN
  /\ mNetState \in {"NoConnect", "Connected"} /\ state \in 0..3
  /\ running \in BOOLEAN /\ mRetryCount \in 0..RetryLimit
  /\ mSendQueue \in Seq(UpMsg) /\ mRecvQueue \in Seq(DownMsg)
  /\ sock \in {"closed", "open"} /\ target \in Addrs \cup {NoAddr}
  /\ pcWatch \in WatchPc /\ pcRecv \in LoopPc /\ pcSend \in LoopPc
  /\ readtimeout \in 0..PlatformRespTimeout
  /\ writetimeout \in 0..(TerminalRespTimeout + 1)
  /\ hand \in DownMsg \cup {NoMsg} /\ pcHandle \in HandlePc
  /\ parm \in Addrs \cup {NoAddr} /\ pcSoc \in SocPc /\ pcSample \in SamplePc
  /\ socPower \in {"sleep", "awake"} /\ peer \in {"none", "up", "gone"}
  /\ platLogged \in BOOLEAN /\ down \in Seq(DownMsg)
  /\ commands \in 0..CommandBound /\ accepted \subseteq Addrs

\* The process starts.  Tbox() leaves mState and ChangeNetParm uninitialised:
\* any value they can hold.
Init ==
  /\ mState \in BootStates /\ mSTR = 0 /\ network = 0
  /\ cfgFile = BootAddr /\ cfgMem = BootAddr
  /\ ChangeNetParmSave = NoAddr /\ ChangeNetParm \in BootChangeNetParm
  /\ mNetState = "NoConnect" /\ state = 0 /\ running = TRUE /\ mRetryCount = 0
  /\ mSendQueue = <<>> /\ mRecvQueue = <<>> /\ sock = "closed" /\ target = NoAddr
  /\ pcWatch = "start" /\ pcRecv = "none" /\ pcSend = "none"
  /\ readtimeout = 0 /\ writetimeout = 0 /\ pcSoc = "wait" /\ pcSample = "none"
  /\ hand = NoMsg /\ pcHandle = "handle" /\ parm = NoAddr
  /\ peer = "none" /\ platLogged = FALSE /\ down = <<>>
  /\ testMode \in TestModes /\ socPower = "awake"
  /\ commands = 0 /\ accepted = {BootAddr} /\ lapsed = FALSE

-----------------------------------------------------------------------------
(* Operations the threads share.                                           *)

\* notify_one on the condition variable of getUpdateNetState
setNetLose == pcWatch' = IF pcWatch = "wait" THEN "lost" ELSE pcWatch

LoggedOn == mState \in {"Realtime", "UpReport", "Login"}

\* The configuration file and what was read of it.  A key of a file that cannot
\* be parsed is neither read nor written.
vehicleConfigInit == cfgMem' = IF cfgFile = BadFile THEN cfgMem ELSE cfgFile
UpdateParmConfig(addr) == cfgFile' = IF cfgFile = BadFile THEN BadFile ELSE addr
\* What LoadParmConfig leaves in an address: of a file that cannot be parsed,
\* the address of an earlier command.
LoadParmConfig == IF cfgFile = BadFile THEN Addrs \cup {NoAddr} ELSE {cfgFile}

\* An event after which the code promises no way back to an address that
\* accepted a login.
Lapse(event) == lapsed' = (lapsed \/ event)
\* A revert without an address to go back to: none was ever saved, or the
\* handler of a change has not yet saved it.
NothingSaved == ChangeNetParmSave = NoAddr \/ pcHandle \in Changing
\* A revert is under way, in either of the two threads that connect.
UnderWay == pcWatch \in Reverting \/ pcSample # "none"

\* revertIPConfig in the watch thread, which shares the configuration with
\* RecvTask without a lock: the file, the memory, then the flag.
RevertFile(from, to) ==
  /\ pcWatch = from /\ pcWatch' = to
  /\ UpdateParmConfig(ChangeNetParmSave)
  /\ UNCHANGED <<cfgMem, ChangeNetParmSave, ChangeNetParm, lapsed, mRetryCount>>

RevertLoad(from, to) ==
  /\ pcWatch = from /\ pcWatch' = to
  /\ vehicleConfigInit
  /\ UNCHANGED <<cfgFile, ChangeNetParmSave, ChangeNetParm, lapsed, mRetryCount>>

RevertClear(from, to, count) ==
  /\ pcWatch = from /\ pcWatch' = to
  /\ ChangeNetParm' = 0 /\ mRetryCount' = count
  /\ UNCHANGED <<cfgFile, cfgMem, ChangeNetParmSave, lapsed>>

-----------------------------------------------------------------------------
(* NetworkComm::Start, called by the watch thread.                         *)

DnsFails ==
  /\ pcWatch = "start"
  /\ state' = 1 /\ mRetryCount' = Bump(mRetryCount) /\ pcWatch' = "idle"
  /\ UNCHANGED <<tboxVars, confVars, mNetState, running, queueVars, sock, target,
                 threadVars, handVars, sideVars, farVars, histVars>>

Resolve ==
  /\ pcWatch = "start"
  /\ state' = 2 /\ target' = cfgMem /\ pcWatch' = "connect"
  /\ UNCHANGED <<tboxVars, confVars, mNetState, running, mRetryCount, queueVars, sock,
                 threadVars, handVars, sideVars, farVars, histVars>>

ConnectFails ==
  /\ pcWatch = "connect"
  /\ target' = NoAddr
  /\ \/ /\ ChangeNetParm = 1
        /\ mRetryCount' = 0 /\ pcWatch' = "undoFile" /\ Lapse(NothingSaved)
     \/ /\ ChangeNetParm # 1
        /\ mRetryCount' = Bump(mRetryCount) /\ pcWatch' = "idle" /\ UNCHANGED lapsed
  /\ UNCHANGED <<tboxVars, cfgFile, cfgMem, ChangeNetParmSave, ChangeNetParm, mNetState,
                 state, running, queueVars, sock, threadVars, handVars, sideVars,
                 farVars, histVars>>

\* After a failed connect the changed address is given up.
Undo ==
  /\ \/ RevertFile("undoFile", "undoLoad")
     \/ RevertLoad("undoLoad", "undoClear")
     \/ RevertClear("undoClear", "idle", mRetryCount)
  /\ UNCHANGED <<tboxVars, mNetState, state, running, queueVars, sock, target,
                 threadVars, handVars, sideVars, farVars, histVars>>

\* The queues are cleared without their locks: another thread may enqueue
\* before the login does.
ConnectOk ==
  /\ pcWatch = "connect"
  /\ target \in Addrs
  /\ sock' = "open" /\ peer' = "up"
  /\ state' = 3 /\ mSendQueue' = <<>> /\ mRecvQueue' = <<>> /\ pcWatch' = "spawnRecv"
  /\ UNCHANGED <<tboxVars, confVars, mNetState, running, mRetryCount, target,
                 threadVars, handVars, sideVars, platLogged, down, histVars>>

SpawnRecv ==
  /\ pcWatch = "spawnRecv"
  /\ mSendQueue' = Append(mSendQueue, "login")
  /\ running' = TRUE
  /\ pcRecv' = "loop" /\ pcWatch' = "spawnSend"
  /\ UNCHANGED <<tboxVars, confVars, mNetState, state, mRetryCount, mRecvQueue, sock,
                 target, pcSend, readtimeout, writetimeout, handVars, sideVars, farVars,
                 histVars>>

SpawnSend ==
  /\ pcWatch = "spawnSend"
  /\ pcSend' = "loop"
  /\ mNetState' = "Connected" /\ pcWatch' = "enterWait"
  /\ UNCHANGED <<tboxVars, confVars, state, running, mRetryCount, queueVars, sock, target,
                 pcRecv, readtimeout, writetimeout, handVars, sideVars, farVars, histVars>>

-----------------------------------------------------------------------------
(* WatchTask, state NoConnect.                                             *)

\* mutant: the test of the STR mode is the wrong way round
PauseAwake == IF mSTR = 0 THEN "idle" ELSE "delay"
Pause == IF mSTR = 1 THEN "idle" ELSE "delay"

\* In service the counter is reset at once; nothing is tried in STR mode.
IdleService ==
  /\ pcWatch = "idle" /\ ~testMode
  /\ mRetryCount' = 0
  /\ pcWatch' = Pause
  /\ UNCHANGED <<tboxVars, confVars, mNetState, state, running, queueVars, sock, target,
                 threadVars, handVars, sideVars, farVars, histVars>>

\* In test mode three failures in a row make the wait long.
IdleTest ==
  /\ pcWatch = "idle" /\ testMode
  /\ pcWatch' = IF mRetryCount < RetryLimit THEN "delay" ELSE "longDelay"
  /\ UNCHANGED <<tboxVars, confVars, mNetState, state, running, mRetryCount, queueVars,
                 sock, target, threadVars, handVars, sideVars, farVars, histVars>>

\* The long wait ends early when checkNetwork succeeds.
EndDelay ==
  /\ pcWatch \in {"delay", "longDelay"}
  /\ RecvPrompt => hand = NoMsg /\ mRecvQueue = <<>>
  /\ pcWatch' = "start"
  /\ \/ UNCHANGED mRetryCount
     \/ pcWatch = "longDelay" /\ state # 3 /\ mRetryCount' = 0
  /\ UNCHANGED <<tboxVars, confVars, mNetState, state, running, queueVars, sock, target,
                 threadVars, handVars, sideVars, farVars, histVars>>

-----------------------------------------------------------------------------
(* WatchTask, state Connected, and NetworkComm::stop.                      *)

getUpdateNetState ==
  /\ pcWatch = "enterWait"
  /\ pcWatch' = "wait"
  /\ UNCHANGED <<tboxVars, confVars, mNetState, state, running, mRetryCount, queueVars,
                 sock, target, threadVars, handVars, sideVars, farVars, histVars>>

SpuriousWakeup ==
  /\ pcWatch = "wait"
  /\ pcWatch' = "lost"
  /\ UNCHANGED <<tboxVars, confVars, mNetState, state, running, mRetryCount, queueVars,
                 sock, target, threadVars, handVars, sideVars, farVars, histVars>>

\* mutant: a login that got no answer is not counted
LinkLostUncounted ==
  /\ pcWatch = "lost"
  /\ mState' = "Logout" /\ pcWatch' = "revert"
  /\ UNCHANGED <<mSTR, network, testMode, confVars, mNetState, state, running, mRetryCount,
                 queueVars, sock, target, threadVars, handVars, sideVars, farVars,
                 histVars>>

LinkLost ==
  /\ pcWatch = "lost"
  /\ mRetryCount' = IF state = 3 THEN Bump(mRetryCount) ELSE mRetryCount
  /\ mState' = "Logout" /\ pcWatch' = "revert"
  /\ UNCHANGED <<mSTR, network, testMode, confVars, mNetState, state, running, queueVars, sock,
                 target, threadVars, handVars, sideVars, farVars, histVars>>

\* The connection ended before the platform answered the login.
RevertIfSilent ==
  /\ pcWatch = "revert"
  /\ IF ChangeNetParm = 1 /\ ~running
     THEN pcWatch' = "revertFile" /\ Lapse(NothingSaved)
     ELSE pcWatch' = "stop" /\ UNCHANGED lapsed
  /\ UNCHANGED <<tboxVars, cfgFile, cfgMem, ChangeNetParmSave, ChangeNetParm, mNetState,
                 state, running, mRetryCount, queueVars, sock, target, threadVars, handVars,
                 sideVars, farVars, histVars>>

revertIPConfig ==
  /\ \/ RevertFile("revertFile", "revertLoad")
     \/ RevertLoad("revertLoad", "revertClear")
     \/ RevertClear("revertClear", "stop", 0)
  /\ UNCHANGED <<tboxVars, mNetState, state, running, queueVars, sock, target,
                 threadVars, handVars, sideVars, farVars, histVars>>

\* mutant: stop does not tell the loops to end
StopSilently ==
  /\ pcWatch = "stop"
  /\ pcWatch' = "join"
  /\ UNCHANGED <<tboxVars, confVars, mNetState, state, running, mRetryCount, queueVars,
                 sock, target, threadVars, handVars, sideVars, farVars, histVars>>

\* mutant: stop closes the socket before it waits for the threads
StopAndClose ==
  /\ pcWatch = "stop"
  /\ running' = FALSE /\ sock' = "closed" /\ pcWatch' = "join"
  /\ UNCHANGED <<tboxVars, confVars, mNetState, state, mRetryCount, queueVars, target,
                 threadVars, handVars, sideVars, farVars, histVars>>

Stop ==
  /\ pcWatch = "stop"
  /\ running' = FALSE /\ pcWatch' = "join"
  /\ UNCHANGED <<tboxVars, confVars, mNetState, state, mRetryCount, queueVars, sock,
                 target, threadVars, handVars, sideVars, farVars, histVars>>

\* mutant: stop waits for the reader alone
ReaderJoined == pcRecv = "exited"
\* stop waits for the reader and for the writer.
Joined == pcRecv = "exited" /\ pcSend = "exited"

Join ==
  /\ pcWatch = "join" /\ Joined
  /\ pcRecv' = "none" /\ pcSend' = "none"
  /\ sock' = "closed" /\ target' = NoAddr
  /\ peer' = "none" /\ platLogged' = FALSE /\ down' = <<>>
  /\ mNetState' = "NoConnect" /\ pcWatch' = "idle"
  /\ UNCHANGED <<tboxVars, confVars, state, running, mRetryCount, queueVars, readtimeout,
                 writetimeout, handVars, sideVars, histVars>>

-----------------------------------------------------------------------------
(* NetworkComm::recvFunc.  A read takes what the stream holds: several     *)
(* frames read at once are one message, of which parseMessage sees the     *)
(* first (the checksum of the whole is still right).                       *)

RecvRead ==
  /\ pcRecv = "loop" /\ running
  /\ Len(mRecvQueue) <= QueueBound
  /\ \E n \in 1..Len(down) : down' = SubSeq(down, n + 1, Len(down))
  /\ mRecvQueue' = Append(mRecvQueue, Head(down))
  /\ readtimeout' = 0
  /\ UNCHANGED <<tboxVars, confVars, mNetState, state, running, mRetryCount, mSendQueue,
                 sock, target, pcWatch, pcRecv, pcSend, writetimeout, handVars, sideVars,
                 peer, platLogged, histVars>>

Silent(n) == n >= PlatformRespTimeout

RecvNothing ==
  /\ pcRecv = "loop" /\ running
  /\ down = <<>>
  /\ readtimeout' = readtimeout + 1
  /\ IF Silent(readtimeout + 1)
     THEN setNetLose /\ pcRecv' = "drop"
     ELSE UNCHANGED <<pcWatch, pcRecv>>
  /\ UNCHANGED <<tboxVars, confVars, mNetState, state, running, mRetryCount, queueVars,
                 sock, target, pcSend, writetimeout, handVars, sideVars, farVars, histVars>>

\* setNetLose has returned, running is not yet false
RecvDrop ==
  /\ pcRecv = "drop"
  /\ running' = FALSE /\ pcRecv' = "loop"
  /\ UNCHANGED <<tboxVars, confVars, mNetState, state, mRetryCount, queueVars, sock, target,
                 pcWatch, pcSend, readtimeout, writetimeout, handVars, sideVars, farVars,
                 histVars>>

RecvExit ==
  /\ pcRecv = "loop" /\ ~running
  /\ pcRecv' = "exited" /\ readtimeout' = 0
  /\ UNCHANGED <<tboxVars, confVars, mNetState, state, running, mRetryCount, queueVars,
                 sock, target, pcWatch, pcSend, writetimeout, handVars, sideVars, farVars,
                 histVars>>

-----------------------------------------------------------------------------
(* NetworkComm::sendFunc.  A message is gone once it is dequeued, whether  *)
(* its write succeeds or not.                                              *)

\* What the platform does with message m: its answers, and whether it
\* holds the vehicle logged in.
Platform(m) ==
  \/ /\ m = "login" /\ target \in Serving
     /\ platLogged' = TRUE /\ accepted' = accepted \cup {target}
     /\ down' = Append(down, Answer("loginOk"))
  \/ /\ m = "login"
     /\ down' = Append(down, Answer("loginRej"))
     /\ UNCHANGED <<platLogged, accepted>>
  \/ /\ m = "timesync" /\ platLogged
     /\ down' = Append(down, Answer("timeOk"))
     /\ UNCHANGED <<platLogged, accepted>>
  \/ /\ m = "heartbeat" /\ platLogged
     /\ down' = Append(down, Answer("beat"))
     /\ UNCHANGED <<platLogged, accepted>>
  \/ /\ m = "logout" /\ platLogged
     /\ platLogged' = FALSE
     /\ down' = Append(down, Answer("logoutOk"))
     /\ UNCHANGED accepted
  \/ UNCHANGED <<platLogged, accepted, down>>

SendOk ==
  /\ pcSend = "loop" /\ running
  /\ mSendQueue # <<>> /\ Len(down) < StreamBound
  /\ mSendQueue' = Tail(mSendQueue)
  /\ writetimeout' = 0
  /\ IF peer = "up" THEN Platform(Head(mSendQueue))
                    ELSE UNCHANGED <<platLogged, accepted, down>>
  /\ UNCHANGED <<tboxVars, confVars, mNetState, state, running, mRetryCount, mRecvQueue,
                 sock, target, pcWatch, pcRecv, pcSend, readtimeout, handVars, sideVars,
                 peer, commands>>

SendFails ==
  /\ pcSend = "loop" /\ running
  /\ mSendQueue # <<>>
  /\ mSendQueue' = Tail(mSendQueue)
  /\ writetimeout' = writetimeout + 1
  /\ IF writetimeout + 1 > TerminalRespTimeout
     THEN setNetLose /\ pcSend' = "drop"
     ELSE UNCHANGED <<pcWatch, pcSend>>
  /\ UNCHANGED <<tboxVars, confVars, mNetState, state, running, mRetryCount, mRecvQueue,
                 sock, target, pcRecv, readtimeout, handVars, sideVars, farVars, histVars>>

\* mutant: the writer leaves its loop and running stays true
SendBreak ==
  /\ pcSend = "drop"
  /\ pcSend' = "exited" /\ writetimeout' = 0
  /\ UNCHANGED <<tboxVars, confVars, mNetState, state, running, mRetryCount, queueVars,
                 sock, target, pcWatch, pcRecv, readtimeout, handVars, sideVars, farVars,
                 histVars>>

SendDrop ==
  /\ pcSend = "drop"
  /\ running' = FALSE /\ pcSend' = "loop"
  /\ UNCHANGED <<tboxVars, confVars, mNetState, state, mRetryCount, queueVars, sock, target,
                 pcWatch, pcRecv, readtimeout, writetimeout, handVars, sideVars, farVars,
                 histVars>>

SendExit ==
  /\ pcSend = "loop" /\ ~running
  /\ pcSend' = "exited" /\ writetimeout' = 0
  /\ UNCHANGED <<tboxVars, confVars, mNetState, state, running, mRetryCount, queueVars,
                 sock, target, pcWatch, pcRecv, readtimeout, handVars, sideVars, farVars,
                 histVars>>

-----------------------------------------------------------------------------
(* RecvTask and Tbox::HandleMessage.                                       *)

RecvQueueDequeue ==
  /\ hand = NoMsg /\ mRecvQueue # <<>>
  /\ hand' = Head(mRecvQueue) /\ mRecvQueue' = Tail(mRecvQueue)
  /\ UNCHANGED <<tboxVars, confVars, mNetState, state, running, mRetryCount, mSendQueue,
                 sock, target, pcWatch, threadVars, pcHandle, parm, sideVars, farVars,
                 histVars>>

Handled ==
  /\ pcHandle = "handle" /\ hand' = NoMsg
  /\ UNCHANGED <<mSTR, testMode, mNetState, running, mRecvQueue, sock, target, threadVars,
                 pcHandle, parm, sideVars, farVars, histVars>>

\* A login accepted at the address in the file ends a lapse.
HandleLoginOk ==
  /\ hand = Answer("loginOk")
  /\ mState' = IF testMode THEN "Realtime" ELSE "UpReport"
  /\ mSendQueue' = Append(mSendQueue, "info")
  /\ network' = 1 /\ state' = 0 /\ mRetryCount' = 0
  /\ ChangeNetParm' = 0
  /\ lapsed' = (lapsed /\ ~(cfgFile \in accepted /\ cfgMem = cfgFile /\ ~UnderWay))
  /\ UNCHANGED <<cfgFile, cfgMem, ChangeNetParmSave, pcWatch>>
  /\ Handled

\* mutant: the response flag of a login answer is not looked at
HandleAnyLogin ==
  /\ hand = Answer("loginRej")
  /\ mState' = "UpReport"
  /\ UNCHANGED <<network, confVars, mRetryCount, state, mSendQueue, pcWatch>>
  /\ Handled

\* A revert here is one step: one of another thread writes the same address.
HandleLoginRej ==
  /\ hand = Answer("loginRej")
  /\ IF ChangeNetParm = 1
     THEN /\ UpdateParmConfig(ChangeNetParmSave)
          /\ cfgMem' = IF cfgFile = BadFile THEN cfgMem ELSE ChangeNetParmSave
          /\ ChangeNetParm' = 0 /\ mRetryCount' = 0
          /\ Lapse(NothingSaved)
          /\ UNCHANGED ChangeNetParmSave
     ELSE UNCHANGED <<confVars, mRetryCount>>
  /\ UNCHANGED <<mState, network, state, mSendQueue, pcWatch>>
  /\ Handled

HandleLogoutOk ==
  /\ hand = Answer("logoutOk")
  /\ mState' = "Logout"
  /\ setNetLose
  /\ UNCHANGED <<network, confVars, state, mRetryCount, mSendQueue>>
  /\ Handled

HandleTimeOk ==
  /\ hand = Answer("timeOk")
  /\ mState' = "Realtime"
  /\ UNCHANGED <<network, confVars, state, mRetryCount, mSendQueue, pcWatch>>
  /\ Handled

\* In test mode a property may ask for a logout when a heartbeat is answered.
HandleHeartbeat ==
  /\ hand = Answer("beat")
  /\ \/ UNCHANGED mSendQueue
     \/ testMode /\ mSendQueue' = Append(mSendQueue, "logout")
  /\ UNCHANGED <<mState, network, confVars, state, mRetryCount, pcWatch>>
  /\ Handled

\* A command is handled in steps, between which the watch thread may take its
\* own; one step reads or writes the whole file.
HandleStep(from, to) ==
  /\ pcHandle = from /\ pcHandle' = to
  /\ UNCHANGED <<tboxVars, mNetState, state, running, mRetryCount, mRecvQueue, sock, target,
                 threadVars, hand, sideVars, farVars, histVars>>

\* Command 0x81 writes its address into the file; one that names none writes the
\* address it has read, at this moment any.  No way back is promised when the
\* address there is itself still to be tried, or is being taken back.
ParmWrite ==
  /\ \E a \in Addrs : hand = ParmSet(a) /\ UpdateParmConfig(a)
  /\ Lapse(cfgFile \notin accepted \/ UnderWay)
  /\ UNCHANGED <<cfgMem, ChangeNetParmSave, ChangeNetParm, parm, mSendQueue, pcWatch>>
  /\ HandleStep("handle", "load")

ParmLoad ==
  /\ parm' \in LoadParmConfig
  /\ ChangeNetParm' = 0
  /\ UNCHANGED <<cfgFile, cfgMem, ChangeNetParmSave, lapsed, mSendQueue, pcWatch>>
  /\ HandleStep("load", "compare")

ParmCompare ==
  /\ ChangeNetParm' = IF parm # cfgMem THEN 1 ELSE ChangeNetParm
  /\ UNCHANGED <<cfgFile, cfgMem, ChangeNetParmSave, lapsed, parm, mSendQueue, pcWatch>>
  /\ HandleStep("compare", "save")

\* mutant: the address to go back to is taken from what was just read
NewAddress == parm
\* The address to go back to is the one the vehicle has been using.
OldAddress == cfgMem

ParmSave ==
  /\ ChangeNetParmSave' = IF ChangeNetParm = 1 THEN OldAddress ELSE ChangeNetParmSave
  /\ UNCHANGED <<cfgFile, cfgMem, ChangeNetParm, lapsed, parm, mSendQueue, pcWatch>>
  /\ HandleStep("save", "reply")

\* After a change the vehicle logs out and the link is dropped.
ParmReply ==
  /\ IF ChangeNetParm = 1 /\ LoggedOn
     THEN mSendQueue' = mSendQueue \o <<"info", "logout">> /\ setNetLose
     ELSE mSendQueue' = mSendQueue \o <<"info">> /\ UNCHANGED pcWatch
  /\ UNCHANGED <<confVars, parm>>
  /\ HandleStep("reply", "reload")

\* Command 0x82 answers first; most of its orders then log out.  START_SAMPLING
\* reads the file to write it back.  FACTORY_RESET empties the file, unless it
\* cannot be opened, and copies the vendor's.
HandleRemoteCtl ==
  /\ \/ /\ hand = Answer("remoteCmd")
        /\ mSendQueue' \in {mSendQueue \o <<"info">>, mSendQueue \o <<"info", "logout">>}
        /\ UNCHANGED <<cfgFile, parm>>
        /\ HandleStep("handle", "reload")
     \/ /\ hand = Answer("remoteCmd")
        /\ mSendQueue' = mSendQueue \o <<"info">>
        /\ parm' \in LoadParmConfig /\ UNCHANGED cfgFile
        /\ HandleStep("handle", "sample")
     \/ /\ hand = Answer("factoryReset")
        /\ mSendQueue' = mSendQueue \o <<"info", "logout">>
        /\ UNCHANGED parm
        /\ \/ cfgFile' = BadFile /\ HandleStep("handle", "copy")
           \/ UNCHANGED cfgFile /\ HandleStep("handle", "reload")
  /\ UNCHANGED <<cfgMem, ChangeNetParmSave, ChangeNetParm, lapsed, pcWatch>>

\* A revert between its read and its write is undone by START_SAMPLING.
SampleWrite ==
  /\ UpdateParmConfig(parm)
  /\ Lapse(cfgFile' # cfgFile)
  /\ UNCHANGED <<cfgMem, ChangeNetParmSave, ChangeNetParm, parm, mSendQueue, pcWatch>>
  /\ HandleStep("sample", "reload")

\* ResetConfigfile fails when the vendor's file cannot be opened: the emptied
\* file stays.
ResetCopy ==
  /\ cfgFile' \in {FactoryAddr, BadFile}
  /\ Lapse(cfgFile' \notin accepted)
  /\ UNCHANGED <<cfgMem, ChangeNetParmSave, ChangeNetParm, parm, mSendQueue, pcWatch>>
  /\ HandleStep("copy", "reload")

\* Both commands end by reading the file into memory.
CommandDone ==
  /\ vehicleConfigInit
  /\ pcHandle = "reload" /\ pcHandle' = "handle" /\ hand' = NoMsg /\ parm' = NoAddr
  /\ UNCHANGED <<tboxVars, cfgFile, ChangeNetParmSave, ChangeNetParm, lapsed, mNetState, state,
                 running, mRetryCount, queueVars, sock, target, pcWatch, threadVars, sideVars,
                 farVars, histVars>>

\* A command fails its validation.
RejectCommand ==
  /\ hand \in Commands
  /\ UNCHANGED <<mState, network, confVars, state, mRetryCount, mSendQueue, pcWatch>>
  /\ Handled

HandleParm == ParmWrite \/ ParmLoad \/ ParmCompare \/ ParmSave \/ ParmReply

HandleMessage ==
  \/ HandleLoginOk \/ HandleLoginRej \/ HandleLogoutOk \/ HandleTimeOk
  \/ HandleHeartbeat \/ HandleParm \/ HandleRemoteCtl \/ SampleWrite \/ ResetCopy
  \/ CommandDone \/ RejectCommand

-----------------------------------------------------------------------------
(* HeartTask, and SendTask before the first time answer.                   *)

PeriodicSend(when, m) ==
  /\ mState = when
  /\ Len(mSendQueue) <= QueueBound
  /\ mSendQueue' = Append(mSendQueue, m)
  /\ UNCHANGED <<tboxVars, confVars, mNetState, state, running, mRetryCount, mRecvQueue,
                 sock, target, pcWatch, threadVars, handVars, sideVars, farVars, histVars>>

HeartTask == PeriodicSend("Realtime", "heartbeat")
SendTask == PeriodicSend("UpReport", "timesync")

-----------------------------------------------------------------------------
(* WatchSOCPowerStateTask and the property events it waits for.            *)

\* onPropertyEvent: the SOC changes power state and notifies the callback
SocEvent ==
  /\ Len(mSendQueue) <= QueueBound
  /\ socPower' \in SocStates \ {socPower}
  /\ pcSoc' = IF pcSoc = "wait" THEN "read" ELSE pcSoc
  /\ UNCHANGED <<tboxVars, confVars, mNetState, state, running, mRetryCount, queueVars,
                 sock, target, pcWatch, threadVars, handVars, pcSample, farVars, histVars>>

getSOCPowerState ==
  /\ pcSoc = "read"
  /\ pcSoc' = socPower
  /\ UNCHANGED <<tboxVars, confVars, mNetState, state, running, mRetryCount, queueVars,
                 sock, target, pcWatch, threadVars, handVars, socPower, pcSample,
                 farVars, histVars>>

SocWakeup ==
  /\ pcSoc = "awake"
  /\ mSTR' = 0 /\ pcSoc' = "wait"
  /\ UNCHANGED <<mState, network, testMode, confVars, mNetState, state, running, mRetryCount,
                 queueVars, sock, target, pcWatch, threadVars, handVars, socPower, pcSample,
                 farVars, histVars>>

\* sendLogoutMessage, then STR mode
SocSleep ==
  /\ pcSoc = "sleep"
  /\ mSendQueue' = IF LoggedOn THEN Append(mSendQueue, "logout") ELSE mSendQueue
  /\ mSTR' = 1 /\ pcSoc' = "wait"
  /\ UNCHANGED <<mState, network, testMode, confVars, mNetState, state, running, mRetryCount,
                 mRecvQueue, sock, target, pcWatch, threadVars, handVars, socPower, pcSample,
                 farVars, histVars>>

-----------------------------------------------------------------------------
(* WatchTaskSample, when sampling is on, calls Start for a connection of    *)
(* its own with the same configuration: when that fails to connect, it      *)
(* gives up a changed address of the platform.                              *)

SampleConnectFails ==
  /\ SampleLink
  /\ pcSample = "none" /\ pcSample' = "file"
  /\ ChangeNetParm = 1 /\ Lapse(NothingSaved)
  /\ UNCHANGED <<tboxVars, cfgFile, cfgMem, ChangeNetParmSave, ChangeNetParm, mNetState,
                 state, running, mRetryCount, queueVars, sock, target, pcWatch, threadVars,
                 handVars, pcSoc, socPower, farVars, histVars>>

SampleUndo ==
  /\ \/ /\ pcSample = "file" /\ pcSample' = "load"
        /\ UpdateParmConfig(ChangeNetParmSave) /\ UNCHANGED <<cfgMem, ChangeNetParm>>
     \/ /\ pcSample = "load" /\ pcSample' = "clear"
        /\ vehicleConfigInit /\ UNCHANGED <<cfgFile, ChangeNetParm>>
     \/ /\ pcSample = "clear" /\ pcSample' = "none"
        /\ ChangeNetParm' = 0 /\ UNCHANGED <<cfgFile, cfgMem>>
  /\ UNCHANGED <<tboxVars, ChangeNetParmSave, lapsed, mNetState, state, running, mRetryCount,
                 queueVars, sock, target, pcWatch, threadVars, handVars, pcSoc, socPower,
                 farVars, histVars>>

-----------------------------------------------------------------------------
(* The platform on its own.                                                *)

PlatformCommands ==
  /\ peer = "up" /\ platLogged
  /\ commands < CommandBound /\ Len(down) < StreamBound
  /\ \E m \in Commands : down' = Append(down, m)
  /\ commands' = commands + 1
  /\ UNCHANGED <<tboxVars, confVars, mNetState, state, running, mRetryCount, queueVars,
                 sock, target, pcWatch, threadVars, handVars, sideVars, peer, platLogged,
                 accepted>>

\* The far end closes or resets; a reset discards what was not read.
PeerGone ==
  /\ peer = "up"
  /\ peer' = "gone" /\ platLogged' = FALSE
  /\ down' \in {down, <<>>}
  /\ UNCHANGED <<tboxVars, confVars, mNetState, state, running, mRetryCount, queueVars,
                 sock, target, pcWatch, threadVars, handVars, sideVars, histVars>>

-----------------------------------------------------------------------------
(* The process ends at any point and is started again.  A file it cannot    *)
(* parse is removed at boot, and the vendor's for this site is copied.      *)

Restart ==
  /\ cfgFile' \in IF cfgFile = BadFile THEN Addrs ELSE {cfgFile}
  /\ mState' \in BootStates /\ mSTR' = 0 /\ network' = 0
  /\ cfgMem' = cfgFile' /\ ChangeNetParmSave' = NoAddr /\ ChangeNetParm' \in BootChangeNetParm
  /\ mNetState' = "NoConnect" /\ state' = 0 /\ running' = TRUE /\ mRetryCount' = 0
  /\ mSendQueue' = <<>> /\ mRecvQueue' = <<>> /\ sock' = "closed" /\ target' = NoAddr
  /\ pcWatch' = "start" /\ pcRecv' = "none" /\ pcSend' = "none"
  /\ readtimeout' = 0 /\ writetimeout' = 0
  /\ pcSoc' = "wait" /\ pcSample' = "none"
  /\ hand' = NoMsg /\ pcHandle' = "handle" /\ parm' = NoAddr
  /\ peer' = "none" /\ platLogged' = FALSE /\ down' = <<>>
  /\ lapsed' = (cfgFile' \notin accepted)
  /\ UNCHANGED <<testMode, socPower, histVars>>

-----------------------------------------------------------------------------
Start == DnsFails \/ Resolve \/ ConnectFails \/ Undo \/ ConnectOk
           \/ SpawnRecv \/ SpawnSend
Idle == IdleService \/ IdleTest \/ EndDelay
TearDown == LinkLost \/ RevertIfSilent \/ revertIPConfig \/ Stop \/ Join
WatchTask == Start \/ Idle \/ getUpdateNetState \/ TearDown
recvFunc == RecvRead \/ RecvNothing \/ RecvDrop \/ RecvExit
sendFunc == SendOk \/ SendFails \/ SendDrop \/ SendExit
RecvTask == RecvQueueDequeue \/ HandleMessage
WatchSOCPowerStateTask == getSOCPowerState \/ SocWakeup \/ SocSleep
WatchTaskSample == SampleConnectFails \/ SampleUndo
Environment == SocEvent \/ SpuriousWakeup \/ PlatformCommands \/ PeerGone \/ Restart

Next == WatchTask \/ recvFunc \/ sendFunc \/ RecvTask \/ HeartTask \/ SendTask
          \/ WatchSOCPowerStateTask \/ WatchTaskSample \/ Environment

Spec == Init /\ [][Next]_vars

\* Every thread of the process is scheduled; nothing is assumed of the
\* platform, the network or the SOC.
Fairness ==
  /\ WF_vars(WatchTask) /\ WF_vars(recvFunc) /\ WF_vars(sendFunc) /\ WF_vars(RecvTask)
  /\ WF_vars(HeartTask) /\ WF_vars(SendTask) /\ WF_vars(WatchSOCPowerStateTask)

FairSpec == Spec /\ Fairness

-----------------------------------------------------------------------------
(* Properties.                                                             *)

Reading == pcRecv \in {"loop", "drop"}
Writing == pcSend \in {"loop", "drop"}

\* A reader or writer thread uses the socket only while it is open, and no
\* thread of an earlier connection is left when Start opens the next one, so
\* that Start never assigns to a thread that is still joinable
\* (NetworkComm::Start, NetworkComm::stop).
SocketOwned ==
  /\ pcRecv # "none" \/ pcSend # "none" => sock = "open"
  /\ pcWatch \in {"start", "connect", "undoFile", "undoLoad", "undoClear",
                  "idle", "delay", "longDelay"} =>
       sock = "closed" /\ pcRecv = "none" /\ pcSend = "none"
  /\ pcWatch = "spawnRecv" => pcRecv = "none" /\ pcSend = "none"
  /\ pcWatch = "spawnSend" => pcSend = "none"

\* A connection in use has both its threads: as long as no one has asked for
\* the end of it, the reader and the writer are in their loops.
LiveWhileRunning ==
  mNetState = "Connected" /\ running => Reading /\ Writing

\* Reports, time requests and heartbeats are for a platform that accepted a
\* login: the states that send them are entered only after HandleMessage saw
\* an accepted login and told the vehicle that the TBOX is on line.
OnlineAfterLogin == mState \in {"UpReport", "Realtime"} => network = 1

\* Who reads and writes through the socket, and who has finished with it.
Using == (IF Reading THEN {"recv"} ELSE {}) \cup (IF Writing THEN {"send"} ELSE {})
Done == (IF pcRecv = "exited" THEN {"recv"} ELSE {})
          \cup (IF pcSend = "exited" THEN {"send"} ELSE {})

Sockets == INSTANCE SocketUse WITH
  Users <- {"recv", "send"}, open <- sock = "open", using <- Using, done <- Done,
  begins <- pcWatch = "start"

\* Every connection is opened once, gets one reader and one writer, and is
\* closed after both have ended, or with the process (Start, recvFunc, sendFunc, stop).
ImplementsSocketUse == Sockets!SpecWithExit

\* An address that once accepted a login stays within reach: the one in the
\* configuration file, the one a revert goes back to, or, while 0x81 is handled,
\* the one in memory that is about to be saved.  The exceptions are a reset under
\* way and the lapses: a second change before the first was tried, a change, a
\* write-back or a revert that falls into another's, a reset that fails or brings
\* an untried address, and a restart, which forgets the address to go back to.
KnownGoodReachable ==
  \/ lapsed \/ pcHandle = "copy"
  \/ cfgFile \in accepted
  \/ ChangeNetParm = 1 /\ ChangeNetParmSave \in accepted
  \/ pcHandle \in Changing /\ cfgMem \in accepted

\* Once getUpdateNetState has returned, the connection is torn down: stop()
\* does not wait for ever for the reader and the writer.
TeardownCompletes ==
  pcWatch \in {"lost", "revert", "stop", "join"} ~> mNetState = "NoConnect"

\* A vehicle that has left STR mode for good never stays disconnected without
\* trying to connect.
AwakeReconnects ==
  <>[](mSTR = 0) => []<>(mNetState = "Connected" \/ pcWatch = "start")

\* A reader or writer that gives up on the connection gets it torn down: the
\* loops end a connection they find broken ("判断连接断开", networkcomm.cpp:348).
BrokenLinkNoticed == mNetState = "Connected" /\ ~running ~> mNetState = "NoConnect"
=============================================================================
