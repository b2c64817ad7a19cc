----------------------------- MODULE RemoteHavc -----------------------------
(***************************************************************************)
(* Remote commands and the reference count that keeps the vehicle awake    *)
(* while they are carried out: Tbox::HandleMessage, which runs in RecvTask *)
(* ("recv"), and HavcThread ("havc"), the detached thread that runs the    *)
(* air conditioning until its time is over or a command stops it.          *)
(*                                                                         *)
(* vehicleKeepAwake holds its mutex for the increment and the decrement    *)
(* only; it reads the count before and after without the mutex.  A call is *)
(* therefore several steps, and keepAwake says how far each thread is in   *)
(* one.  The wait of getHaveWorkState has no predicate.                    *)
(***************************************************************************)
EXTENDS Naturals

CONSTANTS
  Prompt,    \* RecvTask gets to its wait within the worker's sleeps of a second or more
  RefBound   \* bound: from this count on only commands that give theirs back are taken

ASSUME RemoteAssumption == Prompt \in BOOLEAN /\ RefBound \in Nat \ {0}

Threads == {"recv", "havc"}

\* "paired" commands always release the vehicle; "guarded" ones (0xA0, 0xA2,
\* 0xA5, 0xA9, 0xAA) leave the handler when their validation fails.
Commands == {"paired", "guarded", "hvac"}

VARIABLES
  wakeUpRef, awakeReq, keepAwake,           \* vehicleKeepAwake
  mRemoteHavcReq, mNeedRefresh, acSwitch,   \* RemoteHavcCtl
  mThreads, pcHavc,                         \* HavcThread
  pcRecv, cmd, fresh                        \* HandleMessage and its locals

reqVars == <<mRemoteHavcReq, mNeedRefresh, acSwitch>>
refVars == <<wakeUpRef, awakeReq>>
havcVars == <<mThreads, pcHavc>>
recvVars == <<pcRecv, cmd, fresh>>
vars == <<refVars, keepAwake, reqVars, havcVars, recvVars>>

RecvPc == {"idle", "check", "open", "opened", "closing", "enterWait", "wait", "woken"}
HavcPc == {"none", "power", "settle", "loop", "refresh", "reset", "check", "ending",
           "off", "down", "exit", "quit"}
CallPc == {"out", "inc", "read1", "set1", "pos", "dec", "read0", "set0"}

TypeOK ==
  /\ wakeUpRef \in Nat /\ awakeReq \in {0, 1} /\ keepAwake \in [Threads -> CallPc]
  /\ mRemoteHavcReq \in {0, 1} /\ mNeedRefresh \in {0, 1} /\ acSwitch \in {0, 1, 255}
  /\ mThreads \in {0, 1} /\ pcHavc \in HavcPc
  /\ pcRecv \in RecvPc /\ cmd \in Commands \cup {"none", "on", "off", "failed"}
  /\ fresh \in BOOLEAN

Init ==
  /\ wakeUpRef = 0 /\ awakeReq = 0 /\ keepAwake = [t \in Threads |-> "out"]
  /\ mRemoteHavcReq = 0 /\ mNeedRefresh = 0 /\ acSwitch = 0
  /\ mThreads = 0 /\ pcHavc = "none"
  /\ pcRecv = "idle" /\ cmd = "none" /\ fresh = FALSE

-----------------------------------------------------------------------------
(* RemoteHavcCtl::vehicleKeepAwake.                                        *)

Free(t) == keepAwake[t] = "out"
Call(t, pc) == keepAwake' = [keepAwake EXCEPT ![t] = pc]

Increment(t) ==
  /\ keepAwake[t] = "inc"
  /\ wakeUpRef' = wakeUpRef + 1 /\ Call(t, "read1")
  /\ UNCHANGED awakeReq

\* Only the first reference asks for the vehicle to be kept awake.
ReadAfterIncrement(t) ==
  /\ keepAwake[t] = "read1"
  /\ Call(t, IF wakeUpRef = 1 THEN "set1" ELSE "out")
  /\ UNCHANGED refVars

RequestAwake(t) ==
  /\ keepAwake[t] = "set1"
  /\ awakeReq' = 1 /\ Call(t, "out")
  /\ UNCHANGED wakeUpRef

ReadBeforeDecrement(t) ==
  /\ keepAwake[t] = "pos"
  /\ Call(t, IF wakeUpRef > 0 THEN "dec" ELSE "read0")
  /\ UNCHANGED refVars

Decrement(t) ==
  /\ keepAwake[t] = "dec"
  /\ wakeUpRef' = wakeUpRef - 1 /\ Call(t, "read0")
  /\ UNCHANGED awakeReq

\* mutant: the request ends with the last reference but one
ReadLastButOne(t) ==
  /\ keepAwake[t] = "read0"
  /\ Call(t, IF wakeUpRef = 1 THEN "set0" ELSE "out")
  /\ UNCHANGED refVars

ReadAfterDecrement(t) ==
  /\ keepAwake[t] = "read0"
  /\ Call(t, IF wakeUpRef = 0 THEN "set0" ELSE "out")
  /\ UNCHANGED refVars

RequestSleep(t) ==
  /\ keepAwake[t] = "set0"
  /\ awakeReq' = 0 /\ Call(t, "out")
  /\ UNCHANGED wakeUpRef

vehicleKeepAwake(t) ==
  /\ \/ Increment(t) \/ ReadAfterIncrement(t) \/ RequestAwake(t)
     \/ ReadBeforeDecrement(t) \/ Decrement(t) \/ ReadAfterDecrement(t) \/ RequestSleep(t)
  /\ UNCHANGED <<reqVars, havcVars, recvVars>>

-----------------------------------------------------------------------------
(* Tbox::HandleMessage, in RecvTask.                                       *)

Receive ==
  /\ pcRecv = "idle" /\ Free("recv")
  /\ cmd' \in IF wakeUpRef < RefBound THEN Commands ELSE {"paired"}
  /\ pcRecv' = "check" /\ Call("recv", "inc")
  /\ UNCHANGED <<refVars, reqVars, havcVars, fresh>>

\* setSTRWorkReq(gecko_tbox_no_work_req) at the end of a handler
Release ==
  /\ pcRecv' = "idle" /\ cmd' = "none" /\ Call("recv", "pos")
  /\ UNCHANGED <<refVars, havcVars, fresh>>

\* The handler is left without it.
Leave ==
  /\ pcRecv' = "idle" /\ cmd' = "none"
  /\ UNCHANGED <<refVars, keepAwake, havcVars, fresh>>

At(pc) == pcRecv = pc /\ Free("recv")

ShortCommand ==
  /\ At("check") /\ cmd \in {"paired", "guarded"}
  /\ Release
  /\ UNCHANGED reqVars

Invalid ==
  /\ At("check") /\ cmd \in {"guarded", "hvac"}
  /\ Leave
  /\ UNCHANGED reqVars

\* 0xA8 with air_conditioning_switch = 1: remoteHavcThreadsSize is read
HvacOn ==
  /\ At("check") /\ cmd = "hvac"
  /\ acSwitch' = 1 /\ fresh' = (mThreads = 0)
  /\ pcRecv' = "open" /\ cmd' = "on"
  /\ UNCHANGED <<refVars, keepAwake, mRemoteHavcReq, mNeedRefresh, havcVars>>

\* PreCondition fails, RemoteHavcOpen returns 1.
OpenRefused ==
  /\ At("open")
  /\ mRemoteHavcReq' = IF fresh THEN 0 ELSE mRemoteHavcReq
  /\ Release
  /\ UNCHANGED <<mNeedRefresh, acSwitch>>

OpenRequested ==
  /\ At("open")
  /\ mRemoteHavcReq' = 1 /\ pcRecv' = "opened"
  /\ UNCHANGED <<refVars, keepAwake, mNeedRefresh, acSwitch, havcVars, cmd, fresh>>

\* The command only switches defrosting off: RemoteHavcOpen returns 2.
OpenNeedless ==
  /\ At("opened") /\ mThreads = 0
  /\ Release
  /\ UNCHANGED reqVars

\* The worker starts with the high voltage off or already on.
OpenStarts ==
  /\ At("opened") /\ mThreads = 0
  /\ mThreads' = 1 /\ pcHavc' \in {"power", "settle"}
  /\ pcRecv' = "enterWait"
  /\ UNCHANGED <<refVars, keepAwake, reqVars, cmd, fresh>>

\* mutant: the requests for a refresh are counted
OpenRefreshesCounted ==
  /\ At("opened") /\ mThreads # 0
  /\ mNeedRefresh' = mNeedRefresh + 1 /\ pcRecv' = "enterWait"
  /\ UNCHANGED <<refVars, keepAwake, mRemoteHavcReq, acSwitch, havcVars, cmd, fresh>>

OpenRefreshes ==
  /\ At("opened") /\ mThreads # 0
  /\ mNeedRefresh' = 1 /\ pcRecv' = "enterWait"
  /\ UNCHANGED <<refVars, keepAwake, mRemoteHavcReq, acSwitch, havcVars, cmd, fresh>>

\* 0xA8 with another switch value: the first statement of RemoteHavcClose
HvacOff ==
  /\ At("check") /\ cmd = "hvac"
  /\ acSwitch' \in {0, 255}
  /\ mRemoteHavcReq' = 0 /\ pcRecv' = "closing" /\ cmd' = "off"
  /\ UNCHANGED <<refVars, keepAwake, mNeedRefresh, havcVars, fresh>>

\* No worker: RemoteHavcClose returns 1, which the caller that closes after a
\* failed open does not look at.
CloseNeedless ==
  /\ At("closing") /\ mThreads = 0
  /\ IF cmd = "off" THEN Release ELSE Leave
  /\ UNCHANGED reqVars

CloseWaits ==
  /\ At("closing") /\ mThreads # 0
  /\ pcRecv' = "enterWait"
  /\ UNCHANGED <<refVars, keepAwake, reqVars, havcVars, cmd, fresh>>

getHaveWorkState ==
  /\ pcRecv = "enterWait"
  /\ pcRecv' = "wait"
  /\ UNCHANGED <<refVars, keepAwake, reqVars, havcVars, cmd, fresh>>

SpuriousWakeup ==
  /\ pcRecv = "wait"
  /\ pcRecv' = "woken"
  /\ UNCHANGED <<refVars, keepAwake, reqVars, havcVars, cmd, fresh>>

\* mutant: the handler releases the vehicle whatever the worker still does
AnsweredAndReleased ==
  /\ pcRecv = "woken"
  /\ Release
  /\ UNCHANGED reqVars

\* The feedback is read and the answer sent; ret is 0, so nothing is released.
Answered ==
  /\ pcRecv = "woken"
  /\ Leave
  /\ UNCHANGED reqVars

\* A first open without feedback is closed again.
OpenFailed ==
  /\ pcRecv = "woken" /\ cmd = "on" /\ fresh
  /\ mRemoteHavcReq' = 0 /\ pcRecv' = "closing" /\ cmd' = "failed"
  /\ UNCHANGED <<refVars, keepAwake, mNeedRefresh, acSwitch, havcVars, fresh>>

HandleMessage ==
  \/ Receive \/ ShortCommand \/ Invalid
  \/ HvacOn \/ OpenRefused \/ OpenRequested \/ OpenNeedless \/ OpenStarts \/ OpenRefreshes
  \/ HvacOff \/ CloseNeedless \/ CloseWaits
  \/ getHaveWorkState \/ Answered \/ OpenFailed

-----------------------------------------------------------------------------
(* RemoteHavcCtl::HavcThread.                                              *)

\* setHavcWork: notify_one
setHavcWork == pcRecv' = IF pcRecv = "wait" THEN "woken" ELSE pcRecv

\* The end of a sleep of a second or more
LongSleepOver == Prompt => pcRecv \notin {"opened", "closing", "enterWait"}

\* The high voltage comes up within six seconds, or does not.
PowerUp ==
  /\ pcHavc = "power"
  /\ pcHavc' = "settle"
  /\ UNCHANGED <<refVars, keepAwake, reqVars, mThreads, recvVars>>

PowerFails ==
  /\ pcHavc = "power" /\ LongSleepOver
  /\ setHavcWork /\ pcHavc' = "quit"
  /\ UNCHANGED <<refVars, keepAwake, reqVars, mThreads, cmd, fresh>>

Settled ==
  /\ pcHavc = "settle" /\ LongSleepOver
  /\ setHavcWork /\ pcHavc' = "loop"
  /\ UNCHANGED <<refVars, keepAwake, reqVars, mThreads, cmd, fresh>>

Loop ==
  /\ pcHavc = "loop"
  /\ pcHavc' = IF mNeedRefresh = 1 THEN "refresh" ELSE "check"
  /\ UNCHANGED <<refVars, keepAwake, reqVars, mThreads, recvVars>>

Refreshed ==
  /\ pcHavc = "refresh" /\ LongSleepOver
  /\ IF acSwitch # 0 THEN setHavcWork ELSE UNCHANGED pcRecv
  /\ pcHavc' = "reset"
  /\ UNCHANGED <<refVars, keepAwake, reqVars, mThreads, cmd, fresh>>

Reset ==
  /\ pcHavc = "reset"
  /\ mNeedRefresh' = 0 /\ pcHavc' = "check" /\ Call("havc", "pos")
  /\ UNCHANGED <<refVars, mRemoteHavcReq, acSwitch, mThreads, recvVars>>

\* mutant: the request is not looked at again once the worker runs
Heedless == FALSE
StopRequested == mRemoteHavcReq = 0

\* A door, the battery or the time also end the work.
Check ==
  /\ pcHavc = "check" /\ Free("havc")
  /\ pcHavc' \in IF StopRequested THEN {"ending"} ELSE {"ending", "loop"}
  /\ UNCHANGED <<refVars, keepAwake, reqVars, mThreads, recvVars>>

Ending ==
  /\ pcHavc = "ending"
  /\ mNeedRefresh' = 0 /\ pcHavc' = "off"
  /\ UNCHANGED <<refVars, keepAwake, mRemoteHavcReq, acSwitch, mThreads, recvVars>>

SwitchOff ==
  /\ pcHavc = "off"
  /\ setHavcWork /\ pcHavc' = "down"
  /\ UNCHANGED <<refVars, keepAwake, reqVars, mThreads, cmd, fresh>>

Down ==
  /\ pcHavc = "down" /\ LongSleepOver
  /\ pcHavc' = "exit" /\ Call("havc", "pos")
  /\ UNCHANGED <<refVars, reqVars, mThreads, recvVars>>

Exit ==
  /\ pcHavc \in {"exit", "quit"} /\ Free("havc")
  /\ mThreads' = 0 /\ pcHavc' = "none"
  /\ UNCHANGED <<refVars, keepAwake, reqVars, recvVars>>

HavcThread ==
  \/ PowerUp \/ PowerFails \/ Settled \/ Loop \/ Refreshed \/ Reset \/ Check
  \/ Ending \/ SwitchOff \/ Down \/ Exit

Next ==
  \/ \E t \in Threads : vehicleKeepAwake(t)
  \/ HandleMessage \/ HavcThread \/ SpuriousWakeup

Spec == Init /\ [][Next]_vars

\* Both threads are scheduled, in and out of vehicleKeepAwake.
FairSpec ==
  /\ Spec
  /\ WF_vars(HandleMessage \/ vehicleKeepAwake("recv"))
  /\ WF_vars(HavcThread \/ vehicleKeepAwake("havc"))

-----------------------------------------------------------------------------
(* Properties.                                                             *)

\* The references that someone still counts on: the handler's until it is
\* released or handed to the worker, the worker's until its last call, and
\* one for each refresh that is asked for or being released.
Releasing(t) == keepAwake[t] \in {"pos", "dec"}
RecvHolds ==
  \/ pcRecv \in {"check", "open", "opened"} /\ keepAwake["recv"] # "inc"
  \/ pcRecv = "closing" /\ cmd = "off"
  \/ Releasing("recv")
HavcHolds ==
  \/ pcHavc \notin {"none", "exit", "quit"}
  \/ pcHavc = "exit" /\ Releasing("havc")
RefreshReleasing == pcHavc = "check" /\ Releasing("havc")
One(P) == IF P THEN 1 ELSE 0
Holders == One(RecvHolds) + One(HavcHolds) + One(RefreshReleasing) + mNeedRefresh

\* No release gives back a reference that another command or the worker still
\* counts on, so the count never goes below zero and never reaches zero under
\* a command that is being carried out (vehicleKeepAwake and its callers).
HeldWhileWorking == wakeUpRef >= Holders

\* A vehicle with no reference is not asked to stay awake once the calls that
\* are under way have returned, in whatever order they read and wrote.
AtRestAsleep ==
  wakeUpRef = 0 /\ (\A t \in Threads : Free(t)) => awakeReq = 0

\* A worker that was told to stop ends, unless it is told to go on.
CloseEndsWorker ==
  mRemoteHavcReq = 0 /\ pcHavc # "none" ~> pcHavc = "none" \/ mRemoteHavcReq = 1

\* "发送空调响应状态给服务端" (RemoteHavcCtl.cpp:226): a command that waits
\* for the worker is answered.
HvacAnswered == pcRecv = "wait" ~> pcRecv = "idle"
=============================================================================
