----------------------------- MODULE HeatControl -----------------------------
(***************************************************************************)
(* The three remote heaters and the high voltage they share: the seat      *)
(* (RemoteSeatHeatCtl), the steering wheel (RemoteSteerWheelHeatCtl) and   *)
(* the air conditioning (the part of HavcThread that RemoteHavc leaves     *)
(* out).  Every command gets a detached thread.  A thread that switches a  *)
(* heater on first brings the high voltage up; one that switches a heater  *)
(* off waits a second, reads the three states one after the other and      *)
(* takes the high voltage down when it has seen none of them on.  No lock  *)
(* covers the reading and the request.                                     *)
(*                                                                         *)
(* The seat and the wheel have a thread per command, the air conditioning  *)
(* one that switches on, works and switches off again when its time is     *)
(* over, a door opens or a command stops it.  RecvTask handles one command *)
(* at a time and waits for the seat and the wheel on a condition variable  *)
(* without a predicate; its wait for the air conditioning is in RemoteHavc.*)
(***************************************************************************)
EXTENDS Naturals

CONSTANT VehiclePrompt   \* a heater's state follows its request within the second's sleep

ASSUME HeatAssumption == VehiclePrompt \in BOOLEAN

Heaters == {"seat", "wheel", "ac"}

VARIABLES
  request, status,          \* what was last asked of a heater, what its feedback says
  powerCtl, power, gaveUp,  \* GECKO_CCU_REMTPOWERCTRLFB, what BCM and VCU tell, a raise was given up
  mThreads, pc, seen,       \* the threads; some state that was read was not 0
  pcRecv, target,           \* HandleMessage and the heater of its command
  steady                    \* history: the heaters that have worked since a thread began to read

heatVars == <<request, status, powerCtl, power, gaveUp>>
threadVars == <<mThreads, pc, seen, steady>>
recvVars == <<pcRecv, target>>
vars == <<heatVars, threadVars, recvVars>>

OnPc == {"start", "up", "raise", "switch"}
OffPc == {"off", "sleep", "seat", "wheel", "ac", "down"}
Pc == {"none", "run", "exit"} \cup OnPc \cup OffPc

TypeOK ==
  /\ request \in [Heaters -> BOOLEAN] /\ status \in [Heaters -> BOOLEAN]
  /\ powerCtl \in {"none", "up", "down"} /\ power \in BOOLEAN /\ gaveUp \in BOOLEAN
  /\ mThreads \in [Heaters -> {0, 1}] /\ pc \in [Heaters -> Pc]
  /\ seen \in [Heaters -> BOOLEAN] /\ steady \in [Heaters -> SUBSET Heaters]
  /\ pcRecv \in {"idle", "enterWait", "wait", "woken"} /\ target \in Heaters \cup {"none"}

Init ==
  /\ request = [h \in Heaters |-> FALSE] /\ status = [h \in Heaters |-> FALSE]
  /\ powerCtl = "none" /\ power = FALSE /\ gaveUp = FALSE
  /\ mThreads = [h \in Heaters |-> 0] /\ pc = [h \in Heaters |-> "none"]
  /\ seen = [h \in Heaters |-> FALSE] /\ steady = [h \in Heaters |-> {}]
  /\ pcRecv = "idle" /\ target = "none"

-----------------------------------------------------------------------------
(* Tbox::HandleMessage, in RecvTask: 0xB0, 0xB1 and 0xA8.                  *)

\* Of the air conditioning only the command that starts its thread matters here:
\* what the others say to a running thread is in RemoteHavc.
Waits(h) ==
  IF h = "ac" THEN UNCHANGED recvVars ELSE pcRecv' = "enterWait" /\ target' = h

StartCMD(h, on) ==
  /\ pcRecv = "idle" /\ mThreads[h] = 0 /\ (h = "ac" => on)
  /\ mThreads' = [mThreads EXCEPT ![h] = 1]
  /\ pc' = [pc EXCEPT ![h] = IF on THEN "start" ELSE "off"]
  /\ Waits(h)
  /\ UNCHANGED <<heatVars, seen, steady>>

\* A command that finds the thread of an earlier one is logged and dropped.
CommandDropped(h) ==
  /\ pcRecv = "idle" /\ mThreads[h] # 0 /\ h # "ac"
  /\ Waits(h)
  /\ UNCHANGED <<heatVars, threadVars>>

waitingForState ==
  /\ pcRecv = "enterWait"
  /\ pcRecv' = "wait"
  /\ UNCHANGED <<heatVars, threadVars, target>>

SpuriousWakeup ==
  /\ pcRecv = "wait"
  /\ pcRecv' = "woken"
  /\ UNCHANGED <<heatVars, threadVars, target>>

\* The feedback is polled for two seconds at most, the answer sent.
Answered ==
  /\ pcRecv = "woken"
  /\ pcRecv' = "idle" /\ target' = "none"
  /\ UNCHANGED <<heatVars, threadVars>>

HandleMessage ==
  \/ \E h \in Heaters : CommandDropped(h) \/ \E on \in BOOLEAN : StartCMD(h, on)
  \/ waitingForState \/ Answered

-----------------------------------------------------------------------------
(* seatHeatCMDThread, steerWheelHeatCMDThread and HavcThread.              *)

\* notify_one, lost unless the handler of this heater's command waits
notifyState(h) ==
  pcRecv' = IF pcRecv = "wait" /\ target = h THEN "woken" ELSE pcRecv
Goto(h, to) == pc' = [pc EXCEPT ![h] = to]

\* The battery is low, or the vehicle is neither off nor powered remotely.
Refused(h) ==
  /\ pc[h] = "start" /\ h # "ac"
  /\ notifyState(h) /\ Goto(h, "exit")
  /\ UNCHANGED <<heatVars, mThreads, seen, steady, target>>

Started(h) ==
  /\ pc[h] = "start"
  /\ Goto(h, IF power THEN "switch" ELSE "up")
  /\ UNCHANGED <<heatVars, mThreads, seen, steady, recvVars>>

RequestUp(h) ==
  /\ pc[h] = "up"
  /\ powerCtl' = "up" /\ gaveUp' = FALSE /\ Goto(h, "raise")
  /\ UNCHANGED <<request, status, power, mThreads, seen, steady, recvVars>>

Raised(h) ==
  /\ pc[h] = "raise" /\ power
  /\ Goto(h, "switch")
  /\ UNCHANGED <<heatVars, mThreads, seen, steady, recvVars>>

\* mutant: pop_back without the return after it
NotRaisedPopped(h) ==
  /\ pc[h] = "raise" /\ ~power
  /\ gaveUp' = TRUE /\ notifyState(h) /\ Goto(h, "exit")
  /\ mThreads' = [mThreads EXCEPT ![h] = mThreads[h] - 1]
  /\ UNCHANGED <<request, status, powerCtl, power, seen, steady, target>>

\* mutant: the thread that gives up does not tell the handler
NotRaisedSilent(h) ==
  /\ pc[h] = "raise" /\ ~power
  /\ gaveUp' = TRUE /\ Goto(h, "exit")
  /\ UNCHANGED <<request, status, powerCtl, power, mThreads, seen, steady, recvVars>>

\* Six seconds without the high voltage; the request stays.
NotRaised(h) ==
  /\ pc[h] = "raise" /\ ~power
  /\ gaveUp' = TRUE /\ notifyState(h) /\ Goto(h, "exit")
  /\ UNCHANGED <<request, status, powerCtl, power, mThreads, seen, steady, target>>

SwitchOn(h) ==
  /\ pc[h] = "switch"
  /\ request' = [request EXCEPT ![h] = TRUE]
  /\ notifyState(h) /\ Goto(h, IF h = "ac" THEN "run" ELSE "exit")
  /\ UNCHANGED <<status, powerCtl, power, gaveUp, mThreads, seen, steady, target>>

\* By command, or when the air conditioning has worked long enough.
SwitchOff(h) ==
  /\ pc[h] \in {"off", "run"}
  /\ request' = [request EXCEPT ![h] = FALSE]
  /\ steady' = [g \in Heaters |-> steady[g] \ {h}]
  /\ notifyState(h) /\ Goto(h, "sleep")
  /\ UNCHANGED <<status, powerCtl, power, gaveUp, mThreads, seen, target>>

\* mutant: the states are read without waiting for the vehicle
NotSlept(h) ==
  /\ pc[h] = "sleep"
  /\ steady' = [steady EXCEPT ![h] = {g \in Heaters : request[g] /\ status[g]}]
  /\ Goto(h, "seat")
  /\ UNCHANGED <<heatVars, mThreads, seen, recvVars>>

Slept(h) ==
  /\ pc[h] = "sleep" /\ (VehiclePrompt => status[h] = request[h])
  /\ steady' = [steady EXCEPT ![h] = {g \in Heaters : request[g] /\ status[g]}]
  /\ Goto(h, "seat")
  /\ UNCHANGED <<heatVars, mThreads, seen, recvVars>>

Forget(h) ==
  seen' = [seen EXCEPT ![h] = FALSE] /\ steady' = [steady EXCEPT ![h] = {}]

\* mutant: the air conditioning is not asked
SeesNot(h) == ~seen[h]
\* All three states have been read and were 0.
SeesAllOff(h) == ~seen[h] /\ ~status["ac"]

\* getMaiDrvrSeatSt, getSteerWhlHeatSts
ReadStatus(h) ==
  /\ pc[h] \in {"seat", "wheel"}
  /\ seen' = [seen EXCEPT ![h] = seen[h] \/ status[pc[h]]]
  /\ Goto(h, IF pc[h] = "seat" THEN "wheel" ELSE "ac")
  /\ UNCHANGED <<heatVars, mThreads, steady, recvVars>>

\* getACPowerFb, and the test of the three
ReadAndDecide(h) ==
  /\ pc[h] = "ac"
  /\ IF SeesAllOff(h)
     THEN Goto(h, "down") /\ UNCHANGED <<seen, steady>>
     ELSE Goto(h, "exit") /\ Forget(h)
  /\ UNCHANGED <<heatVars, mThreads, recvVars>>

RequestDown(h) ==
  /\ pc[h] = "down"
  /\ powerCtl' = "down" /\ gaveUp' = FALSE /\ Goto(h, "exit") /\ Forget(h)
  /\ UNCHANGED <<request, status, power, mThreads, recvVars>>

Exit(h) ==
  /\ pc[h] = "exit"
  /\ mThreads' = [mThreads EXCEPT ![h] = mThreads[h] - 1] /\ Goto(h, "none")
  /\ UNCHANGED <<heatVars, seen, steady, recvVars>>

Thread(h) ==
  \/ Refused(h) \/ Started(h) \/ RequestUp(h) \/ Raised(h) \/ NotRaised(h) \/ SwitchOn(h)
  \/ SwitchOff(h) \/ Slept(h) \/ ReadStatus(h) \/ ReadAndDecide(h)
  \/ RequestDown(h) \/ Exit(h)

-----------------------------------------------------------------------------
(* The vehicle: heaters and high voltage do what they were last asked to.  *)

HeaterFollows(h) ==
  /\ status[h] # request[h]
  /\ status' = [status EXCEPT ![h] = request[h]]
  /\ UNCHANGED <<request, powerCtl, power, gaveUp, threadVars, recvVars>>

PowerFollows ==
  /\ powerCtl # "none" /\ power # (powerCtl = "up")
  /\ power' = (powerCtl = "up")
  /\ UNCHANGED <<request, status, powerCtl, gaveUp, threadVars, recvVars>>

Vehicle == PowerFollows \/ \E h \in Heaters : HeaterFollows(h)

Next ==
  \/ HandleMessage \/ SpuriousWakeup
  \/ \E h \in Heaters : Thread(h)
  \/ Vehicle

Spec == Init /\ [][Next]_vars

\* Every thread is scheduled and the vehicle follows; nothing makes the platform
\* send a command.
FairSpec ==
  /\ Spec
  /\ WF_vars(waitingForState \/ Answered)
  /\ \A h \in Heaters : WF_vars(Thread(h)) /\ WF_vars(HeaterFollows(h))
  /\ WF_vars(PowerFollows)

-----------------------------------------------------------------------------
(* Properties.                                                             *)

\* "下高压" (RemoteSeatHeatCtl.cpp:82): of threads that switch off at the same
\* time, at least one sees that nothing is on any more.  The high voltage that
\* was brought up is not left up when no heater is asked for and no thread is
\* on its way, unless the thread that asked for it gave up waiting.
Pending(h) == pc[h] \notin {"none", "exit"}
NotLeftUp ==
  powerCtl = "up" /\ ~gaveUp => \E h \in Heaters : request[h] \/ Pending(h)

\* A thread takes the high voltage down only if every heater that works has
\* come on, or was switched off and on again, since the thread began to read:
\* none is cut off that worked all along (seatHeatCMDThread, its last lines).
SteadyKept ==
  [][\A h \in Heaters : RequestDown(h) => steady[h] = {}]_vars

\* Every way through the threads tells the handler: one that waits for a
\* thread that has not reported yet returns to its messages.
Unreported(h) == pc[h] \in OnPc \cup {"off"}
CommandAnswered ==
  pcRecv = "wait" /\ Unreported(target) ~> pcRecv = "idle"
=============================================================================
