----------------------------- MODULE HeatProofs -----------------------------
(***************************************************************************)
(* Theorems about HeatControl: the types, that the high voltage is not     *)
(* left up, and that no thread cuts off a heater that worked while it      *)
(* read.  The last two rest on one invariant about the reading: what is    *)
(* on without being asked for belongs to a thread that still sleeps.       *)
(***************************************************************************)
EXTENDS HeatControl, TLAPS

Reading == {"seat", "wheel", "ac"}

\* Who has a thread, and what a thread that has switched off knows of its own
\* heater.
ThreadInv ==
  \A h \in Heaters :
    /\ mThreads[h] = IF pc[h] = "none" THEN 0 ELSE 1
    /\ pc[h] \in {"sleep", "down"} \cup Reading => ~request[h]
    /\ pc[h] = "run" => request[h]
    /\ pc[h] \notin Reading => ~seen[h]
    /\ VehiclePrompt /\ status[h] /\ ~request[h] => pc[h] = "sleep"

\* A thread that will take the high voltage down, will switch its heater on or
\* give up: as long as nothing is asked for, one of these is there.
Closes(h) ==
  \/ pc[h] \in {"raise", "switch", "off", "sleep", "down"}
  \/ pc[h] \in Reading /\ ~seen[h]
CloserInv ==
  VehiclePrompt /\ powerCtl = "up" /\ ~gaveUp /\ (\A h \in Heaters : ~request[h])
    => \E h \in Heaters : Closes(h)

\* Of the heaters that have worked since a thread began to read, those that it
\* has read were seen.
SteadyInv ==
  \A h, g \in Heaters :
    g \in steady[h] =>
      /\ request[g] /\ status[g] /\ pc[h] \in Reading
      /\ pc[h] = "wheel" /\ g = "seat" => seen[h]
      /\ pc[h] = "ac" /\ g # "ac" => seen[h]

IInv == TypeOK /\ ThreadInv /\ CloserInv /\ SteadyInv

\* The initial states satisfy the invariant.
LEMMA InitIInv == Init => IInv
<1> SUFFICES ASSUME Init PROVE IInv
  OBVIOUS
<1>1. TypeOK
  BY DEF Init, TypeOK, Pc, OnPc, OffPc, Heaters
<1>2. ThreadInv /\ CloserInv /\ SteadyInv
  BY DEF Init, ThreadInv, CloserInv, SteadyInv, Reading, Heaters
<1> QED
  BY <1>1, <1>2 DEF IInv

\* Every step keeps the types and what the threads know of themselves.
LEMMA StepThreads == TypeOK /\ ThreadInv /\ [Next]_vars => TypeOK' /\ ThreadInv'
<1> SUFFICES ASSUME TypeOK, ThreadInv, [Next]_vars PROVE TypeOK' /\ ThreadInv'
  OBVIOUS
<1> USE DEF TypeOK, ThreadInv, Reading, Pc, OnPc, OffPc, heatVars, threadVars, recvVars
<1>1. ASSUME NEW h \in Heaters, Thread(h) PROVE TypeOK' /\ ThreadInv'
  <2> USE <1>1 DEF notifyState, Goto, Forget
  <2>1. CASE Refused(h)
    BY <2>1 DEF Refused
  <2>2. CASE Started(h)
    BY <2>2 DEF Started
  <2>3. CASE RequestUp(h)
    BY <2>3 DEF RequestUp
  <2>4. CASE Raised(h)
    BY <2>4 DEF Raised
  <2>5. CASE NotRaised(h)
    BY <2>5 DEF NotRaised
  <2>6. CASE SwitchOn(h)
    BY <2>6 DEF SwitchOn
  <2>7. CASE SwitchOff(h)
    BY <2>7 DEF SwitchOff
  <2>8. CASE Slept(h)
    BY <2>8 DEF Slept
  <2>9. CASE ReadStatus(h)
    BY <2>9 DEF ReadStatus, Heaters
  <2>10. CASE ReadAndDecide(h)
    <3>1. CASE SeesAllOff(h)
      BY <2>10, <3>1 DEF ReadAndDecide, SeesAllOff
    <3>2. CASE ~SeesAllOff(h)
      BY <2>10, <3>2 DEF ReadAndDecide
    <3> QED
      BY <3>1, <3>2
  <2>11. CASE RequestDown(h)
    BY <2>11 DEF RequestDown
  <2>12. CASE Exit(h)
    BY <2>12 DEF Exit
  <2> QED
    BY <2>1, <2>2, <2>3, <2>4, <2>5, <2>6, <2>7, <2>8, <2>9, <2>10, <2>11, <2>12 DEF Thread
<1>2. CASE HandleMessage \/ SpuriousWakeup
  <2>1. ASSUME NEW h \in Heaters, NEW on \in BOOLEAN, StartCMD(h, on)
        PROVE TypeOK' /\ ThreadInv'
    BY <2>1 DEF StartCMD, Waits
  <2>2. ASSUME NEW h \in Heaters, CommandDropped(h) PROVE TypeOK' /\ ThreadInv'
    BY <2>2 DEF CommandDropped, Waits
  <2>3. CASE waitingForState
    BY <2>3 DEF waitingForState
  <2>4. CASE Answered
    BY <2>4 DEF Answered
  <2>5. CASE SpuriousWakeup
    BY <2>5 DEF SpuriousWakeup
  <2> QED
    BY <1>2, <2>1, <2>2, <2>3, <2>4, <2>5 DEF HandleMessage
<1>3. CASE Vehicle
  <2>1. CASE PowerFollows
    BY <2>1 DEF PowerFollows
  <2>2. ASSUME NEW h \in Heaters, HeaterFollows(h) PROVE TypeOK' /\ ThreadInv'
    BY <2>2 DEF HeaterFollows
  <2> QED
    BY <1>3, <2>1, <2>2 DEF Vehicle
<1>4. CASE UNCHANGED vars
  BY <1>4 DEF vars
<1> QED
  BY <1>1, <1>2, <1>3, <1>4 DEF Next

\* Only the threads' steps concern the other two parts of the invariant.
LEMMA StepCloser ==
  TypeOK /\ ThreadInv /\ CloserInv /\ [Next]_vars => CloserInv'
<1> SUFFICES ASSUME TypeOK, ThreadInv, CloserInv, [Next]_vars,
                    VehiclePrompt, powerCtl' = "up", ~gaveUp', \A h \in Heaters : ~request'[h]
             PROVE  \E h \in Heaters : Closes(h)'
  BY DEF CloserInv
<1> USE DEF TypeOK, Closes, Reading, heatVars, threadVars, recvVars
<1>1. ASSUME NEW h \in Heaters, Thread(h) PROVE \E g \in Heaters : Closes(g)'
  <2> USE DEF notifyState, Goto, Forget
  <2>1. CASE Refused(h)
    BY <2>1 DEF Refused, CloserInv
  <2>2. CASE Started(h)
    BY <2>2 DEF Started, CloserInv
  <2>3. CASE RequestUp(h)
    BY <2>3 DEF RequestUp
  <2>4. CASE Raised(h)
    BY <2>4 DEF Raised
  <2>5. CASE NotRaised(h)
    BY <2>5 DEF NotRaised
  <2>6. CASE SwitchOn(h)
    BY <2>6 DEF SwitchOn
  <2>7. CASE SwitchOff(h)
    BY <2>7 DEF SwitchOff
  <2>8. CASE Slept(h)
    <3>1. ~seen[h]
      BY <2>8 DEF Slept, ThreadInv
    <3> QED
      BY <2>8, <3>1 DEF Slept
  <2>9. CASE ReadStatus(h)
    <3>1. pc[h] \in Heaters
      BY <2>9 DEF ReadStatus, Heaters
    <3>2. CASE status[pc[h]]
      <4>1. pc[pc[h]] = "sleep"
        BY <2>9, <3>1, <3>2 DEF ReadStatus, ThreadInv
      <4>2. pc'[pc[h]] = "sleep"
        BY <2>9, <3>1, <4>1 DEF ReadStatus
      <4> QED
        BY <3>1, <4>2
    <3>3. CASE ~status[pc[h]]
      <4>1. seen' = seen
        BY <2>9, <3>3 DEF ReadStatus
      <4> QED
        BY <2>9, <4>1 DEF ReadStatus, CloserInv
    <3> QED
      BY <3>2, <3>3
  <2>10. CASE ReadAndDecide(h)
    <3>1. CASE SeesAllOff(h)
      BY <2>10, <3>1 DEF ReadAndDecide
    <3>2. CASE ~seen[h] /\ status["ac"]
      <4>1. pc["ac"] = "sleep" /\ "ac" \in Heaters
        BY <2>10, <3>2 DEF ReadAndDecide, ThreadInv, Heaters
      <4>2. pc'["ac"] = "sleep"
        BY <2>10, <4>1 DEF ReadAndDecide
      <4> QED
        BY <4>1, <4>2
    <3>3. CASE seen[h]
      <4>1. ~Closes(h) /\ ~SeesAllOff(h)
        BY <2>10, <3>3 DEF ReadAndDecide, SeesAllOff
      <4>2. PICK g \in Heaters : Closes(g)
        BY <2>10 DEF ReadAndDecide, CloserInv
      <4>3. Closes(g)'
        BY <2>10, <4>1, <4>2 DEF ReadAndDecide
      <4> QED
        BY <4>3
    <3> QED
      BY <3>1, <3>2, <3>3 DEF SeesAllOff
  <2>11. CASE RequestDown(h)
    BY <2>11 DEF RequestDown
  <2>12. CASE Exit(h)
    BY <2>12 DEF Exit, CloserInv
  <2> QED
    BY <1>1, <2>1, <2>2, <2>3, <2>4, <2>5, <2>6, <2>7, <2>8, <2>9, <2>10, <2>11, <2>12
       DEF Thread
<1>2. CASE HandleMessage \/ SpuriousWakeup
  <2>1. ASSUME NEW h \in Heaters, NEW on \in BOOLEAN, StartCMD(h, on)
        PROVE \E g \in Heaters : Closes(g)'
    <3>1. ~Closes(h)
      BY <2>1 DEF StartCMD, ThreadInv
    <3> QED
      BY <2>1, <3>1 DEF StartCMD, CloserInv
  <2>2. ASSUME NEW h \in Heaters, CommandDropped(h) PROVE \E g \in Heaters : Closes(g)'
    BY <2>2 DEF CommandDropped, CloserInv
  <2>3. CASE waitingForState
    BY <2>3 DEF waitingForState, CloserInv
  <2>4. CASE Answered
    BY <2>4 DEF Answered, CloserInv
  <2>5. CASE SpuriousWakeup
    BY <2>5 DEF SpuriousWakeup, CloserInv
  <2> QED
    BY <1>2, <2>1, <2>2, <2>3, <2>4, <2>5 DEF HandleMessage
<1>3. CASE Vehicle
  BY <1>3 DEF Vehicle, PowerFollows, HeaterFollows, CloserInv
<1>4. CASE UNCHANGED vars
  BY <1>4 DEF vars, CloserInv
<1> QED
  BY <1>1, <1>2, <1>3, <1>4 DEF Next

\* What a thread has read of the heaters that work stays true.
LEMMA StepSteady ==
  TypeOK /\ ThreadInv /\ SteadyInv /\ [Next]_vars => SteadyInv'
<1> SUFFICES ASSUME TypeOK, ThreadInv, SteadyInv, [Next]_vars PROVE SteadyInv'
  OBVIOUS
<1> USE DEF TypeOK, SteadyInv, Reading, heatVars, threadVars, recvVars
<1>1. ASSUME NEW h \in Heaters, Thread(h) PROVE SteadyInv'
  <2> USE DEF notifyState, Goto, Forget
  <2>1. CASE Refused(h) \/ Started(h) \/ RequestUp(h) \/ Raised(h) \/ NotRaised(h)
    BY <2>1 DEF Refused, Started, RequestUp, Raised, NotRaised
  <2>2. CASE SwitchOn(h)
    BY <2>2 DEF SwitchOn
  <2>3. CASE SwitchOff(h)
    BY <2>3 DEF SwitchOff
  <2>4. CASE Slept(h)
    BY <2>4 DEF Slept
  <2>5. CASE ReadStatus(h)
    BY <2>5 DEF ReadStatus, Heaters
  <2>6. CASE ReadAndDecide(h)
    <3>1. CASE SeesAllOff(h)
      <4>1. steady[h] = {}
        BY <2>6, <3>1 DEF ReadAndDecide, SeesAllOff, Heaters
      <4> QED
        BY <2>6, <3>1, <4>1 DEF ReadAndDecide
    <3>2. CASE ~SeesAllOff(h)
      BY <2>6, <3>2 DEF ReadAndDecide
    <3> QED
      BY <3>1, <3>2
  <2>7. CASE RequestDown(h) \/ Exit(h)
    BY <2>7 DEF RequestDown, Exit
  <2> QED
    BY <1>1, <2>1, <2>2, <2>3, <2>4, <2>5, <2>6, <2>7 DEF Thread
<1>2. CASE HandleMessage \/ SpuriousWakeup
  BY <1>2 DEF HandleMessage, StartCMD, Waits, CommandDropped, waitingForState, Answered,
              SpuriousWakeup, ThreadInv
<1>3. CASE Vehicle
  BY <1>3 DEF Vehicle, PowerFollows, HeaterFollows
<1>4. CASE UNCHANGED vars
  BY <1>4 DEF vars
<1> QED
  BY <1>1, <1>2, <1>3, <1>4 DEF Next

\* The strengthened invariant of every behaviour.
THEOREM Invariance == Spec => []IInv
<1>1. IInv /\ [Next]_vars => IInv'
  BY StepThreads, StepCloser, StepSteady DEF IInv
<1> QED
  BY InitIInv, <1>1, PTL DEF Spec

\* Every variable keeps its type: a heater has one thread at most, and its end
\* is never taken off an empty list.
THEOREM TypeCorrect == Spec => []TypeOK
<1>1. IInv => TypeOK
  BY DEF IInv
<1> QED
  BY Invariance, <1>1, PTL

\* When the vehicle follows within the second that the threads wait, the high
\* voltage is not left up: the last thread to read sees that nothing is on.
THEOREM HighVoltageNotLeftUp ==
  ASSUME VehiclePrompt
  PROVE  Spec => []NotLeftUp
<1>1. IInv => NotLeftUp
  BY DEF IInv, CloserInv, Closes, Reading, NotLeftUp, Pending
<1> QED
  BY Invariance, <1>1, PTL

\* However slow the vehicle is, no thread takes the high voltage from a heater
\* that worked all along while it read.
THEOREM SteadyHeatersKept == Spec => SteadyKept
<1>1. IInv /\ [Next]_vars => [\A h \in Heaters : RequestDown(h) => steady[h] = {}]_vars
  BY DEF IInv, SteadyInv, TypeOK, Reading, RequestDown
<1> QED
  BY Invariance, <1>1, PTL DEF Spec, SteadyKept
=============================================================================
