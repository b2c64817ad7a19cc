-------------------------- MODULE RemoteHavcProofs --------------------------
(***************************************************************************)
(* Proofs about RemoteHavc, for every bound on the count and whether or    *)
(* not RecvTask is prompt.  The count is at least the number of references *)
(* somebody counts on; that makes it positive in every step that decrements*)
(* it, and in every step that asks for the vehicle to be kept awake.       *)
(***************************************************************************)
EXTENDS RemoteHavc, TLAPS

\* A thread calls vehicleKeepAwake at a few places of its own code only, the
\* worker is listed in mThreads exactly while it runs, and it resets a request
\* for a refresh only after it has seen one.
CallsInv ==
  /\ keepAwake["recv"] \in {"inc", "read1", "set1"} => pcRecv = "check"
  /\ Releasing("recv") \/ keepAwake["recv"] \in {"read0", "set0"} => pcRecv = "idle"
  /\ keepAwake["havc"] \notin {"inc", "read1", "set1"}
  /\ ~Free("havc") => pcHavc \in {"check", "exit"}
  /\ mThreads = 0 <=> pcHavc = "none"
  /\ pcHavc \in {"refresh", "reset"} => mNeedRefresh = 1
  /\ pcRecv = "check" => cmd \in Commands
  /\ pcRecv = "open" => cmd = "on"

\* When the request outlives the last reference, some thread is about to end it.
EndsSoon ==
  wakeUpRef = 0 /\ awakeReq = 1 => \E t \in Threads : keepAwake[t] \in {"read0", "set0"}

IInv == TypeOK /\ CallsInv /\ HeldWhileWorking /\ EndsSoon

\* The initial states satisfy the invariant.
LEMMA InitIInv == Init => IInv
<1> SUFFICES ASSUME Init PROVE IInv
  OBVIOUS
<1>1. TypeOK
  BY DEF Init, TypeOK, RecvPc, HavcPc, CallPc
<1>2. keepAwake["recv"] = "out" /\ keepAwake["havc"] = "out"
  BY DEF Init, Threads
<1>3. ~RecvHolds /\ ~HavcHolds /\ ~RefreshReleasing
  BY <1>2 DEF Init, RecvHolds, HavcHolds, RefreshReleasing, Releasing
<1>4. HeldWhileWorking
  BY <1>3 DEF Init, HeldWhileWorking, Holders, One
<1>5. CallsInv /\ EndsSoon
  BY <1>2 DEF Init, CallsInv, EndsSoon, Releasing, Free
<1> QED
  BY <1>1, <1>4, <1>5 DEF IInv

\* Every step keeps the invariant.
LEMMA StepIInv == IInv /\ [Next]_vars => IInv'
<1> SUFFICES ASSUME IInv, [Next]_vars PROVE IInv'
  OBVIOUS
<1> USE RemoteAssumption
    DEF IInv, TypeOK, CallsInv, HeldWhileWorking, Holders, EndsSoon, RecvHolds, HavcHolds,
        RefreshReleasing, Releasing, Free, One, Threads, Commands, RecvPc, HavcPc, CallPc,
        refVars, reqVars, havcVars, recvVars
<1>1. ASSUME NEW t \in Threads, vehicleKeepAwake(t) PROVE IInv'
  <2> USE <1>1 DEF vehicleKeepAwake, Call
  <2>1. CASE Increment(t)
    BY <2>1 DEF Increment
  <2>2. CASE ReadAfterIncrement(t)
    BY <2>2 DEF ReadAfterIncrement
  <2>3. CASE RequestAwake(t)
    BY <2>3 DEF RequestAwake
  <2>4. CASE ReadBeforeDecrement(t)
    BY <2>4 DEF ReadBeforeDecrement
  <2>5. CASE Decrement(t)
    BY <2>5 DEF Decrement
  <2>6. CASE ReadAfterDecrement(t)
    BY <2>6 DEF ReadAfterDecrement
  <2>7. CASE RequestSleep(t)
    BY <2>7 DEF RequestSleep
  <2> QED
    BY <2>1, <2>2, <2>3, <2>4, <2>5, <2>6, <2>7
<1>2. CASE HandleMessage
  <2> USE DEF At, Release, Leave, Call
  <2>1. CASE Receive
    BY <2>1 DEF Receive
  <2>2. CASE ShortCommand
    BY <2>2 DEF ShortCommand
  <2>3. CASE Invalid
    BY <2>3 DEF Invalid
  <2>4. CASE HvacOn
    BY <2>4 DEF HvacOn
  <2>5. CASE OpenRefused
    BY <2>5 DEF OpenRefused
  <2>6. CASE OpenRequested
    BY <2>6 DEF OpenRequested
  <2>7. CASE OpenNeedless
    BY <2>7 DEF OpenNeedless
  <2>8. CASE OpenStarts
    BY <2>8 DEF OpenStarts
  <2>9. CASE OpenRefreshes
    BY <2>9 DEF OpenRefreshes
  <2>10. CASE HvacOff
    BY <2>10 DEF HvacOff
  <2>11. CASE CloseNeedless
    BY <2>11 DEF CloseNeedless
  <2>12. CASE CloseWaits
    BY <2>12 DEF CloseWaits
  <2>13. CASE getHaveWorkState
    BY <2>13 DEF getHaveWorkState
  <2>14. CASE Answered
    BY <2>14 DEF Answered
  <2>15. CASE OpenFailed
    BY <2>15 DEF OpenFailed
  <2> QED
    BY <1>2, <2>1, <2>2, <2>3, <2>4, <2>5, <2>6, <2>7, <2>8, <2>9, <2>10, <2>11, <2>12,
       <2>13, <2>14, <2>15 DEF HandleMessage
<1>3. CASE HavcThread
  <2> USE DEF setHavcWork, Call
  <2>1. CASE PowerUp
    BY <2>1 DEF PowerUp
  <2>2. CASE PowerFails
    BY <2>2 DEF PowerFails
  <2>3. CASE Settled
    BY <2>3 DEF Settled
  <2>4. CASE Loop
    BY <2>4 DEF Loop
  <2>5. CASE Refreshed
    BY <2>5 DEF Refreshed
  <2>6. CASE Reset
    BY <2>6 DEF Reset
  <2>7. CASE Check
    BY <2>7 DEF Check
  <2>8. CASE Ending
    BY <2>8 DEF Ending
  <2>9. CASE SwitchOff
    BY <2>9 DEF SwitchOff
  <2>10. CASE Down
    BY <2>10 DEF Down
  <2>11. CASE Exit
    BY <2>11 DEF Exit
  <2> QED
    BY <1>3, <2>1, <2>2, <2>3, <2>4, <2>5, <2>6, <2>7, <2>8, <2>9, <2>10, <2>11 DEF HavcThread
<1>4. CASE SpuriousWakeup
  BY <1>4 DEF SpuriousWakeup
<1>5. CASE UNCHANGED vars
  BY <1>5 DEF vars
<1> QED
  BY <1>1, <1>2, <1>3, <1>4, <1>5 DEF Next

\* The strengthened invariant of every behaviour.
THEOREM Invariance == Spec => []IInv
BY InitIInv, StepIInv, PTL DEF Spec

\* Every variable keeps its type: in particular the count is never negative.
THEOREM TypeCorrect == Spec => []TypeOK
<1>1. IInv => TypeOK
  BY DEF IInv
<1> QED
  BY Invariance, <1>1, PTL

\* No release gives back a reference that somebody else counts on.
THEOREM ReferencesHeld == Spec => []HeldWhileWorking
<1>1. IInv => HeldWhileWorking
  BY DEF IInv
<1> QED
  BY Invariance, <1>1, PTL

\* With no reference left the request to stay awake is withdrawn, however the
\* two threads interleave inside vehicleKeepAwake.
THEOREM SleepsAtRest == Spec => []AtRestAsleep
<1>1. IInv => AtRestAsleep
  BY DEF IInv, TypeOK, EndsSoon, AtRestAsleep, Free, Threads
<1> QED
  BY Invariance, <1>1, PTL
=============================================================================
