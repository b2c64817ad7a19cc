---------------------------- MODULE AlarmWindow ----------------------------
(***************************************************************************)
(* The timing of MessageCreateTask: a report every second, of which one in *)
(* normalReportCycle (in alarm mode one in alarmReportCycle) is sent, and  *)
(* one in alarmReportCycle is kept in a window of the last seconds that is *)
(* sent when an alarm begins.                                              *)
(*                                                                         *)
(* A report is its age in seconds.  The parameters may be loaded anew by   *)
(* another thread at any time, also while the task sleeps.  The archive of *)
(* seven days, filled by a counter of its own, and the queues of the       *)
(* sample link, filled by the same statements, are left out.               *)
(***************************************************************************)
EXTENDS Naturals, Sequences, SequencesExt

CONSTANTS
  Window,        \* seconds before an alarm that the platform is told of (30)
  Configs,       \* the parameters: [normalReportCycle, alarmReportCycle]
  ChangeBound    \* bound: how often the parameters are loaded anew

ASSUME WindowAssumption ==
  /\ Window \in Nat \ {0} /\ ChangeBound \in Nat
  \* A cycle of zero divides by zero, and one longer than the window empties it
  \* for ever: the code tests for neither.
  /\ Configs \subseteq [normalReportCycle : Nat \ {0}, alarmReportCycle : 1..Window]

VARIABLES
  vehicleConfig,
  pc,                  \* "top" of the loop, or the "sleep" of a second
  sleep_time, mMsgProductState, alarmModeDuration, duration,
  mLastAlarmLevel,     \* the highest alarm level was 3
  mMsg30SecondsQueue,
  sent,                \* what the last second put into mMsgQueue
  sinceKept,           \* history: seconds since a report was sent or kept
  sinceAlarm,          \* history: seconds since an alarm began
  evicted,             \* history: what the last second dropped from the window
  changed, changes     \* history: new parameters since an alarm began, and in all

sinceVars == <<sinceKept, sinceAlarm, evicted>>
loopVars == <<mMsgProductState, duration, mLastAlarmLevel, mMsg30SecondsQueue, sent, sinceVars>>
windowVars == <<vehicleConfig, pc, sleep_time, alarmModeDuration, changed, changes, loopVars>>

normal == vehicleConfig.normalReportCycle
cycle == vehicleConfig.alarmReportCycle

\* Ages and counters beyond every number they are compared with are all the same.
Old == 2 * Window + 1
Older(a) == IF a < Old THEN a + 1 ELSE Old

WindowTypeOK ==
  /\ vehicleConfig \in Configs /\ pc \in {"top", "sleep"}
  /\ sleep_time \in Nat \ {0} /\ mMsgProductState \in {"Normal", "Warn"}
  /\ alarmModeDuration \in 0..Old /\ duration \in Nat /\ mLastAlarmLevel \in BOOLEAN
  /\ mMsg30SecondsQueue \in Seq(0..Old) /\ Len(mMsg30SecondsQueue) <= Window
  /\ sent \in Seq(0..Old)
  /\ sinceKept \in 0..Old /\ sinceAlarm \in 0..Old /\ evicted \in Seq(0..Old)
  /\ changed \in BOOLEAN /\ changes \in 0..ChangeBound

WindowInit ==
  /\ vehicleConfig \in Configs /\ pc = "top" /\ sleep_time = normal
  /\ mMsgProductState = "Normal" /\ alarmModeDuration = 0 /\ duration = 0
  /\ mLastAlarmLevel = FALSE /\ mMsg30SecondsQueue = <<>> /\ sent = <<>>
  /\ sinceKept = 0 /\ sinceAlarm = Old /\ evicted = <<>>
  /\ changed = FALSE /\ changes = 0

\* HandleMessage and the watch thread load the file anew.
vehicleConfigInit ==
  /\ changes < ChangeBound
  /\ vehicleConfig' \in Configs \ {vehicleConfig}
  /\ changed' = TRUE /\ changes' = changes + 1
  /\ UNCHANGED <<pc, sleep_time, alarmModeDuration, loopVars>>

\* Before the task sleeps for the rest of the second.
Top ==
  /\ pc = "top" /\ pc' = "sleep"
  /\ \/ /\ mMsgProductState = "Normal"
        /\ sleep_time' = normal /\ UNCHANGED alarmModeDuration
     \/ /\ mMsgProductState = "Warn"
        /\ sleep_time' = cycle /\ alarmModeDuration' = Older(alarmModeDuration)
  /\ UNCHANGED <<vehicleConfig, changed, changes, loopVars>>

Begins(level3) == level3 /\ ~mLastAlarmLevel
Aged == [i \in DOMAIN mMsg30SecondsQueue |-> Older(mMsg30SecondsQueue[i])]

\* mutant: the beginning of an alarm leaves the counter of the last one
CountedOn(level3) == alarmModeDuration
Counted(level3) == IF Begins(level3) THEN 0 ELSE alarmModeDuration

Sends(d) == d % sleep_time = 0
Passed(d) == IF Sends(d) THEN 1 ELSE d + 1
\* mutant: one report is kept in a normal cycle
KeepsOne(d) == d = cycle
Keeps(d) == d % cycle = 0

\* mutant: the window is emptied when it is full
RoomAll(queue) == Len(queue)
\* How many reports are dropped to make room for one.
Room(queue) ==
  LET addtionalQueueSize == Window \div cycle
  IN IF Len(queue) >= addtionalQueueSize THEN Len(queue) - addtionalQueueSize + 1 ELSE 0

\* The rest of the second.  level3: the highest alarm level of the report is 3.
Second(level3) ==
  LET d == IF Begins(level3) THEN 0 ELSE duration
      queue == IF Begins(level3) THEN <<>> ELSE Aged
      warn == Begins(level3) \/ mMsgProductState = "Warn"
      ends == warn /\ Counted(level3) = Window + cycle
      keeps == Keeps(Passed(d))
      dropped == IF keeps THEN Room(queue) ELSE 0
  IN /\ pc = "sleep" /\ pc' = "top"
     /\ mLastAlarmLevel' = level3
     /\ sent' = (IF Begins(level3) THEN Aged ELSE <<>>) \o (IF Sends(d) THEN <<0>> ELSE <<>>)
     /\ evicted' = SubSeq(queue, 1, dropped)
     /\ mMsg30SecondsQueue' =
          SubSeq(queue, dropped + 1, Len(queue)) \o (IF keeps THEN <<0>> ELSE <<>>)
     /\ mMsgProductState' = IF warn /\ ~ends THEN "Warn" ELSE "Normal"
     /\ alarmModeDuration' = IF ends THEN 0 ELSE Counted(level3)
     /\ duration' = IF ends THEN 0 ELSE Passed(d)
     /\ sinceKept' = IF Sends(d) \/ keeps THEN 0 ELSE Older(sinceKept)
     /\ sinceAlarm' = IF Begins(level3) THEN 0 ELSE Older(sinceAlarm)
     /\ changed' = (changed /\ ~Begins(level3))
     /\ UNCHANGED <<vehicleConfig, sleep_time, changes>>

EverySecond == Top \/ \E level3 \in BOOLEAN : Second(level3)

WindowNext == vehicleConfigInit \/ EverySecond

WindowSpec == WindowInit /\ [][WindowNext]_windowVars

-----------------------------------------------------------------------------
(* Properties.  They hold from the start, and from an alarm on, until the   *)
(* parameters are loaded anew: the counters of the task are not reset then. *)

\* What was sent and what is in the window leave no gap of more than one alarm
\* cycle, whatever the normal cycle, over the beginning and the end of an alarm.
NoGap == ~changed => sinceKept < cycle

\* A report leaves the window unsent only when the ones that are left reach as
\* far back as the platform asks, to within one cycle.
EvictedOld == ~changed => \A i \in DOMAIN evicted : evicted[i] + cycle > Window

\* Alarm mode lasts for the window and one cycle after the last alarm began,
\* however alarms follow one another.
AlarmModeLasts == ~changed => (mMsgProductState = "Warn" <=> sinceAlarm < Window + cycle)
=============================================================================
