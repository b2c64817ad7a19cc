---------------------------- MODULE MCTboxBackoff ----------------------------
(***************************************************************************)
(* TboxLink with a history of the attempts to log in, for the runs about   *)
(* the wait between attempts.                                              *)
(***************************************************************************)
EXTENDS TboxLink

VARIABLES
  failures,   \* attempts that failed since the last login, saturating
  excused     \* this attempt logged in, or gave up a new address

Answered(m) == hand = m /\ hand' # hand
LoggedIn == Answered(Answer("loginOk"))
\* revertIPConfig starts to count anew, in each of the three places that call it.
Reverted ==
  \/ pcWatch = "connect" /\ pcWatch' = "undoFile"
  \/ pcWatch = "revertClear" /\ pcWatch' = "stop"
  \/ Answered(Answer("loginRej")) /\ ChangeNetParm = 1
NetworkRestored == pcWatch = "longDelay" /\ mRetryCount' < mRetryCount
AttemptEnds == pcWatch # "idle" /\ pcWatch' = "idle"

History ==
  IF Restart THEN failures' = 0 /\ excused' = FALSE
  ELSE IF LoggedIn \/ Reverted \/ NetworkRestored
  THEN failures' = 0 /\ excused' = ~NetworkRestored
  ELSE /\ failures' = IF AttemptEnds /\ ~excused THEN Bump(failures) ELSE failures
       /\ excused' = (excused /\ ~AttemptEnds)

\* FairSpec of TboxLink, with the history, which follows every step
BackoffSpec ==
  /\ Init /\ failures = 0 /\ excused = FALSE
  /\ [][Next /\ History]_<<vars, failures, excused>>
  /\ Fairness

\* "连续三次登入失败后,到下一次登入的时间间隔" (parm_report_message.h:30): in test
\* mode the TBOX waits loginRetryInterval minutes after three failed logins in a
\* row, and not the short delay, before it tries again.
WaitsLongAfterThreeFailures == testMode /\ pcWatch = "delay" => failures < RetryLimit
=============================================================================
