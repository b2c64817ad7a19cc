----------------------------- MODULE MCReports -----------------------------
(***************************************************************************)
(* The way of the reports, their timing and the rule of seven days in one  *)
(* run.  The three share no state: a behaviour is one of one part, chosen  *)
(* at the start, while the others stay as they are.                        *)
(***************************************************************************)
EXTENDS ReportPipeline, AlarmWindow, SevenDays

VARIABLE part

Cycles(n, a) == [normalReportCycle |-> n, alarmReportCycle |-> a]
\* The parameters the vehicle leaves the factory with.
Factory == Cycles(10, 1)
MCConfigs == {Factory, Cycles(30, 10), Cycles(5, 7)}

MCInit ==
  /\ part \in {"pipeline", "window", "dates"}
  /\ Init /\ WindowInit /\ DatesInit
  /\ part # "window" => vehicleConfig = Factory
  /\ part # "dates" => saved = [year |-> LastYear, mon |-> 1, day |-> 1]

MCNext ==
  /\ UNCHANGED part
  /\ \/ part = "pipeline" /\ Next /\ UNCHANGED <<windowVars, datesVars>>
     \/ part = "window" /\ WindowNext /\ UNCHANGED <<vars, datesVars>>
     \/ part = "dates" /\ DatesNext /\ UNCHANGED <<vars, windowVars>>

\* Nothing in the pipeline is enabled before its session is up: its fairness asks
\* nothing of the other parts.
MCSpec == MCInit /\ [][MCNext]_<<part, vars, windowVars, datesVars>> /\ Fairness
=============================================================================
