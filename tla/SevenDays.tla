----------------------------- MODULE SevenDays -----------------------------
(***************************************************************************)
(* The rule by which BinaryMessage calls a saved report or an archive file *)
(* older than seven days: it counts days by a calendar of its own, with    *)
(* one case for the turn of the year.  Here a saved date grows old day by  *)
(* day, or the clock is put back, and the rule is asked every day.         *)
(***************************************************************************)
EXTENDS Integers

CONSTANTS
  FirstYear, LastYear,   \* bound: the years of the saved date
  AgeBound               \* bound: the days that pass

ASSUME DaysAssumption ==
  /\ FirstYear \in 2001..2098 /\ LastYear \in 2001..2098 /\ AgeBound \in Nat

VARIABLES saved, today,  \* the dates the rule compares
          age            \* history: the days between them

datesVars == <<saved, today, age>>

-----------------------------------------------------------------------------
(* The calendar of localtime, between 2001 and 2099.                       *)

Leap(year) == year % 4 = 0
DaysOf(year, mon) ==
  IF mon = 2 THEN (IF Leap(year) THEN 29 ELSE 28)
             ELSE IF mon \in {4, 6, 9, 11} THEN 30 ELSE 31

On(year, mon, day) == [year |-> year, mon |-> mon, day |-> day]
IsDate(date) == date.day <= DaysOf(date.year, date.mon)
Date(years) == {date \in [year : years, mon : 1..12, day : 1..31] : IsDate(date)}

NextDate(date) ==
  IF date.day < DaysOf(date.year, date.mon) THEN On(date.year, date.mon, date.day + 1)
  ELSE IF date.mon < 12 THEN On(date.year, date.mon + 1, 1)
  ELSE On(date.year + 1, 1, 1)
DateBefore(date) ==
  IF date.day > 1 THEN On(date.year, date.mon, date.day - 1)
  ELSE IF date.mon > 1 THEN On(date.year, date.mon - 1, DaysOf(date.year, date.mon - 1))
  ELSE On(date.year - 1, 12, 31)

-----------------------------------------------------------------------------
(* The rule.                                                               *)

\* Days before a month, without a leap day.
DaysBefore(mon) ==
  CASE mon = 1 -> 0    [] mon = 2 -> 31   [] mon = 3 -> 59   [] mon = 4 -> 90
    [] mon = 5 -> 120  [] mon = 6 -> 151  [] mon = 7 -> 181  [] mon = 8 -> 212
    [] mon = 9 -> 243  [] mon = 10 -> 273 [] mon = 11 -> 304 [] mon = 12 -> 334

\* A leap year counts one day more in every month, January and February too.
sumDays(date) == DaysBefore(date.mon) + date.day + (IF Leap(date.year) THEN 1 ELSE 0)

\* mutant: the days of December are not counted
TurnShort(s, e) == e.day + 1 - s.day
\* One day more than have passed.
TurnOfYear(s, e) == e.day + 32 - s.day

checkMsgDateOutof7Days(s, e) ==
  \/ s.year = e.year /\ (sumDays(e) - sumDays(s) < 0 \/ sumDays(e) - sumDays(s) > 7)
  \/ s.year + 1 = e.year /\ (s.mon # 12 \/ e.mon # 1 \/ TurnOfYear(s, e) > 7)
  \/ s.year # e.year /\ s.year + 1 # e.year

-----------------------------------------------------------------------------
DatesTypeOK ==
  /\ saved \in Date(FirstYear..LastYear) /\ today \in Date(Int)
  /\ age \in -AgeBound..AgeBound

DatesInit == saved \in Date(FirstYear..LastYear) /\ today = saved /\ age = 0

DayPasses ==
  /\ age < AgeBound
  /\ today' = NextDate(today) /\ age' = age + 1
  /\ UNCHANGED saved

\* The clock is set while the vehicle has no time from the platform.
ClockPutBack ==
  /\ age > -AgeBound
  /\ today' = DateBefore(today) /\ age' = age - 1
  /\ UNCHANGED saved

DatesNext == DayPasses \/ ClockPutBack

DatesSpec == DatesInit /\ [][DatesNext]_datesVars

-----------------------------------------------------------------------------
(* Properties.                                                             *)

\* What is less than seven days old is kept.
WeekKept == age \in 0..6 => ~checkMsgDateOutof7Days(saved, today)

\* What is more than eight days old, or more than one day in the future, is not.
OldDropped == age < -1 \/ age > 8 => checkMsgDateOutof7Days(saved, today)

\* The rule of seven days (checkMsgDateOutof7Days) is right to within a day: over
\* the ends of months, the leap day and the turn of the year it throws no report
\* of the week away, and what is older than eight days does not stay.
RightToADay == WeekKept /\ OldDropped
=============================================================================
