---------------------------- MODULE TimingProofs ----------------------------
(***************************************************************************)
(* Theorems about the rule of seven days and about the window of an alarm. *)
(* The rule is right to within a day, for every date of the century and    *)
(* every number of days that pass: the proof numbers the days and compares *)
(* the count of the rule with the difference of the numbers.  The timing   *)
(* of the reports is right for every cycle and every window: the proof     *)
(* relates the ages of the reports to the remainder of the counter.        *)
(***************************************************************************)
EXTENDS SevenDays, AlarmWindow, SequenceTheorems, TLAPS

\* The days of a year up to a date, and the number of a date.
DayOfYear(date) ==
  DaysBefore(date.mon) + date.day + (IF date.mon > 2 /\ Leap(date.year) THEN 1 ELSE 0)
DayNo(date) == 365 * date.year + ((date.year - 1) \div 4) + DayOfYear(date)

AgeInv == DatesTypeOK /\ age = DayNo(today) - DayNo(saved)

\* A year has its days, and the number of its first day follows from the last.
LEMMA YearLength ==
  ASSUME NEW y \in Int
  PROVE  /\ (y \div 4) \in Int /\ ((y - 1) \div 4) \in Int
         /\ y \div 4 = ((y - 1) \div 4) + (IF Leap(y) THEN 1 ELSE 0)
  BY DEF Leap


\* Years that are apart, their first days are apart.
LEMMA YearsApart ==
  ASSUME NEW y \in Int, NEW z \in Int, y + 2 <= z
  PROVE  365 * z + ((z - 1) \div 4) >= 365 * y + ((y - 1) \div 4) + 730
OBVIOUS

\* The days before a month and the days of the month, with the leap day.
LEMMA MonthLength ==
  ASSUME NEW y \in Int, NEW m \in 1..12
  PROVE  LET leap == IF m > 2 /\ Leap(y) THEN 1 ELSE 0
             after == IF m > 1 /\ Leap(y) THEN 1 ELSE 0
         IN /\ DaysBefore(m) \in 0..334 /\ DaysOf(y, m) \in 28..31
            /\ m < 12 => DaysBefore(m + 1) + after = DaysBefore(m) + leap + DaysOf(y, m)
            /\ m < 12 => DaysBefore(m) + leap + DaysOf(y, m) <= 334 + after
            /\ m = 12 => DaysBefore(m) = 334 /\ DaysOf(y, m) = 31
            /\ m > 2 => DaysBefore(m) >= 59
            /\ m <= 2 => DaysBefore(m) + DaysOf(y, m) <= 59 + after
<1>1. m \in {1, 2, 3, 4, 5, 6, 7, 8, 9, 10, 11, 12}
  OBVIOUS
<1>2. /\ DaysBefore(1) = 0 /\ DaysBefore(2) = 31 /\ DaysBefore(3) = 59 /\ DaysBefore(4) = 90
      /\ DaysBefore(5) = 120 /\ DaysBefore(6) = 151 /\ DaysBefore(7) = 181
      /\ DaysBefore(8) = 212 /\ DaysBefore(9) = 243 /\ DaysBefore(10) = 273
      /\ DaysBefore(11) = 304 /\ DaysBefore(12) = 334
  BY DEF DaysBefore
<1>3. /\ \A n \in {1, 3, 5, 7, 8, 10, 12} : DaysOf(y, n) = 31
      /\ \A n \in {4, 6, 9, 11} : DaysOf(y, n) = 30
      /\ DaysOf(y, 2) = 28 + (IF Leap(y) THEN 1 ELSE 0)
  BY DEF DaysOf
<1>4. CASE Leap(y)
  BY <1>1, <1>2, <1>3, <1>4
<1>5. CASE ~Leap(y)
  BY <1>1, <1>2, <1>3, <1>5
<1> QED
  BY <1>4, <1>5

\* A date is a record of its three numbers, within its month.
LEMMA DateParts ==
  ASSUME NEW date \in Date(Int)
  PROVE  /\ date \in [year : Int, mon : 1..12, day : 1..31]
         /\ date.year \in Int /\ date.mon \in 1..12 /\ date.day \in 1..31
         /\ IsDate(date)
         /\ DayOfYear(date) \in 1..365 + (IF Leap(date.year) THEN 1 ELSE 0)
         /\ DayNo(date) \in Int
<1>1. /\ date \in [year : Int, mon : 1..12, day : 1..31]
      /\ date.year \in Int /\ date.mon \in 1..12 /\ date.day \in 1..31
      /\ IsDate(date)
  BY DEF Date
<1>2. DayOfYear(date) \in 1..365 + (IF Leap(date.year) THEN 1 ELSE 0)
  <2> DEFINE y == date.year
             m == date.mon
  <2>1. y \in Int /\ m \in 1..12 /\ date.day \in 1..DaysOf(y, m)
    BY <1>1 DEF IsDate
  <2> HIDE DEF y, m
  <2>2. /\ DaysBefore(m) \in 0..334 /\ DaysOf(y, m) \in 28..31
        /\ m < 12 => DaysBefore(m) + (IF m > 2 /\ Leap(y) THEN 1 ELSE 0) + DaysOf(y, m)
                       <= 334 + (IF m > 1 /\ Leap(y) THEN 1 ELSE 0)
        /\ m = 12 => DaysBefore(m) = 334 /\ DaysOf(y, m) = 31
    BY <2>1, MonthLength
  <2>3. DaysBefore(m) + date.day + (IF m > 2 /\ Leap(y) THEN 1 ELSE 0)
          \in 1..365 + (IF Leap(y) THEN 1 ELSE 0)
    BY <2>1, <2>2
  <2> QED
    BY <2>3 DEF DayOfYear, y, m
<1>3. DayNo(date) \in Int
  <2>1. (date.year - 1) \div 4 \in Int
    BY <1>1, YearLength
  <2>2. DayOfYear(date) \in Int
    BY <1>2
  <2> QED
    BY <1>1, <2>1, <2>2 DEF DayNo
<1> QED
  BY <1>1, <1>2, <1>3

\* Where a date lies in its year.
LEMMA DatePlace ==
  ASSUME NEW date \in Date(Int)
  PROVE  LET no == DaysBefore(date.mon) + date.day
             leap == IF Leap(date.year) THEN 1 ELSE 0
         IN /\ no \in Int
            /\ date.mon > 2 => no >= 60 /\ DayOfYear(date) = no + leap
            /\ date.mon <= 2 => no <= 59 + leap /\ DayOfYear(date) = no
            /\ date.mon # 12 => DayOfYear(date) <= 334 + leap
            /\ date.mon # 1 => DayOfYear(date) >= 32
<1> DEFINE y == date.year
           m == date.mon
           d == date.day
<1>1. y \in Int /\ m \in 1..12 /\ d \in 1..31 /\ d <= DaysOf(y, m)
  BY DateParts DEF IsDate
<1>2. DayOfYear(date) = DaysBefore(m) + d + (IF m > 2 /\ Leap(y) THEN 1 ELSE 0)
  BY DEF DayOfYear
<1>3. m # 1 => DaysBefore(m) >= 31
  BY <1>1 DEF DaysBefore
<1> HIDE DEF y, m, d
<1>4. /\ DaysBefore(m) \in 0..334 /\ DaysOf(y, m) \in 28..31
      /\ m < 12 => DaysBefore(m) + (IF m > 2 /\ Leap(y) THEN 1 ELSE 0) + DaysOf(y, m)
                     <= 334 + (IF m > 1 /\ Leap(y) THEN 1 ELSE 0)
      /\ m > 2 => DaysBefore(m) >= 59
      /\ m <= 2 => DaysBefore(m) + DaysOf(y, m)
                     <= 59 + (IF m > 1 /\ Leap(y) THEN 1 ELSE 0)
  BY <1>1, MonthLength
<1>5. LET no == DaysBefore(m) + d
          leap == IF Leap(y) THEN 1 ELSE 0
      IN /\ no \in Int
         /\ m > 2 => no >= 60 /\ DayOfYear(date) = no + leap
         /\ m <= 2 => no <= 59 + leap /\ DayOfYear(date) = no
         /\ m # 12 => DayOfYear(date) <= 334 + leap
         /\ m # 1 => DayOfYear(date) >= 32
  BY <1>1, <1>2, <1>3, <1>4
<1> QED
  BY <1>5 DEF y, m, d

\* The day after a date is a date, and its number is the next.
LEMMA NextDay ==
  ASSUME NEW date \in Date(Int)
  PROVE  NextDate(date) \in Date(Int) /\ DayNo(NextDate(date)) = DayNo(date) + 1
<1> DEFINE y == date.year
           m == date.mon
           n == NextDate(date)
<1>1. y \in Int /\ m \in 1..12 /\ date.day \in 1..DaysOf(y, m)
      /\ date \in [year : Int, mon : 1..12, day : 1..31]
  BY DateParts DEF IsDate
<1>2. CASE date.day < DaysOf(y, m)
  <2>1. n = On(y, m, date.day + 1)
    BY <1>2 DEF NextDate
  <2>2. n.year = y /\ n.mon = m /\ n.day = date.day + 1
    BY <2>1 DEF On
  <2>3. DaysOf(y, m) \in 28..31
    BY <1>1, MonthLength
  <2>4. n \in Date(Int)
    BY <2>1, <2>2, <2>3, <1>1, <1>2 DEF Date, IsDate, On
  <2>5. DayOfYear(n) = DayOfYear(date) + 1
    <3>1. DaysBefore(m) \in Int
      BY <1>1, MonthLength
    <3> QED
      BY <2>2, <1>1, <3>1 DEF DayOfYear
  <2>6. DayNo(n) = DayNo(date) + 1
    <3>1. (y - 1) \div 4 \in Int /\ DayOfYear(date) \in Int
      BY <1>1, YearLength, DateParts
    <3> QED
      BY <2>2, <2>5, <3>1, <1>1 DEF DayNo
  <2> QED
    BY <2>4, <2>6
<1>3. CASE date.day = DaysOf(y, m) /\ m < 12
  <2>1. n = On(y, m + 1, 1)
    BY <1>3, <1>1 DEF NextDate
  <2>2. n.year = y /\ n.mon = m + 1 /\ n.day = 1
    BY <2>1 DEF On
  <2>3. /\ DaysOf(y, m) \in 28..31 /\ DaysOf(y, m + 1) \in 28..31
        /\ DaysBefore(m) \in Int /\ DaysBefore(m + 1) \in Int
        /\ DaysBefore(m + 1) + (IF m > 1 /\ Leap(y) THEN 1 ELSE 0)
             = DaysBefore(m) + (IF m > 2 /\ Leap(y) THEN 1 ELSE 0) + DaysOf(y, m)
    <3>1. m + 1 \in 1..12
      BY <1>1, <1>3
    <3> HIDE DEF y, m
    <3>2. DaysOf(y, m + 1) \in 28..31 /\ DaysBefore(m + 1) \in 0..334
      BY <1>1, <3>1, MonthLength
    <3>3. /\ DaysOf(y, m) \in 28..31 /\ DaysBefore(m) \in 0..334
          /\ DaysBefore(m + 1) + (IF m > 1 /\ Leap(y) THEN 1 ELSE 0)
               = DaysBefore(m) + (IF m > 2 /\ Leap(y) THEN 1 ELSE 0) + DaysOf(y, m)
      BY <1>1, <1>3, MonthLength
    <3> QED
      BY <3>2, <3>3
  <2>4. n \in Date(Int)
    <3>1. n \in [year : Int, mon : 1..12, day : 1..31]
      BY <2>1, <1>1, <1>3 DEF On
    <3>2. n.day <= DaysOf(n.year, n.mon)
      BY <2>2, <2>3
    <3> QED
      BY <3>1, <3>2 DEF Date, IsDate
  <2>5. DayOfYear(n) = DayOfYear(date) + 1
    BY <2>2, <2>3, <1>1, <1>3 DEF DayOfYear
  <2>6. DayNo(n) = DayNo(date) + 1
    <3>1. (y - 1) \div 4 \in Int /\ DayOfYear(date) \in Int
      BY <1>1, YearLength, DateParts
    <3> QED
      BY <2>2, <2>5, <3>1, <1>1 DEF DayNo
  <2> QED
    BY <2>4, <2>6
<1>4. CASE date.day = DaysOf(y, m) /\ m = 12
  <2>1. n = On(y + 1, 1, 1)
    BY <1>4, <1>1 DEF NextDate
  <2>2. DaysOf(y, 12) = 31 /\ DaysBefore(12) = 334 /\ DaysBefore(1) = 0
        /\ DaysOf(y + 1, 1) = 31
    BY DEF DaysOf, DaysBefore
  <2>3. n \in Date(Int)
    BY <2>1, <2>2, <1>1 DEF Date, IsDate, On
  <2>4. DayOfYear(date) = 365 + (IF Leap(y) THEN 1 ELSE 0) /\ DayOfYear(n) = 1
    BY <2>1, <2>2, <1>4, <1>1 DEF DayOfYear, On
  <2>5. /\ y \div 4 \in Int /\ (y - 1) \div 4 \in Int
        /\ y \div 4 = ((y - 1) \div 4) + (IF Leap(y) THEN 1 ELSE 0)
        /\ (y + 1) - 1 = y
    BY <1>1, YearLength
  <2>6. DayNo(n) = 365 * (y + 1) + (y \div 4) + 1
    BY <2>1, <2>4, <2>5 DEF DayNo, On
  <2>7. DayNo(date) = 365 * y + ((y - 1) \div 4) + 365 + (IF Leap(y) THEN 1 ELSE 0)
    BY <2>4, <2>5, <1>1 DEF DayNo
  <2>8. DayNo(n) = DayNo(date) + 1
    <3> HIDE DEF y, n
    <3> QED
      BY <2>5, <2>6, <2>7, <1>1
  <2> QED
    BY <2>3, <2>8
<1>5. date.day < DaysOf(y, m) \/ date.day = DaysOf(y, m)
  <2>1. DaysOf(y, m) \in Int
    BY <1>1, MonthLength
  <2> QED
    BY <2>1, <1>1
<1> QED
  BY <1>1, <1>2, <1>3, <1>4, <1>5

\* The day before a date is a date, and its number is the one before.
LEMMA DayBefore ==
  ASSUME NEW date \in Date(Int)
  PROVE  DateBefore(date) \in Date(Int) /\ DayNo(DateBefore(date)) = DayNo(date) - 1
<1> DEFINE p == DateBefore(date)
<1>1. /\ date.year \in Int /\ date.mon \in 1..12 /\ date.day \in 1..31
      /\ date.day <= DaysOf(date.year, date.mon)
      /\ date \in [year : Int, mon : 1..12, day : 1..31]
  BY DateParts DEF IsDate
<1>2. date = On(date.year, date.mon, date.day)
  BY <1>1 DEF On
<1>3. p \in Date(Int) /\ NextDate(p) = date
  <2>1. CASE date.day > 1
    <3>1. p = On(date.year, date.mon, date.day - 1)
      BY <2>1 DEF DateBefore
    <3>2. p.year = date.year /\ p.mon = date.mon /\ p.day = date.day - 1
      BY <3>1 DEF On
    <3>3. DaysOf(date.year, date.mon) \in 28..31
      BY <1>1, MonthLength
    <3>4. p \in [year : Int, mon : 1..12, day : 1..31] /\ p.day < DaysOf(p.year, p.mon)
      BY <3>1, <3>2, <3>3, <1>1, <2>1 DEF On
    <3>5. p \in Date(Int)
      BY <3>2, <3>3, <3>4 DEF Date, IsDate
    <3>6. NextDate(p) = On(date.year, date.mon, (date.day - 1) + 1)
      BY <3>2, <3>4 DEF NextDate
    <3> QED
      BY <3>5, <3>6, <1>1, <1>2
  <2>2. CASE date.day = 1 /\ date.mon > 1
    <3> DEFINE last == DaysOf(date.year, date.mon - 1)
    <3>1. p = On(date.year, date.mon - 1, last)
      BY <2>2 DEF DateBefore
    <3>2. p.year = date.year /\ p.mon = date.mon - 1 /\ p.day = last
      BY <3>1 DEF On
    <3>3. date.mon - 1 \in 1..11
      BY <2>2, <1>1
    <3>4. last \in 28..31
      BY <3>3, <1>1, MonthLength
    <3>5. p \in [year : Int, mon : 1..12, day : 1..31]
      BY <3>1, <3>3, <3>4, <1>1 DEF On
    <3>6. p.day = DaysOf(p.year, p.mon)
      BY <3>2
    <3>7. p \in Date(Int)
      BY <3>2, <3>4, <3>5, <3>6 DEF Date, IsDate
    <3>8. NextDate(p) = On(date.year, (date.mon - 1) + 1, 1)
      BY <3>2, <3>3, <3>4, <3>6 DEF NextDate
    <3> QED
      BY <3>7, <3>8, <2>2, <1>1, <1>2
  <2>3. CASE date.day = 1 /\ date.mon = 1
    <3>1. p = On(date.year - 1, 12, 31)
      BY <2>3 DEF DateBefore
    <3>2. DaysOf(date.year - 1, 12) = 31
      BY DEF DaysOf
    <3>3. p \in Date(Int)
      BY <3>1, <3>2, <1>1 DEF Date, IsDate, On
    <3>4. NextDate(p) = On((date.year - 1) + 1, 1, 1)
      BY <3>1, <3>2 DEF NextDate, On
    <3> QED
      BY <3>3, <3>4, <2>3, <1>1, <1>2
  <2> QED
    BY <2>1, <2>2, <2>3, <1>1
<1>4. DayNo(date) = DayNo(p) + 1 /\ DayNo(p) \in Int
  BY <1>3, NextDay, DateParts
<1> HIDE DEF p
<1>5. DayNo(p) = DayNo(date) - 1
  BY <1>4
<1> QED
  BY <1>3, <1>5 DEF p

-----------------------------------------------------------------------------
(* The rule, for two dates whose numbers differ by n.                      *)

\* Within a year the rule counts at most one day more or less, and not one less
\* for a date and itself.
LEMMA SameYear ==
  ASSUME NEW s \in Date(Int), NEW e \in Date(Int), s.year = e.year
  PROVE  LET n == DayNo(e) - DayNo(s)
             diff == sumDays(e) - sumDays(s)
         IN /\ n \in Int /\ diff \in Int /\ n - 1 <= diff /\ diff <= n + 1
            /\ n >= 0 => diff >= 0 /\ diff <= n
<1> DEFINE y == s.year
           leap == IF Leap(y) THEN 1 ELSE 0
           noS == DaysBefore(s.mon) + s.day
           noE == DaysBefore(e.mon) + e.day
           ordS == DayOfYear(s)
           ordE == DayOfYear(e)
<1>1. /\ noS \in Int /\ noE \in Int
      /\ s.mon > 2 => noS >= 60 /\ ordS = noS + leap
      /\ s.mon <= 2 => noS <= 59 + leap /\ ordS = noS
      /\ e.mon > 2 => noE >= 60 /\ ordE = noE + leap
      /\ e.mon <= 2 => noE <= 59 + leap /\ ordE = noE
  BY DatePlace
<1>2. y \in Int /\ s.mon \in Int /\ e.mon \in Int /\ (y - 1) \div 4 \in Int
  BY DateParts, YearLength
<1>3. /\ DayNo(e) = 365 * y + ((y - 1) \div 4) + ordE
      /\ DayNo(s) = 365 * y + ((y - 1) \div 4) + ordS
  BY DEF DayNo
<1>4. sumDays(e) = noE + leap /\ sumDays(s) = noS + leap
  BY DEF sumDays
<1>5. leap \in {0, 1}
  OBVIOUS
<1> HIDE DEF y, leap, noS, noE, ordS, ordE
<1> QED
  BY <1>1, <1>2, <1>3, <1>4, <1>5

\* Dates of different years are far apart but for the turn of the year, which
\* the rule counts as one day more than have passed.
LEMMA OtherYear ==
  ASSUME NEW s \in Date(Int), NEW e \in Date(Int), s.year # e.year
  PROVE  LET n == DayNo(e) - DayNo(s)
         IN /\ n \in Int
            /\ s.year + 1 = e.year /\ s.mon = 12 /\ e.mon = 1 => TurnOfYear(s, e) = n + 1
            /\ s.year + 1 = e.year /\ (s.mon # 12 \/ e.mon # 1) => n > 6
            /\ s.year + 1 # e.year => n < 0 \/ n > 6
<1> DEFINE n == DayNo(e) - DayNo(s)
           before(y) == 365 * y + ((y - 1) \div 4)
           noS == DayOfYear(s)
           noE == DayOfYear(e)
<1>1. /\ s.year \in Int /\ s.mon \in 1..12 /\ s.day \in 1..31
      /\ s.day <= DaysOf(s.year, s.mon)
      /\ e.year \in Int /\ e.mon \in 1..12 /\ e.day \in 1..31
      /\ noS \in 1..365 + (IF Leap(s.year) THEN 1 ELSE 0)
      /\ noE \in 1..365 + (IF Leap(e.year) THEN 1 ELSE 0)
  BY DateParts DEF IsDate
<1>2. DayNo(s) = before(s.year) + noS /\ DayNo(e) = before(e.year) + noE
  BY DEF DayNo
<1>3. \A y \in Int : /\ before(y) \in Int
                     /\ before(y + 1) = before(y) + 365 + (IF Leap(y) THEN 1 ELSE 0)
  <2>1. SUFFICES ASSUME NEW y \in Int
                 PROVE  /\ before(y) \in Int
                        /\ before(y + 1) = before(y) + 365 + (IF Leap(y) THEN 1 ELSE 0)
    OBVIOUS
  <2>2. /\ (y - 1) \div 4 \in Int /\ y \div 4 \in Int /\ (y + 1) - 1 = y
        /\ y \div 4 = ((y - 1) \div 4) + (IF Leap(y) THEN 1 ELSE 0)
    BY YearLength
  <2>3. before(y + 1) = 365 * (y + 1) + (y \div 4)
    BY <2>2
  <2> QED
    BY <2>2, <2>3
<1>4. /\ s.year + 2 <= e.year => before(e.year) >= before(s.year) + 730
      /\ e.year + 2 <= s.year => before(s.year) >= before(e.year) + 730
  BY <1>1, YearsApart
<1> HIDE DEF before
<1>5. CASE s.year + 1 = e.year /\ s.mon = 12 /\ e.mon = 1
  <2>1. noS = 334 + s.day + (IF Leap(s.year) THEN 1 ELSE 0) /\ noE = e.day
    BY <1>5, <1>1 DEF DayOfYear, DaysBefore
  <2>2. TurnOfYear(s, e) = e.day + 32 - s.day
    BY DEF TurnOfYear
  <2>3. before(e.year) = before(s.year) + 365 + (IF Leap(s.year) THEN 1 ELSE 0)
    BY <1>1, <1>3, <1>5
  <2>4. before(e.year) \in Int /\ before(s.year) \in Int
    BY <1>1, <1>3
  <2> HIDE DEF before, noS, noE
  <2> QED
    BY <1>1, <1>2, <1>5, <2>1, <2>2, <2>3, <2>4
<1>6. CASE s.year + 1 = e.year /\ (s.mon # 12 \/ e.mon # 1)
  <2>1. noS <= 334 + (IF Leap(s.year) THEN 1 ELSE 0) \/ noE >= 32
    BY <1>6, DatePlace
  <2>2. before(e.year) = before(s.year) + 365 + (IF Leap(s.year) THEN 1 ELSE 0)
    BY <1>1, <1>3, <1>6
  <2>3. before(e.year) \in Int /\ before(s.year) \in Int
    BY <1>1, <1>3
  <2> HIDE DEF before, noS, noE
  <2> QED
    BY <1>1, <1>2, <1>6, <2>1, <2>2, <2>3
<1>7. CASE s.year + 1 # e.year
  <2>0. s.year \in Int /\ e.year \in Int /\ e.year + 1 \in Int
    BY <1>1
  <2>1. s.year + 2 <= e.year \/ e.year + 1 <= s.year
    BY <1>1, <1>7
  <2>2. before(e.year) \in Int /\ before(s.year) \in Int
    BY <1>1, <1>3
  <2>3. CASE s.year + 2 <= e.year
    <3>1. before(e.year) >= before(s.year) + 730
      BY <1>4, <2>3
    <3> HIDE DEF before, noS, noE
    <3> QED
      BY <1>1, <1>2, <1>7, <2>2, <3>1
  <2>4. CASE e.year + 1 <= s.year
    <3>1. CASE e.year + 2 <= s.year
      <4>1. before(s.year) >= before(e.year) + 730
        BY <1>4, <3>1
      <4> HIDE DEF before, noS, noE
      <4> QED
        BY <1>1, <1>2, <1>7, <2>2, <4>1
    <3>2. CASE e.year + 1 = s.year
      <4>1. before(s.year) = before(e.year) + 365 + (IF Leap(e.year) THEN 1 ELSE 0)
        BY <1>1, <1>3, <3>2
      <4> HIDE DEF before, noS, noE
      <4> QED
        BY <1>1, <1>2, <1>7, <2>2, <4>1
    <3> QED
      BY <2>0, <2>4, <3>1, <3>2
  <2> QED
    BY <2>1, <2>3, <2>4
<1> QED
  BY <1>5, <1>6, <1>7, DateParts

\* What the rule says of two dates, n days apart.
LEMMA Rule ==
  ASSUME NEW s \in Date(Int), NEW e \in Date(Int)
  PROVE  LET n == DayNo(e) - DayNo(s)
         IN /\ n \in 0..6 => ~checkMsgDateOutof7Days(s, e)
            /\ n < -1 \/ n > 8 => checkMsgDateOutof7Days(s, e)
<1> DEFINE n == DayNo(e) - DayNo(s)
           diff == sumDays(e) - sumDays(s)
           turn == TurnOfYear(s, e)
<1>1. s.year \in Int /\ e.year \in Int
  BY DateParts
<1>2. CASE s.year = e.year
  <2>1. /\ n \in Int /\ diff \in Int /\ n - 1 <= diff /\ diff <= n + 1
        /\ n >= 0 => diff >= 0 /\ diff <= n
    BY <1>2, SameYear
  <2>2. checkMsgDateOutof7Days(s, e) <=> diff < 0 \/ diff > 7
    BY <1>1, <1>2 DEF checkMsgDateOutof7Days
  <2> HIDE DEF n, diff
  <2>3. /\ n \in 0..6 => ~checkMsgDateOutof7Days(s, e)
        /\ n < -1 \/ n > 8 => checkMsgDateOutof7Days(s, e)
    BY <2>1, <2>2
  <2> QED
    BY <2>3 DEF n
<1>3. CASE s.year # e.year
  <2>1. /\ n \in Int
        /\ s.year + 1 = e.year /\ s.mon = 12 /\ e.mon = 1 => turn = n + 1
        /\ s.year + 1 = e.year /\ (s.mon # 12 \/ e.mon # 1) => n > 6
        /\ s.year + 1 # e.year => n < 0 \/ n > 6
    BY <1>3, OtherYear
  <2>2. checkMsgDateOutof7Days(s, e) <=>
          \/ s.year + 1 = e.year /\ (s.mon # 12 \/ e.mon # 1 \/ turn > 7)
          \/ s.year + 1 # e.year
    BY <1>1, <1>3 DEF checkMsgDateOutof7Days
  <2>3. s.year + 1 = e.year /\ s.mon = 12 /\ e.mon = 1 => n >= 0
    <3>1. TurnOfYear(s, e) = e.day + 32 - s.day /\ s.day \in 1..31 /\ e.day \in 1..31
      BY DateParts DEF TurnOfYear
    <3> QED
      BY <2>1, <3>1
  <2> HIDE DEF n, turn
  <2>4. /\ n \in 0..6 => ~checkMsgDateOutof7Days(s, e)
        /\ n < -1 \/ n > 8 => checkMsgDateOutof7Days(s, e)
    BY <2>1, <2>2, <2>3
  <2> QED
    BY <2>4 DEF n
<1> QED
  BY <1>2, <1>3

-----------------------------------------------------------------------------
(* The invariant: age is the difference of the numbers.                     *)

LEMMA AgeInvInit == DatesInit => AgeInv
<1> SUFFICES ASSUME DatesInit PROVE AgeInv
  OBVIOUS
<1>1. saved \in Date(FirstYear..LastYear) /\ today = saved /\ age = 0
  BY DEF DatesInit
<1>2. today \in Date(Int)
  BY <1>1, DaysAssumption DEF Date
<1>3. DayNo(today) \in Int
  BY <1>2, DateParts
<1> QED
  BY <1>1, <1>2, <1>3, DaysAssumption DEF AgeInv, DatesTypeOK

LEMMA AgeInvNext == AgeInv /\ [DatesNext]_datesVars => AgeInv'
<1> SUFFICES ASSUME AgeInv, [DatesNext]_datesVars PROVE AgeInv'
  OBVIOUS
<1>1. /\ saved \in Date(FirstYear..LastYear) /\ today \in Date(Int)
      /\ age \in -AgeBound..AgeBound /\ AgeBound \in Nat
      /\ age = DayNo(today) - DayNo(saved)
  BY DaysAssumption DEF AgeInv, DatesTypeOK
<1>2. saved \in Date(Int)
  BY <1>1, DaysAssumption DEF Date
<1>3. DayNo(today) \in Int /\ DayNo(saved) \in Int
  BY <1>1, <1>2, DateParts
<1>4. CASE DayPasses
  <2>1. today' \in Date(Int) /\ DayNo(today') = DayNo(today) + 1
    BY <1>1, <1>4, NextDay DEF DayPasses
  <2>2. saved' = saved /\ age < AgeBound /\ age' = age + 1
    BY <1>4 DEF DayPasses
  <2> QED
    BY <1>1, <1>3, <2>1, <2>2 DEF AgeInv, DatesTypeOK
<1>5. CASE ClockPutBack
  <2>1. today' \in Date(Int) /\ DayNo(today') = DayNo(today) - 1
    BY <1>1, <1>5, DayBefore DEF ClockPutBack
  <2>2. saved' = saved /\ age > -AgeBound /\ age' = age - 1
    BY <1>5 DEF ClockPutBack
  <2> QED
    BY <1>1, <1>3, <2>1, <2>2 DEF AgeInv, DatesTypeOK
<1>6. CASE UNCHANGED datesVars
  BY <1>1, <1>6 DEF datesVars, AgeInv, DatesTypeOK
<1> QED
  BY <1>4, <1>5, <1>6 DEF DatesNext

\* The dates are dates of the calendar.
THEOREM TypeCorrect == DatesSpec => []DatesTypeOK
<1>1. AgeInv => DatesTypeOK
  BY DEF AgeInv
<1> QED
  BY AgeInvInit, AgeInvNext, <1>1, PTL DEF DatesSpec

\* checkMsgDateOutof7Days keeps what is less than seven days old and drops what is
\* more than eight days old, or dated more than one day ahead: for every date, over
\* every end of a month, leap day and turn of the year.
THEOREM RuleRight == DatesSpec => []RightToADay
<1>1. AgeInv => RightToADay
  <2> SUFFICES ASSUME AgeInv
               PROVE  /\ age \in 0..6 => ~checkMsgDateOutof7Days(saved, today)
                      /\ age < -1 \/ age > 8 => checkMsgDateOutof7Days(saved, today)
    BY DEF RightToADay, WeekKept, OldDropped
  <2>1. saved \in Date(Int) /\ today \in Date(Int) /\ age = DayNo(today) - DayNo(saved)
    BY DaysAssumption DEF AgeInv, DatesTypeOK, Date
  <2> QED
    BY <2>1, Rule
<1> QED
  BY AgeInvInit, AgeInvNext, <1>1, PTL DEF DatesSpec

-----------------------------------------------------------------------------
(* Remainders.                                                              *)

\* Division with a remainder.
LEMMA Division ==
  ASSUME NEW c \in Nat \ {0}, NEW d \in Nat
  PROVE  d \div c \in Nat /\ d % c \in 0..(c - 1) /\ d = c * (d \div c) + (d % c)
OBVIOUS

\* The remainder of a multiple and a little more.
LEMMA Remainder ==
  ASSUME NEW c \in Nat \ {0}, NEW q \in Nat, NEW r \in 0..(c - 1)
  PROVE  (c * q + r) % c = r
OBVIOUS

\* A counter that goes up by one comes to the next remainder, or to zero.
LEMMA NextRemainder ==
  ASSUME NEW c \in Nat \ {0}, NEW d \in Nat
  PROVE  (d + 1) % c = IF (d % c) + 1 = c THEN 0 ELSE (d % c) + 1
<1> DEFINE q == d \div c
           r == d % c
<1>1. d = c * q + r /\ q \in Nat /\ r \in 0..(c - 1)
  BY Division
<1> HIDE DEF q, r
<1>2. CASE r + 1 = c
  <2>1. q + 1 \in Nat /\ 0 \in 0..(c - 1) /\ d + 1 = c * (q + 1) + 0
    BY <1>1, <1>2
  <2>2. (c * (q + 1) + 0) % c = 0
    BY <2>1, Remainder
  <2> QED
    BY <1>2, <2>1, <2>2 DEF r
<1>3. CASE r + 1 # c
  <2>1. r + 1 \in 0..(c - 1) /\ d + 1 = c * q + (r + 1)
    BY <1>1, <1>3
  <2> QED
    BY <1>1, <1>3, <2>1, Remainder DEF r
<1> QED
  BY <1>2, <1>3

\* The remainders of the first two numbers.
LEMMA SmallRemainder ==
  ASSUME NEW c \in Nat \ {0}
  PROVE  0 % c = 0 /\ 1 % c = IF c = 1 THEN 0 ELSE 1
OBVIOUS

-----------------------------------------------------------------------------
(* The inductive invariant.                                                 *)

Multiples(k) == cycle * k

\* Nothing was sent or kept for as long as the counter is past a multiple of
\* the cycle; the end of alarm mode sets the counter to zero.
GapInv ==
  ~changed => sinceKept <= duration % cycle \/ (duration = 0 /\ sinceKept < cycle)

\* From the newest report in the window to the oldest each is one cycle older
\* at least.
SpacedInv ==
  ~changed => \A i \in 1..Len(mMsg30SecondsQueue) :
    \/ mMsg30SecondsQueue[i] = Old
    \/ mMsg30SecondsQueue[i] >= Multiples(Len(mMsg30SecondsQueue) - i) + (duration % cycle)

\* In alarm mode the counter is the time since the alarm began.
ModeInv ==
  ~changed =>
    IF mMsgProductState = "Warn"
    THEN /\ sinceAlarm < Window + cycle
         /\ alarmModeDuration = sinceAlarm + (IF pc = "sleep" THEN 1 ELSE 0)
    ELSE sinceAlarm >= Window + cycle

WindowInv == WindowTypeOK /\ GapInv /\ SpacedInv /\ ModeInv /\ EvictedOld

\* The cycle is at most as long as the window.
LEMMA CycleRange ==
  ASSUME WindowTypeOK
  PROVE  /\ Window \in Nat \ {0} /\ Old \in Nat /\ Old = 2 * Window + 1
         /\ cycle \in 1..Window /\ cycle \in Nat \ {0}
         /\ normal \in Nat \ {0}
BY WindowAssumption DEF WindowTypeOK, Old, cycle, normal

\* Ages grow until they are beyond every number they are compared with.
LEMMA OlderType ==
  ASSUME WindowTypeOK, NEW a \in 0..Old
  PROVE  /\ Older(a) \in 0..Old /\ Older(a) >= a
         /\ a < Old => Older(a) = a + 1
         /\ a = Old => Older(a) = Old
BY CycleRange DEF Older

\* The parameters at the beginning.
LEMMA WindowInitially == WindowInit => WindowInv
<1> SUFFICES ASSUME WindowInit PROVE WindowInv
  OBVIOUS
<1>1. WindowTypeOK
  <2>1. mLastAlarmLevel \in BOOLEAN /\ changed \in BOOLEAN
    BY DEF WindowInit
  <2>2. /\ mMsg30SecondsQueue \in Seq(0..Old) /\ Len(mMsg30SecondsQueue) <= Window
        /\ sent \in Seq(0..Old) /\ evicted \in Seq(0..Old)
    BY WindowAssumption DEF WindowInit
  <2>3. /\ sleep_time \in Nat \ {0} /\ changes \in 0..ChangeBound
        /\ alarmModeDuration \in 0..Old /\ sinceKept \in 0..Old /\ sinceAlarm \in 0..Old
    BY WindowAssumption DEF WindowInit, normal, Old
  <2> QED
    BY <2>1, <2>2, <2>3 DEF WindowInit, WindowTypeOK
<1>2. sinceKept = 0 /\ duration = 0 /\ 0 % cycle = 0
  BY <1>1, CycleRange, SmallRemainder DEF WindowInit
<1>3. GapInv
  BY <1>2 DEF GapInv
<1>4. SpacedInv
  BY DEF WindowInit, SpacedInv
<1>5. ModeInv
  BY <1>1, CycleRange DEF WindowInit, ModeInv
<1>6. EvictedOld
  BY DEF WindowInit, EvictedOld
<1> QED
  BY <1>1, <1>3, <1>4, <1>5, <1>6 DEF WindowInv

\* New parameters leave the counters as they are, and nothing is said until the
\* next alarm.
LEMMA ChangeStep == WindowInv /\ vehicleConfigInit => WindowInv'
<1> SUFFICES ASSUME WindowInv, vehicleConfigInit PROVE WindowInv'
  OBVIOUS
<1>1. WindowTypeOK'
  BY WindowAssumption DEF WindowInv, WindowTypeOK, vehicleConfigInit, loopVars, sinceVars
<1>2. changed' = TRUE
  BY DEF vehicleConfigInit
<1> QED
  BY <1>1, <1>2 DEF WindowInv, GapInv, SpacedInv, ModeInv, EvictedOld

\* Before the sleep, only the counter of alarm mode goes up.
LEMMA TopStep == WindowInv /\ Top => WindowInv'
<1> SUFFICES ASSUME WindowInv, Top PROVE WindowInv'
  OBVIOUS
<1> USE DEF loopVars, sinceVars
<1>1. WindowTypeOK
  BY DEF WindowInv
<1>2. WindowTypeOK'
  <2>1. sleep_time' \in Nat \ {0} /\ alarmModeDuration' \in 0..Old
    BY <1>1, CycleRange, OlderType DEF Top, WindowTypeOK
  <2> QED
    BY <1>1, <2>1 DEF Top, WindowTypeOK
<1>3. GapInv' /\ SpacedInv' /\ EvictedOld'
  BY DEF WindowInv, GapInv, SpacedInv, EvictedOld, Multiples, Top, cycle
<1>4. ModeInv'
  <2> SUFFICES ASSUME ~changed PROVE ModeInv'
    BY DEF ModeInv, Top
  <2>1. cycle' = cycle /\ sinceAlarm' = sinceAlarm /\ mMsgProductState' = mMsgProductState
        /\ pc = "top" /\ pc' = "sleep"
    BY DEF Top, cycle
  <2>2. CASE mMsgProductState = "Normal"
    BY <2>1, <2>2 DEF WindowInv, ModeInv
  <2>3. CASE mMsgProductState = "Warn"
    <3>0. alarmModeDuration' = Older(alarmModeDuration)
      BY <2>3 DEF Top
    <3>1. alarmModeDuration = sinceAlarm /\ sinceAlarm < Window + cycle
      <4>1. sinceAlarm \in Nat
        BY <1>1 DEF WindowTypeOK
      <4> QED
        BY <2>1, <2>3, <4>1 DEF WindowInv, ModeInv
    <3>2. sinceAlarm \in 0..Old /\ sinceAlarm < Old
      BY <1>1, <3>1, CycleRange DEF WindowTypeOK
    <3>3. alarmModeDuration' = sinceAlarm + 1
      BY <1>1, <3>0, <3>1, <3>2, OlderType
    <3> QED
      BY <2>1, <2>3, <3>1, <3>3 DEF ModeInv
  <2> QED
    BY <1>1, <2>2, <2>3 DEF WindowTypeOK
<1> QED
  BY <1>2, <1>3, <1>4 DEF WindowInv

-----------------------------------------------------------------------------
(* The rest of the second, by its parts.                                    *)

\* The counter and the window an alarm leaves, and what this second does to them.
From(level3) == IF Begins(level3) THEN 0 ELSE duration
Held(level3) == IF Begins(level3) THEN <<>> ELSE Aged
Kept(level3) == Keeps(Passed(From(level3)))
Dropped(level3) == IF Kept(level3) THEN Room(Held(level3)) ELSE 0
Warned(level3) == Begins(level3) \/ mMsgProductState = "Warn"
Ends(level3) == Warned(level3) /\ Counted(level3) = Window + cycle
Newest(level3) == IF Kept(level3) THEN <<0>> ELSE <<>>

\* The second, in these parts.
LEMMA SecondParts ==
  ASSUME NEW level3 \in BOOLEAN, Second(level3)
  PROVE  /\ pc = "sleep" /\ pc' = "top" /\ mLastAlarmLevel' = level3
         /\ sent' = (IF Begins(level3) THEN Aged ELSE <<>>)
                      \o (IF Sends(From(level3)) THEN <<0>> ELSE <<>>)
         /\ evicted' = SubSeq(Held(level3), 1, Dropped(level3))
         /\ mMsg30SecondsQueue' =
              SubSeq(Held(level3), Dropped(level3) + 1, Len(Held(level3))) \o Newest(level3)
         /\ mMsgProductState' = IF Warned(level3) /\ ~Ends(level3) THEN "Warn" ELSE "Normal"
         /\ alarmModeDuration' = IF Ends(level3) THEN 0 ELSE Counted(level3)
         /\ duration' = IF Ends(level3) THEN 0 ELSE Passed(From(level3))
         /\ sinceKept' = IF Sends(From(level3)) \/ Kept(level3) THEN 0 ELSE Older(sinceKept)
         /\ sinceAlarm' = IF Begins(level3) THEN 0 ELSE Older(sinceAlarm)
         /\ changed' = (changed /\ ~Begins(level3))
         /\ UNCHANGED <<vehicleConfig, sleep_time, changes>>
BY DEF Second, From, Held, Kept, Dropped, Warned, Ends, Newest

\* The window after a second without a report kept.
LEMMA HeldType ==
  ASSUME WindowTypeOK, NEW level3 \in BOOLEAN
  PROVE  /\ Held(level3) \in Seq(0..Old) /\ Aged \in Seq(0..Old)
         /\ Len(Held(level3)) \in 0..Window
         /\ Begins(level3) => Len(Held(level3)) = 0
         /\ ~Begins(level3) =>
              /\ Len(Held(level3)) = Len(mMsg30SecondsQueue)
              /\ \A i \in 1..Len(mMsg30SecondsQueue) :
                   Held(level3)[i] = Older(mMsg30SecondsQueue[i])
<1>1. mMsg30SecondsQueue \in Seq(0..Old) /\ Len(mMsg30SecondsQueue) \in Nat
      /\ Len(mMsg30SecondsQueue) <= Window /\ Window \in Nat
  BY WindowAssumption DEF WindowTypeOK
<1>2. ASSUME NEW i \in 1..Len(mMsg30SecondsQueue) PROVE Older(mMsg30SecondsQueue[i]) \in 0..Old
  <2>1. mMsg30SecondsQueue[i] \in 0..Old
    BY <1>1, ElementOfSeq
  <2> QED
    BY <2>1, OlderType
<1>3. /\ Aged \in Seq(0..Old) /\ Len(Aged) = Len(mMsg30SecondsQueue)
      /\ \A i \in 1..Len(mMsg30SecondsQueue) : Aged[i] = Older(mMsg30SecondsQueue[i])
  <2>1. DOMAIN mMsg30SecondsQueue = 1..Len(mMsg30SecondsQueue)
    BY <1>1, LenProperties
  <2>2. Aged = [i \in 1..Len(mMsg30SecondsQueue) |-> Older(mMsg30SecondsQueue[i])]
    BY <2>1 DEF Aged
  <2> QED
    BY <1>1, <1>2, <2>2
<1>4. CASE Begins(level3)
  <2>1. Held(level3) = <<>>
    BY <1>4 DEF Held
  <2> QED
    BY <1>1, <1>3, <1>4, <2>1
<1>5. CASE ~Begins(level3)
  <2>1. Held(level3) = Aged
    BY <1>5 DEF Held
  <2> QED
    BY <1>1, <1>3, <1>5, <2>1
<1> QED
  BY <1>4, <1>5

\* What the window holds when it is full reaches back as far as it has to.
LEMMA RoomRange ==
  ASSUME WindowTypeOK, NEW level3 \in BOOLEAN
  PROVE  LET n == Window \div cycle
             L == Len(Held(level3))
         IN  /\ n \in 1..Window /\ Multiples(n) + cycle > Window
             /\ Dropped(level3) \in 0..L
             /\ Kept(level3) => L - Dropped(level3) + 1 <= Window
             /\ Dropped(level3) > 0 => Dropped(level3) = L - n + 1
<1> DEFINE n == Window \div cycle
           L == Len(Held(level3))
<1>1. L \in 0..Window /\ cycle \in 1..Window /\ Window \in Nat \ {0} /\ cycle \in Nat \ {0}
  BY HeldType, CycleRange
<1>2. n \in Nat /\ Window % cycle \in 0..(cycle - 1) /\ Window = cycle * n + (Window % cycle)
  BY <1>1, Division
<1>3. n # 0
  BY <1>1, <1>2
<1>4. n <= cycle * n
  BY <1>1, <1>2
<1>5. n \in 1..Window /\ cycle * n + cycle > Window
  <2>1. cycle * n \in Nat
    BY <1>1, <1>2
  <2> HIDE DEF n
  <2> QED
    BY <1>1, <1>2, <1>3, <1>4, <2>1
<1>6. Room(Held(level3)) = IF L >= n THEN L - n + 1 ELSE 0
  BY DEF Room
<1> HIDE DEF n, L
<1>7. Dropped(level3) = IF Kept(level3) /\ L >= n THEN L - n + 1 ELSE 0
  BY <1>6 DEF Dropped
<1>8. /\ Dropped(level3) \in 0..L
      /\ Kept(level3) => L - Dropped(level3) + 1 <= Window
      /\ Dropped(level3) > 0 => Dropped(level3) = L - n + 1
  BY <1>1, <1>5, <1>7
<1> QED
  BY <1>5, <1>8 DEF n, L, Multiples

\* What is left of the window, with the newest report behind it.
LEMMA NewWindow ==
  ASSUME WindowTypeOK, NEW level3 \in BOOLEAN, Second(level3)
  PROVE  LET m == Len(Held(level3)) - Dropped(level3)
         IN  /\ mMsg30SecondsQueue' \in Seq(0..Old)
             /\ m \in Nat
             /\ Len(mMsg30SecondsQueue') = m + (IF Kept(level3) THEN 1 ELSE 0)
             /\ \A i \in 1..m : mMsg30SecondsQueue'[i] = Held(level3)[Dropped(level3) + i]
             /\ Kept(level3) => mMsg30SecondsQueue'[m + 1] = 0
<1> DEFINE h == Held(level3)
           k == Dropped(level3)
           m == Len(h) - k
           t == SubSeq(h, k + 1, Len(h))
           z == Newest(level3)
<1>1. h \in Seq(0..Old) /\ Len(h) \in Nat /\ k \in 0..Len(h) /\ m \in Nat
  BY HeldType, RoomRange
<1>2. /\ t \in Seq(0..Old) /\ Len(t) = m
      /\ \A i \in 1..m : t[i] = h[k + i]
  <2> HIDE DEF h, k
  <2>1. ASSUME NEW i \in (k + 1)..Len(h) PROVE h[i] \in 0..Old
    <3>1. i \in 1..Len(h)
      BY <1>1
    <3> QED
      BY <1>1, <3>1, ElementOfSeq
  <2>2. /\ t \in Seq(0..Old) /\ Len(t) = IF k + 1 <= Len(h) THEN Len(h) - (k + 1) + 1 ELSE 0
        /\ \A i \in 1..(Len(h) - (k + 1) + 1) : t[i] = h[(k + 1) + i - 1]
    BY <1>1, <2>1, SubSeqProperties
  <2> HIDE DEF t
  <2>3. Len(t) = m
    BY <1>1, <2>2
  <2>4. ASSUME NEW i \in 1..m PROVE t[i] = h[k + i]
    <3>1. i \in 1..(Len(h) - (k + 1) + 1) /\ (k + 1) + i - 1 = k + i
      BY <1>1
    <3> QED
      BY <2>2, <3>1
  <2> QED
    BY <2>2, <2>3, <2>4
<1>3. z \in Seq(0..Old) /\ Len(z) = (IF Kept(level3) THEN 1 ELSE 0) /\ (Kept(level3) => z[1] = 0)
  <2>1. 0 \in 0..Old
    BY CycleRange
  <2>2. CASE Kept(level3)
    BY <2>1, <2>2 DEF Newest
  <2>3. CASE ~Kept(level3)
    BY <2>3 DEF Newest
  <2> QED
    BY <2>2, <2>3
<1>4. mMsg30SecondsQueue' = t \o z
  BY SecondParts
<1> HIDE DEF h, k, m, t, z
<1>5. /\ t \o z \in Seq(0..Old) /\ Len(t \o z) = Len(t) + Len(z)
      /\ \A i \in 1..(Len(t) + Len(z)) : (t \o z)[i] = IF i <= Len(t) THEN t[i] ELSE z[i - Len(t)]
  BY <1>2, <1>3, ConcatProperties
<1>6. \A i \in 1..m : (t \o z)[i] = h[k + i]
  BY <1>1, <1>2, <1>3, <1>5
<1>7. Kept(level3) => (t \o z)[m + 1] = 0
  BY <1>1, <1>2, <1>3, <1>5
<1> QED
  BY <1>1, <1>2, <1>3, <1>4, <1>5, <1>6, <1>7 DEF h, k, m

\* A second leaves the types.
LEMMA SecondTypes ==
  ASSUME WindowTypeOK, NEW level3 \in BOOLEAN, Second(level3)
  PROVE  WindowTypeOK'
<1>1. /\ From(level3) \in Nat /\ Passed(From(level3)) \in Nat
      /\ Counted(level3) \in 0..Old
  BY CycleRange DEF WindowTypeOK, From, Passed, Counted
<1>2. duration' \in Nat /\ alarmModeDuration' \in 0..Old /\ mMsgProductState' \in {"Normal", "Warn"}
  <2>1. /\ duration' = IF Ends(level3) THEN 0 ELSE Passed(From(level3))
        /\ alarmModeDuration' = IF Ends(level3) THEN 0 ELSE Counted(level3)
        /\ mMsgProductState' = IF Warned(level3) /\ ~Ends(level3) THEN "Warn" ELSE "Normal"
    BY SecondParts
  <2> QED
    BY <1>1, <2>1, CycleRange
<1>3. sinceKept' \in 0..Old /\ sinceAlarm' \in 0..Old
  <2>1. sinceKept \in 0..Old /\ sinceAlarm \in 0..Old /\ 0 \in 0..Old
    BY CycleRange DEF WindowTypeOK
  <2>2. Older(sinceKept) \in 0..Old /\ Older(sinceAlarm) \in 0..Old
    BY <2>1, OlderType
  <2> QED
    BY <2>1, <2>2, SecondParts
<1>4. mMsg30SecondsQueue' \in Seq(0..Old) /\ Len(mMsg30SecondsQueue') <= Window
  <2>1. Len(Held(level3)) \in 0..Window /\ Dropped(level3) \in 0..Len(Held(level3))
        /\ (Kept(level3) => Len(Held(level3)) - Dropped(level3) + 1 <= Window) /\ Window \in Nat
    BY HeldType, RoomRange, CycleRange
  <2>2. mMsg30SecondsQueue' \in Seq(0..Old)
        /\ Len(mMsg30SecondsQueue') = Len(Held(level3)) - Dropped(level3) + (IF Kept(level3) THEN 1 ELSE 0)
    BY NewWindow
  <2> QED
    BY <2>1, <2>2
<1>5. evicted' \in Seq(0..Old)
  <2>1. Held(level3) \in Seq(0..Old) /\ Dropped(level3) \in 0..Len(Held(level3))
    BY HeldType, RoomRange
  <2>2. ASSUME NEW i \in 1..Dropped(level3) PROVE Held(level3)[i] \in 0..Old
    <3>1. i \in 1..Len(Held(level3))
      BY <2>1, LenProperties
    <3> QED
      BY <2>1, <3>1, ElementOfSeq
  <2>3. Dropped(level3) \in Int
    BY <2>1, LenProperties
  <2>4. SubSeq(Held(level3), 1, Dropped(level3)) \in Seq(0..Old)
    BY <2>2, <2>3, SubSeqProperties
  <2> QED
    BY <2>4, SecondParts
<1>6. sent' \in Seq(0..Old)
  <2>1. Aged \in Seq(0..Old) /\ <<>> \in Seq(0..Old) /\ <<0>> \in Seq(0..Old)
    BY HeldType, CycleRange
  <2>2. \A s, t \in Seq(0..Old) : s \o t \in Seq(0..Old)
    BY ConcatProperties
  <2> QED
    BY <2>1, <2>2, SecondParts
<1>7. mLastAlarmLevel' \in BOOLEAN /\ changed' \in BOOLEAN /\ pc' \in {"top", "sleep"}
  BY SecondParts
<1>8. UNCHANGED <<vehicleConfig, sleep_time, changes>>
  BY SecondParts
<1> QED
  BY <1>2, <1>3, <1>4, <1>5, <1>6, <1>7, <1>8 DEF WindowTypeOK

\* A second in which the counter does not begin anew brings it to the next
\* remainder; when that is zero a report is kept.
LEMMA CounterPasses ==
  ASSUME WindowTypeOK, NEW level3 \in BOOLEAN
  PROVE  /\ Passed(From(level3)) \in Nat
         /\ Kept(level3) <=> Passed(From(level3)) % cycle = 0
         /\ Sends(From(level3)) =>
              Passed(From(level3)) % cycle = IF cycle = 1 THEN 0 ELSE 1
         /\ ~Sends(From(level3)) =>
              /\ ~Begins(level3) /\ From(level3) = duration
              /\ duration # 0
              /\ Passed(From(level3)) % cycle =
                   IF (duration % cycle) + 1 = cycle THEN 0 ELSE (duration % cycle) + 1
<1>1. duration \in Nat /\ sleep_time \in Nat \ {0} /\ cycle \in Nat \ {0}
  BY CycleRange DEF WindowTypeOK
<1>2. Sends(0)
  BY <1>1, SmallRemainder DEF Sends
<1>3. From(level3) \in Nat
  BY <1>1 DEF From
<1>4. Passed(From(level3)) = IF Sends(From(level3)) THEN 1 ELSE From(level3) + 1
  BY DEF Passed
<1>5. Kept(level3) <=> Passed(From(level3)) % cycle = 0
  BY DEF Kept, Keeps
<1>6. ASSUME Sends(From(level3))
      PROVE  Passed(From(level3)) % cycle = IF cycle = 1 THEN 0 ELSE 1
  BY <1>1, <1>4, <1>6, SmallRemainder
<1>7. ASSUME ~Sends(From(level3))
      PROVE  /\ ~Begins(level3) /\ From(level3) = duration /\ duration # 0
             /\ Passed(From(level3)) % cycle =
                  IF (duration % cycle) + 1 = cycle THEN 0 ELSE (duration % cycle) + 1
  <2>1. ~Begins(level3) /\ From(level3) = duration /\ duration # 0
    BY <1>2, <1>7 DEF From
  <2> QED
    BY <1>1, <1>4, <1>7, <2>1, NextRemainder
<1> QED
  BY <1>3, <1>4, <1>5, <1>6, <1>7

\* In a second without a report sent or kept, the time since the last one and the
\* remainder of the counter both go up by one.
LEMMA SecondGap ==
  ASSUME WindowInv, NEW level3 \in BOOLEAN, Second(level3)
  PROVE  GapInv'
<1>1. WindowTypeOK
  BY DEF WindowInv
<1>2. /\ cycle \in 1..Window /\ cycle \in Nat \ {0} /\ Window \in Nat /\ Old = 2 * Window + 1
      /\ cycle' = cycle
  BY <1>1, CycleRange, SecondParts DEF cycle
<1>3. duration \in Nat /\ sinceKept \in 0..Old
  BY <1>1 DEF WindowTypeOK
<1> DEFINE p == Passed(From(level3)) % cycle
<1>4. Passed(From(level3)) \in Nat /\ p \in 0..(cycle - 1) /\ duration % cycle \in 0..(cycle - 1)
  BY <1>1, <1>2, <1>3, CounterPasses, Division
<1>5. ASSUME ~changed' PROVE sinceKept' <= p
  <2>1. CASE Sends(From(level3)) \/ Kept(level3)
    <3>1. sinceKept' = 0
      BY <2>1, SecondParts
    <3> QED
      BY <1>2, <1>4, <3>1
  <2>2. CASE ~Sends(From(level3)) /\ ~Kept(level3)
    <3>1. ~changed /\ p = (duration % cycle) + 1 /\ duration # 0 /\ sinceKept' = Older(sinceKept)
      <4>1. ~Begins(level3) /\ duration # 0 /\ p # 0
            /\ p = IF (duration % cycle) + 1 = cycle THEN 0 ELSE (duration % cycle) + 1
        BY <1>1, <2>2, CounterPasses
      <4> QED
        BY <1>5, <2>2, <4>1, SecondParts
    <3>2. sinceKept <= duration % cycle
      BY <3>1 DEF WindowInv, GapInv
    <3>3. sinceKept < Old
      BY <1>2, <1>3, <1>4, <3>2
    <3>4. sinceKept' = sinceKept + 1
      BY <1>1, <1>3, <3>1, <3>3, OlderType
    <3> QED
      BY <1>3, <1>4, <3>1, <3>2, <3>4
  <2> QED
    BY <2>1, <2>2
<1>6. duration' = 0 \/ duration' = Passed(From(level3))
  BY SecondParts
<1>7. sinceKept' \in Nat
  BY <1>1, SecondTypes DEF WindowTypeOK
<1> SUFFICES ASSUME ~changed'
             PROVE  sinceKept' <= duration' % cycle \/ (duration' = 0 /\ sinceKept' < cycle)
  BY <1>2 DEF GapInv
<1>8. sinceKept' <= p /\ sinceKept' < cycle
  BY <1>2, <1>4, <1>5, <1>7
<1> QED
  BY <1>6, <1>8

\* The counter of alarm mode stays with the time since the alarm began, to its end.
LEMMA SecondMode ==
  ASSUME WindowInv, NEW level3 \in BOOLEAN, Second(level3)
  PROVE  ModeInv'
<1>1. WindowTypeOK
  BY DEF WindowInv
<1>2. /\ cycle \in 1..Window /\ Window \in Nat /\ Old = 2 * Window + 1 /\ cycle' = cycle
      /\ sinceAlarm \in 0..Old
  BY <1>1, CycleRange, SecondParts DEF cycle, WindowTypeOK
<1>3. pc = "sleep" /\ pc' = "top"
  BY SecondParts
<1> SUFFICES ASSUME ~changed' PROVE ModeInv'
  BY DEF ModeInv
<1>4. CASE Begins(level3)
  <2>1. Counted(level3) = 0 /\ Warned(level3) /\ ~Ends(level3)
    BY <1>2, <1>4 DEF Counted, Warned, Ends
  <2>2. mMsgProductState' = "Warn" /\ alarmModeDuration' = 0 /\ sinceAlarm' = 0
    BY <1>4, <2>1, SecondParts
  <2> QED
    BY <1>2, <1>3, <2>2 DEF ModeInv
<1>5. CASE ~Begins(level3)
  <2>1. ~changed /\ sinceAlarm' = Older(sinceAlarm) /\ Counted(level3) = alarmModeDuration
    BY <1>5, SecondParts DEF Counted
  <2>2. CASE mMsgProductState = "Warn"
    <3>1. sinceAlarm < Window + cycle /\ alarmModeDuration = sinceAlarm + 1
      BY <1>3, <2>1, <2>2 DEF WindowInv, ModeInv
    <3>2. sinceAlarm' = sinceAlarm + 1
      BY <1>1, <1>2, <2>1, <3>1, OlderType
    <3>3. Warned(level3) /\ (Ends(level3) <=> sinceAlarm + 1 = Window + cycle)
      BY <2>1, <2>2, <3>1 DEF Warned, Ends
    <3>4. CASE Ends(level3)
      <4>1. mMsgProductState' = "Normal"
        BY <3>4, SecondParts
      <4> QED
        BY <1>2, <3>2, <3>3, <3>4, <4>1 DEF ModeInv
    <3>5. CASE ~Ends(level3)
      <4>1. mMsgProductState' = "Warn" /\ alarmModeDuration' = alarmModeDuration
        BY <2>1, <3>3, <3>5, SecondParts
      <4> QED
        BY <1>2, <1>3, <3>1, <3>2, <3>3, <3>5, <4>1 DEF ModeInv
    <3> QED
      BY <3>4, <3>5
  <2>3. CASE mMsgProductState = "Normal"
    <3>1. sinceAlarm >= Window + cycle /\ ~Warned(level3)
      BY <1>5, <2>1, <2>3 DEF WindowInv, ModeInv, Warned
    <3>2. mMsgProductState' = "Normal"
      BY <3>1, SecondParts
    <3>3. sinceAlarm' >= sinceAlarm /\ sinceAlarm' \in Nat
      BY <1>1, <1>2, <2>1, OlderType
    <3> QED
      BY <1>2, <3>1, <3>2, <3>3 DEF ModeInv
  <2> QED
    BY <1>1, <2>2, <2>3 DEF WindowTypeOK
<1> QED
  BY <1>4, <1>5

\* A multiple and one more.
LEMMA NextMultiple ==
  ASSUME WindowTypeOK, NEW k \in Nat
  PROVE  Multiples(k) \in Nat /\ Multiples(k + 1) = Multiples(k) + cycle
<1>1. cycle \in Nat
  BY CycleRange
<1> QED
  BY <1>1 DEF Multiples

\* More cycles are longer.
LEMMA MoreMultiples ==
  ASSUME WindowTypeOK, NEW j \in Nat, NEW k \in Nat, j <= k
  PROVE  Multiples(j) <= Multiples(k)
<1>1. cycle \in Nat /\ cycle * k = cycle * j + cycle * (k - j) /\ cycle * (k - j) >= 0
  BY CycleRange
<1> QED
  BY <1>1 DEF Multiples

\* Before it makes room, the window is as the counter says after this second: a
\* whole cycle past the newest report when one is kept.
LEMMA HeldSpaced ==
  ASSUME WindowInv, NEW level3 \in BOOLEAN, Second(level3), ~changed',
         NEW i \in 1..Len(Held(level3))
  PROVE  LET L == Len(Held(level3))
         IN  \/ Held(level3)[i] = Old
             \/ /\ Kept(level3) => Held(level3)[i] >= Multiples(L - i + 1)
                /\ ~Kept(level3) =>
                     Held(level3)[i] >= Multiples(L - i) + (Passed(From(level3)) % cycle)
<1> DEFINE q == mMsg30SecondsQueue
           L == Len(q)
           p == Passed(From(level3)) % cycle
           r == duration % cycle
<1>1. WindowTypeOK
  BY DEF WindowInv
<1>2. /\ ~Begins(level3) /\ Len(Held(level3)) = L /\ Held(level3)[i] = Older(q[i])
      /\ i \in 1..L
  BY <1>1, HeldType
<1>3. ~changed
  BY <1>2, SecondParts
<1>4. q \in Seq(0..Old) /\ L \in Nat /\ duration \in Nat
  BY <1>1, LenProperties DEF WindowTypeOK
<1>5. q[i] \in 0..Old /\ L - i \in Nat
  <2> HIDE DEF q
  <2>1. q[i] \in 0..Old
    BY <1>2, <1>4, ElementOfSeq
  <2>2. L - i \in Nat
    <3> HIDE DEF L
    <3> QED
      BY <1>2, <1>4
  <2> QED
    BY <2>1, <2>2
<1>6. cycle \in Nat \ {0} /\ Old \in Nat
  BY <1>1, CycleRange
<1>7. q[i] = Old \/ q[i] >= Multiples(L - i) + r
  BY <1>2, <1>3 DEF WindowInv, SpacedInv
<1>8. r \in 0..(cycle - 1) /\ p \in 0..(cycle - 1) /\ (Kept(level3) <=> p = 0)
  BY <1>1, <1>4, <1>6, CounterPasses, Division
<1>9. \/ p = r + 1
      \/ p = 0 /\ r + 1 = cycle
      \/ p = 1
  BY <1>1, <1>6, <1>8, CounterPasses
<1>10. Multiples(L - i) \in Nat /\ Multiples(L - i + 1) = Multiples(L - i) + cycle
  BY <1>1, <1>5, NextMultiple
<1>11. CASE q[i] = Old
  BY <1>1, <1>2, <1>5, <1>11, OlderType
<1>12. CASE q[i] # Old
  <2>1. Older(q[i]) = q[i] + 1
    BY <1>1, <1>5, <1>6, <1>12, OlderType
  <2> HIDE DEF p, r, L, q
  <2>2. Kept(level3) => q[i] + 1 >= Multiples(L - i + 1)
    BY <1>5, <1>6, <1>7, <1>8, <1>9, <1>10, <1>12
  <2>3. ~Kept(level3) => q[i] + 1 >= Multiples(L - i) + p
    BY <1>5, <1>6, <1>7, <1>8, <1>9, <1>10, <1>12
  <2> QED
    BY <1>2, <2>1, <2>2, <2>3 DEF p
<1> QED
  BY <1>11, <1>12

\* The reports that are left keep their places from the newest one.
LEMMA SecondSpaced ==
  ASSUME WindowInv, NEW level3 \in BOOLEAN, Second(level3)
  PROVE  SpacedInv'
<1> SUFFICES ASSUME ~changed', NEW i \in 1..Len(mMsg30SecondsQueue')
             PROVE  \/ mMsg30SecondsQueue'[i] = Old
                    \/ mMsg30SecondsQueue'[i] >=
                         Multiples(Len(mMsg30SecondsQueue') - i) + (duration' % cycle)
  <2>1. cycle' = cycle /\ Old' = Old
    BY SecondParts DEF cycle, Old
  <2> QED
    BY <2>1 DEF SpacedInv, Multiples
<1> DEFINE h == Held(level3)
           k == Dropped(level3)
           m == Len(h) - k
           p == Passed(From(level3)) % cycle
           q == mMsg30SecondsQueue'
<1>1. WindowTypeOK
  BY DEF WindowInv
<1>2. cycle \in Nat \ {0} /\ Old \in Nat /\ Len(h) \in Nat /\ k \in 0..Len(h)
  BY <1>1, CycleRange, HeldType, RoomRange
<1>3. /\ q \in Seq(0..Old) /\ m \in Nat /\ Len(q) = m + (IF Kept(level3) THEN 1 ELSE 0)
      /\ \A j \in 1..m : q[j] = h[k + j]
      /\ Kept(level3) => q[m + 1] = 0
  BY <1>1, NewWindow
<1>4. Passed(From(level3)) \in Nat /\ p \in 0..(cycle - 1) /\ (Kept(level3) <=> p = 0)
  BY <1>1, <1>2, CounterPasses, Division
<1>5. duration' % cycle = 0 \/ duration' % cycle = p
  <2>1. duration' = 0 \/ duration' = Passed(From(level3))
    BY SecondParts
  <2> QED
    BY <1>2, <2>1, SmallRemainder
<1>6. CASE i \in 1..m
  <2>1. k + i \in 1..Len(h) /\ q[i] = h[k + i]
    BY <1>2, <1>3, <1>6
  <2>2. \/ h[k + i] = Old
        \/ /\ Kept(level3) => h[k + i] >= Multiples(Len(h) - (k + i) + 1)
           /\ ~Kept(level3) => h[k + i] >= Multiples(Len(h) - (k + i)) + p
    BY <2>1, HeldSpaced
  <2>3. h[k + i] \in 0..Old
    BY <1>1, <2>1, HeldType, ElementOfSeq
  <2>4. m - i \in Nat /\ Multiples(m - i) \in Nat
    <3> HIDE DEF m
    <3>1. m - i \in Nat
      BY <1>3, <1>6
    <3> QED
      BY <1>1, <3>1, NextMultiple
  <2>5. CASE Kept(level3)
    <3>1. Len(q) - i = Len(h) - (k + i) + 1 /\ duration' % cycle = 0
      BY <1>2, <1>3, <1>4, <1>5, <2>5
    <3>2. Multiples(Len(q) - i) \in Nat
      <4>1. Len(q) - i \in Nat
        BY <1>3, <1>6, <2>5
      <4> QED
        BY <1>1, <4>1, NextMultiple
    <3> QED
      BY <2>1, <2>2, <2>3, <2>5, <3>1, <3>2
  <2>6. CASE ~Kept(level3)
    <3>1. Len(q) - i = Len(h) - (k + i) /\ Len(q) - i = m - i
      BY <1>2, <1>3, <2>6
    <3>2. h[k + i] = Old \/ h[k + i] >= Multiples(m - i) + p
      BY <2>2, <2>6, <3>1
    <3>3. duration' % cycle \in 0..p
      BY <1>4, <1>5
    <3> DEFINE M == Multiples(m - i)
               d == duration' % cycle
               a == h[k + i]
    <3>4. M + p >= M + d /\ (a = Old \/ a >= M + p) /\ M \in Nat /\ d \in Nat /\ p \in Nat /\ a \in Nat
      <4> HIDE DEF M, d, a, p
      <4>1. (a = Old \/ a >= M + p) /\ M \in Nat /\ a \in 0..Old
        BY <2>3, <2>4, <3>2 DEF M, a
      <4>2. d \in 0..p /\ p \in Nat
        BY <1>4, <3>3 DEF d, p
      <4> QED
        BY <1>2, <4>1, <4>2
    <3>5. a = Old \/ a >= M + d
      <4> HIDE DEF M, d, a, p
      <4> QED
        BY <3>4
    <3> QED
      BY <2>1, <3>1, <3>5
  <2> QED
    BY <2>5, <2>6
<1>7. CASE i \notin 1..m
  <2>1. Kept(level3) /\ i = m + 1 /\ Len(q) = i
    BY <1>3, <1>7
  <2>2. q[i] = 0 /\ duration' % cycle = 0
    BY <1>3, <1>4, <1>5, <2>1
  <2>3. Multiples(Len(q) - i) = 0
    BY <1>2, <1>3, <2>1 DEF Multiples
  <2> QED
    BY <2>2, <2>3
<1> QED
  BY <1>6, <1>7

\* What is dropped lies further back than what is left.
LEMMA CountFromEnd ==
  ASSUME NEW L \in Nat, NEW n \in Nat, NEW k \in Int, k = L - n + 1, NEW i \in 1..k
  PROVE  L - i + 1 \in Nat /\ n <= L - i + 1
OBVIOUS

\* Behind a report that is dropped, the window is full: n cycles.
LEMMA SecondEvicted ==
  ASSUME WindowInv, NEW level3 \in BOOLEAN, Second(level3)
  PROVE  EvictedOld'
<1> DEFINE h == Held(level3)
           k == Dropped(level3)
           n == Window \div cycle
<1>1. WindowTypeOK
  BY DEF WindowInv
<1>2. /\ cycle \in Nat \ {0} /\ Old = 2 * Window + 1 /\ Window \in Nat /\ cycle' = cycle
      /\ Len(h) \in Nat /\ h \in Seq(0..Old)
  <2>1. cycle' = cycle
    BY SecondParts DEF cycle
  <2>2. cycle \in Nat \ {0} /\ Old = 2 * Window + 1 /\ Window \in Nat
    BY <1>1, CycleRange
  <2>3. h \in Seq(0..Old)
    BY <1>1, HeldType
  <2>4. Len(h) \in Nat
    BY <2>3, LenProperties
  <2> QED
    BY <2>1, <2>2, <2>3, <2>4
<1>3. /\ n \in 1..Window /\ Multiples(n) + cycle > Window
      /\ k \in 0..Len(h)
      /\ k > 0 => k = Len(h) - n + 1
  BY <1>1, RoomRange
<1>4. k > 0 => Kept(level3)
  BY DEF Dropped
<1> SUFFICES ASSUME ~changed', NEW i \in DOMAIN evicted' PROVE evicted'[i] + cycle > Window
  BY <1>2 DEF EvictedOld
<1>5. i \in 1..k /\ evicted'[i] = h[i]
  <2>1. ASSUME NEW j \in 1..k PROVE h[j] \in 0..Old
    <3>1. j \in 1..Len(h)
      BY <1>2, <1>3
    <3> QED
      BY <1>2, <3>1, ElementOfSeq
  <2>2. k \in Int /\ k - 1 + 1 = k
    BY <1>2, <1>3
  <2> DEFINE e == SubSeq(h, 1, k)
  <2> HIDE DEF h, k
  <2>3. /\ e \in Seq(0..Old) /\ Len(e) = (IF 1 <= k THEN k - 1 + 1 ELSE 0)
        /\ \A j \in 1..(k - 1 + 1) : e[j] = h[1 + j - 1]
    BY <2>1, <2>2, SubSeqProperties
  <2>4. evicted' = e
    BY SecondParts DEF h, k
  <2> HIDE DEF e
  <2>5. DOMAIN e = 1..Len(e)
    BY <2>3, LenProperties
  <2>6. i \in 1..k
    BY <1>2, <1>3, <2>3, <2>4, <2>5
  <2> QED
    BY <2>2, <2>3, <2>4, <2>6
<1>6. i \in 1..Len(h) /\ Kept(level3) /\ k = Len(h) - n + 1
  BY <1>2, <1>3, <1>4, <1>5
<1>7. h[i] = Old \/ h[i] >= Multiples(Len(h) - i + 1)
  BY <1>6, HeldSpaced
<1>8. h[i] \in 0..Old
  BY <1>2, <1>6, ElementOfSeq
<1>9. Multiples(n) <= Multiples(Len(h) - i + 1) /\ Multiples(n) \in Nat
      /\ Multiples(Len(h) - i + 1) \in Nat
  <2> HIDE DEF n, h, k
  <2>1. n \in Nat /\ Len(h) - i + 1 \in Nat /\ n <= Len(h) - i + 1
    <3> DEFINE L == Len(h)
    <3>1. L \in Nat /\ n \in 1..Window /\ k \in 0..L /\ k = L - n + 1 /\ i \in 1..k /\ Window \in Nat
      BY <1>2, <1>3, <1>5, <1>6
    <3> HIDE DEF L
    <3>2. n \in Nat /\ k \in Int
      BY <3>1
    <3>3. L - i + 1 \in Nat /\ n <= L - i + 1
      BY <3>1, <3>2, CountFromEnd
    <3> QED
      BY <3>2, <3>3 DEF L
  <2> QED
    BY <1>1, <2>1, MoreMultiples, NextMultiple
<1> DEFINE M == Multiples(n)
           N == Multiples(Len(h) - i + 1)
           a == evicted'[i]
<1>10. /\ a = Old \/ a >= N
       /\ M <= N /\ M + cycle > Window /\ M \in Nat /\ N \in Nat /\ a \in 0..Old
  BY <1>3, <1>5, <1>7, <1>8, <1>9
<1>11. a + cycle > Window
  <2> HIDE DEF M, N, a
  <2> QED
    BY <1>2, <1>10
<1> QED
  BY <1>11

\* Every step preserves the invariant.
LEMMA WindowStep == WindowInv /\ [WindowNext]_windowVars => WindowInv'
<1> SUFFICES ASSUME WindowInv, [WindowNext]_windowVars PROVE WindowInv'
  OBVIOUS
<1>1. CASE vehicleConfigInit
  BY <1>1, ChangeStep
<1>2. CASE Top
  BY <1>2, TopStep
<1>3. ASSUME NEW level3 \in BOOLEAN, Second(level3) PROVE WindowInv'
  BY <1>3, SecondTypes, SecondGap, SecondSpaced, SecondMode, SecondEvicted DEF WindowInv
<1>4. CASE UNCHANGED windowVars
  BY <1>4 DEF windowVars, loopVars, sinceVars, WindowInv, WindowTypeOK, GapInv, SpacedInv,
     ModeInv, EvictedOld, Multiples, cycle
<1> QED
  BY <1>1, <1>2, <1>3, <1>4 DEF WindowNext, EverySecond

\* The invariant of the task, with parameters loaded anew at any time.
THEOREM WindowInvariant == WindowSpec => []WindowInv
BY WindowInitially, WindowStep, PTL DEF WindowSpec

\* The variables of MessageCreateTask have their types, and the window never holds more
\* reports than it has seconds.
THEOREM WindowTypes == WindowSpec => []WindowTypeOK
<1>1. WindowInv => WindowTypeOK
  BY DEF WindowInv
<1> QED
  BY WindowInvariant, <1>1, PTL

\* MessageCreateTask sends or keeps a report in every alarm cycle, for every normal
\* cycle, over the beginning and the end of an alarm, and whether or not one cycle is a
\* multiple of the other.
THEOREM NoGapLeft == WindowSpec => []NoGap
<1>1. WindowInv => NoGap
  <2> SUFFICES ASSUME WindowInv, ~changed PROVE sinceKept < cycle
    BY DEF NoGap
  <2>1. cycle \in Nat \ {0} /\ duration \in Nat /\ sinceKept \in Nat
    BY CycleRange DEF WindowInv, WindowTypeOK
  <2>2. duration % cycle \in 0..(cycle - 1)
    BY <2>1, Division
  <2> QED
    BY <2>1, <2>2 DEF WindowInv, GapInv
<1> QED
  BY WindowInvariant, <1>1, PTL

\* MessageCreateTask drops no report from the window that the platform would miss: with
\* the ones that are left it reaches back Window seconds, to within one cycle, also when
\* the cycle does not divide the window.
THEOREM WindowReachesBack == WindowSpec => []EvictedOld
<1>1. WindowInv => EvictedOld
  BY DEF WindowInv
<1> QED
  BY WindowInvariant, <1>1, PTL

\* MessageCreateTask leaves alarm mode Window and one cycle of seconds after the last
\* alarm began, and not before.
THEOREM AlarmModeTime == WindowSpec => []AlarmModeLasts
<1>1. WindowInv => AlarmModeLasts
  <2> SUFFICES ASSUME WindowInv, ~changed
               PROVE  mMsgProductState = "Warn" <=> sinceAlarm < Window + cycle
    BY DEF AlarmModeLasts
  <2>1. /\ mMsgProductState \in {"Normal", "Warn"} /\ sinceAlarm \in Nat
        /\ cycle \in Nat /\ Window \in Nat
    BY CycleRange DEF WindowInv, WindowTypeOK
  <2> QED
    BY <2>1 DEF WindowInv, ModeInv
<1> QED
  BY WindowInvariant, <1>1, PTL
=============================================================================
