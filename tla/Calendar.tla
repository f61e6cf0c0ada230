------------------------------- MODULE Calendar -------------------------------
(***************************************************************************)
(* The periods of observations (ingestion/runtime/calendar.py): from the   *)
(* date a provider gives and the frequency of the series, the first and    *)
(* the last day of the period.  Dates are those of the proleptic Gregorian *)
(* calendar.                                                               *)
(***************************************************************************)
EXTENDS Integers

Frequencies == {"D", "W", "M", "Q", "S", "A"}

IsLeap(year) == year % 4 = 0 /\ (year % 100 # 0 \/ year % 400 = 0)

MonthLength(year, month) ==
  IF month \in {4, 6, 9, 11} THEN 30
  ELSE IF month # 2 THEN 31 ELSE IF IsLeap(year) THEN 29 ELSE 28

Date(year, month, day) == [year |-> year, month |-> month, day |-> day]

IsDate(d) ==
  /\ d = Date(d.year, d.month, d.day)
  /\ d.year \in Nat \ {0} /\ d.month \in 1..12 /\ d.day \in 1..MonthLength(d.year, d.month)

\* d is not after e.
NotAfter(d, e) ==
  \/ d.year < e.year
  \/ d.year = e.year /\ d.month < e.month
  \/ d.year = e.year /\ d.month = e.month /\ d.day <= e.day

\* The day six days later.
WeekAfter(d) ==
  LET last == MonthLength(d.year, d.month)
  IN IF d.day + 6 <= last THEN Date(d.year, d.month, d.day + 6)
     ELSE IF d.month < 12 THEN Date(d.year, d.month + 1, d.day + 6 - last)
     ELSE Date(d.year + 1, 1, d.day + 6 - last)

\* Mutant: the quarter of the next month.
QuarterStartMonth(month) == (month \div 3) * 3 + 1

QuarterStart(month) == ((month - 1) \div 3) * 3 + 1

\* From the first day of one month to the last of another.
Months(year, first, last) ==
  [start |-> Date(year, first, 1), end |-> Date(year, last, MonthLength(year, last))]

PeriodBounds(anchor, frequency) ==
  CASE frequency = "D" -> [start |-> anchor, end |-> anchor]
    [] frequency = "W" -> [start |-> anchor, end |-> WeekAfter(anchor)]
    [] frequency = "M" -> Months(anchor.year, anchor.month, anchor.month)
    [] frequency = "Q" -> Months(anchor.year, QuarterStart(anchor.month), QuarterStart(anchor.month) + 2)
    [] frequency = "S" -> IF anchor.month <= 6 THEN Months(anchor.year, 1, 6) ELSE Months(anchor.year, 7, 12)
    [] frequency = "A" -> Months(anchor.year, 1, 12)
===============================================================================
