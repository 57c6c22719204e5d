------------------------------ MODULE OneYearRange ------------------------------
(***************************************************************************)
(* one_year_range (scripts/run_kiwoom_intraday_workflow.py): the days whose*)
(* deposits and withdrawals a run asks for, in the calendar of datetime.   *)
(***************************************************************************)
EXTENDS Integers

Leap(year) == year % 4 = 0 /\ (year % 100 # 0 \/ year % 400 = 0)

DaysIn(month, year) ==
  IF month = 2 THEN IF Leap(year) THEN 29 ELSE 28
  ELSE IF month \in {4, 6, 9, 11} THEN 30 ELSE 31

\* A date of datetime: what is none raises ValueError.
Exists(date) == date.month \in 1 .. 12 /\ date.day \in 1 .. DaysIn(date.month, date.year)

\* date + timedelta(days=1)
DayAfter(date) ==
  IF date.day < DaysIn(date.month, date.year) THEN [date EXCEPT !.day = @ + 1]
  ELSE IF date.month < 12 THEN [year |-> date.year, month |-> date.month + 1, day |-> 1]
  ELSE [year |-> date.year + 1, month |-> 1, day |-> 1]

\* The same day of the year before, which on 29 February is none.
YearBefore(date) == [date EXCEPT !.year = @ - 1]

\* Mutant: the same day of both years is in the range.
RangeOfSameDay(date) == <<YearBefore(date), date>>

\* end.replace(year=end.year - 1) + timedelta(days=1)
OneYear(date) == <<DayAfter(YearBefore(date)), date>>

\* The leap days of the first so many years.
LeapDays(years) == years \div 4 - years \div 100 + years \div 400

\* The days of a year before each month, but for the leap day.
DaysBefore == <<0, 31, 59, 90, 120, 151, 181, 212, 243, 273, 304, 334>>

\* The days since the beginning of the calendar.
DayNumber(date) ==
  365 * (date.year - 1) + LeapDays(date.year - 1) + DaysBefore[date.month] + date.day
    + (IF Leap(date.year) /\ date.month > 2 THEN 1 ELSE 0)

\* From the first to the last day there are 366 days if a leap day is among them,
\* and 365 otherwise.
WholeYear(first, last) ==
  LET leapDays == {DayNumber([year |-> y, month |-> 2, day |-> 29]) :
                     y \in {z \in {first.year, last.year} : Leap(z)}}
      days     == DayNumber(first) .. DayNumber(last)
  IN DayNumber(last) - DayNumber(first) + 1
       = IF leapDays \cap days = {} THEN 365 ELSE 366
=============================================================================
