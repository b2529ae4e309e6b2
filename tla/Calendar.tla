------------------------------- MODULE Calendar -------------------------------
(***************************************************************************)
(* _add_calendar_month (src/src/doraops/reporting.py, and again in         *)
(* dossier_verify_reporting.py): the same day of the next month, or its    *)
(* last day, at the same time of the day.                                  *)
(*                                                                         *)
(* The lengths of the months are parameters, so that an instance can have  *)
(* the end of a month within a few ticks.                                  *)
(***************************************************************************)
EXTENDS Naturals, Sequences

CONSTANTS
  DayLength,  \* the ticks of a day
  MonthDays   \* the days of the months, from the epoch on

ASSUME CalendarAssumption ==
  /\ DayLength \in Nat \ {0}
  /\ MonthDays \in Seq(Nat \ {0}) /\ MonthDays # <<>>

\* The days before the month after month m.
DaysThrough[m \in 0..Len(MonthDays)] ==
  IF m = 0 THEN 0 ELSE DaysThrough[m - 1] + MonthDays[m]

DayOf(t) == t \div DayLength
TimeOfDay(t) == t % DayLength

MonthOf(t) ==
  CHOOSE m \in DOMAIN MonthDays :
    DaysThrough[m - 1] <= DayOf(t) /\ DayOf(t) < DaysThrough[m]

\* Counted from 0.
DayOfMonth(t) == DayOf(t) - DaysThrough[MonthOf(t) - 1]

\* Mutant: the day is not clamped to the length of the month.
AddCalendarMonthUnclamped(t) ==
  (DaysThrough[MonthOf(t)] + DayOfMonth(t)) * DayLength + TimeOfDay(t)

AddCalendarMonth(t) ==
  LET next == MonthOf(t) + 1
      last == MonthDays[next] - 1
      day == IF DayOfMonth(t) <= last THEN DayOfMonth(t) ELSE last
  IN  (DaysThrough[next - 1] + day) * DayLength + TimeOfDay(t)

\* The statutory month, as it is read: the last moment of the next month that is at
\* the same time of a day no later in its month.
OneMonthAfter(t) ==
  LET next == MonthOf(t) + 1
      moments == {u \in t..(DayLength * DaysThrough[next] - 1) :
                    /\ MonthOf(u) = next
                    /\ TimeOfDay(u) = TimeOfDay(t)
                    /\ DayOfMonth(u) <= DayOfMonth(t)}
  IN  CHOOSE u \in moments : \A v \in moments : v <= u

\* The calendar has the month after t's.
InCalendar(t) == DayOf(t) < DaysThrough[Len(MonthDays) - 1]
=============================================================================
