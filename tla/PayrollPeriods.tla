--------------------------- MODULE PayrollPeriods ---------------------------
(***************************************************************************)
(* The payroll calendar (src/payroll/periods.js): which period contains a  *)
(* date, and which period is to be paid next.                              *)
(*                                                                         *)
(* A date is the number of a day.  The calendar is a parameter: the days   *)
(* that start a month, how many days the first half of a month has, and    *)
(* how many a week has, so that small instances may use short months.      *)
(***************************************************************************)
EXTENDS Integers, FiniteSetsExt

CONSTANTS
  MinDay, MaxDay,  \* bound: the dates that are modelled
  MonthStarts,     \* first days of the months, beyond the bounds on both sides
  HalfMonth,       \* days in the first half of a month (15)
  Week             \* days in a week (7)

(* The bounds of a month: it starts on first, the next one on next. *)
IsMonth(first, next) ==
  /\ first \in MonthStarts /\ next \in MonthStarts
  /\ \A m \in MonthStarts : m <= first \/ next <= m
  /\ first + HalfMonth < next

(* Every date that is looked up, and the day before and after the dates,   *)
(* lies in a month that follows a month; a month is longer than its half.  *)
ASSUME CalendarAssumption ==
  /\ MinDay \in Int /\ MaxDay \in Int /\ MonthStarts \subseteq Int
  /\ HalfMonth \in Nat \ {0} /\ Week \in Nat \ {0}
  /\ \A date \in (MinDay - 1)..(MaxDay + 1) :
       \E previous, first, next \in MonthStarts :
         /\ IsMonth(previous, first) /\ IsMonth(first, next)
         /\ first <= date /\ date < next

Dates == MinDay..MaxDay
NoDate == MinDay - 1    \* a date column that is NULL
Ongoing == MaxDay + 1   \* effective_to IS NULL: beyond every date

Period == [first : Dates, last : Dates]
NoPeriod == [first |-> NoDate, last |-> NoDate]

MonthStart(date) == Max({m \in MonthStarts : m <= date})
NextMonthStart(date) == Min({m \in MonthStarts : m > date})
SecondHalf(date) == MonthStart(date) + HalfMonth

(* The period of a given length, counted from the anchor. *)
Anchored(anchor, length, date) ==
  LET first == anchor + ((date - anchor) \div length) * length
  IN [first |-> first, last |-> first + length - 1]

(* getPeriodContaining *)
PeriodContaining(schedule, date) ==
  CASE schedule.frequency = "weekly" -> Anchored(schedule.anchor, Week, date)
    [] schedule.frequency = "biweekly" -> Anchored(schedule.anchor, 2 * Week, date)
    [] schedule.frequency = "semimonthly" ->
         IF date < SecondHalf(date)
           THEN [first |-> MonthStart(date), last |-> SecondHalf(date) - 1]
           ELSE [first |-> SecondHalf(date), last |-> NextMonthStart(date) - 1]
    [] OTHER -> [first |-> MonthStart(date), last |-> NextMonthStart(date) - 1]

IsClosedPeriod_Today(period, today) == period.last <= today
IsClosedPeriod(period, today) == period.last < today

(* getNextPeriod: the period after the latest completed one, or, when none *)
(* is completed, the last period closed before today, no earlier than the  *)
(* start of the schedule.  NoPeriod stands for the two errors it throws.   *)
NextPeriod(schedule, latestEnd, today) ==
  IF latestEnd # NoDate THEN PeriodContaining(schedule, latestEnd + 1)
  ELSE LET yesterdays == PeriodContaining(schedule, today - 1)
           closed == IF IsClosedPeriod(yesterdays, today) THEN yesterdays
                     ELSE PeriodContaining(schedule, yesterdays.first - 1)
           initial == PeriodContaining(schedule, schedule.effectiveStart)
           early == closed.first < schedule.effectiveStart
           period == IF early THEN initial ELSE closed
       IN IF (early /\ initial.first # schedule.effectiveStart)
               \/ ~IsClosedPeriod(period, today)
            THEN NoPeriod ELSE period

(* The days a schedule may start on: validateSchedule of createOrganization *)
(* and the alignment checks of updateScheduleAction.                        *)
MayStart(frequency, date) ==
  CASE frequency = "semimonthly" -> date \in {MonthStart(date), SecondHalf(date)}
    [] frequency = "monthly" -> date = MonthStart(date)
    [] OTHER -> TRUE

ScheduleFrom_AlwaysAnchored(frequency, date, version) ==
  [frequency |-> frequency, effectiveStart |-> date, version |-> version,
   anchor |-> date]
ScheduleFrom(frequency, date, version) ==
  [frequency |-> frequency, effectiveStart |-> date, version |-> version,
   anchor |-> IF frequency \in {"weekly", "biweekly"} THEN date ELSE NoDate]
=============================================================================
