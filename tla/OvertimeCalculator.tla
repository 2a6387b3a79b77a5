-------------------------- MODULE OvertimeCalculator --------------------------
(***************************************************************************)
(* The overtime calculation of a timecard (src/overtime/calculator.js):    *)
(* attendance is cut at the day boundaries, what exceeds the daily         *)
(* threshold is overtime, the period's overtime is paid with one rounding, *)
(* and that amount is divided over the days.                               *)
(*                                                                         *)
(* Instants are in units of which a second has `Second' (attendance is     *)
(* stored with its fractions of a second, and a Date keeps milliseconds),  *)
(* amounts in minor units.  `days' is the sequence of the days of the      *)
(* period, each from its first instant `start' to the first instant `end'  *)
(* of the next: a day may be longer or shorter than another (daylight      *)
(* saving).                                                                *)
(***************************************************************************)
EXTENDS Integers, Sequences, FiniteSetsExt, Functions

CONSTANTS
  Second,            \* units in a second (milliseconds: 1000)
  MinuteUnits,       \* units in a minute (60 seconds)
  MaxIntervalUnits,  \* MAX_INTERVAL_SECONDS (24 hours), in units
  BasisPoints        \* basis points of a multiplier of one (10_000)

ASSUME CalculatorAssumption ==
  /\ Second \in Nat \ {0}
  /\ MinuteUnits \in Nat \ {0}
  /\ MaxIntervalUnits \in Nat \ {0}
  /\ BasisPoints \in Nat \ {0}

Earlier(a, b) == IF a < b THEN a ELSE b
Later(a, b) == IF a < b THEN b ELSE a
Total(f) == SumFunction(f)

-----------------------------------------------------------------------------
(* Money.                                                                  *)

RoundHalfUp(numerator, denominator) ==
  (numerator * 2 + denominator) \div (denominator * 2)

(* The exact amount of some overtime is Numerator \div Denominator(pay).   *)
Numerator(pay, minutes) == pay.base * minutes * pay.multiplier
Denominator(pay) == pay.standardMinutes * BasisPoints

(* calculateOvertimeAmount *)
OvertimeAmount(pay, minutes) ==
  RoundHalfUp(Numerator(pay, minutes), Denominator(pay))

(* ranked: the largest remainder first, the earlier date between equals.   *)
Remainder(pay, minutes) == Numerator(pay, minutes) % Denominator(pay)
RanksBefore(pay, minutes, i, j) ==
  \/ Remainder(pay, minutes[i]) > Remainder(pay, minutes[j])
  \/ Remainder(pay, minutes[i]) = Remainder(pay, minutes[j]) /\ i < j
Rank(pay, minutes, i) ==
  Cardinality({j \in DOMAIN minutes : RanksBefore(pay, minutes, j, i)})

(* allocateDailyOvertimeMoney: every day gets its amount rounded down; the *)
(* units that remain go round the ranked days.                             *)
AllocateDailyMoney_RoundEach(pay, minutes) ==
  [i \in DOMAIN minutes |-> OvertimeAmount(pay, minutes[i])]
AllocateDailyMoney(pay, minutes) ==
  LET down == [i \in DOMAIN minutes |->
                 Numerator(pay, minutes[i]) \div Denominator(pay)]
      remaining == OvertimeAmount(pay, Total(minutes)) - Total(down)
      n == Len(minutes)
  IN [i \in DOMAIN minutes |->
        down[i] + (remaining + n - 1 - Rank(pay, minutes, i)) \div n]

-----------------------------------------------------------------------------
(* Time.                                                                   *)

PeriodSpan(days) ==
  [clockIn |-> days[1].start, clockOut |-> days[Len(days)].end]

(* What of an interval falls in a day. *)
Allocated(interval, day) ==
  Later(0, Earlier(interval.clockOut, day.end)
             - Later(interval.clockIn, day.start))

Overlapping(a, b) == a.clockIn < b.clockOut /\ b.clockIn < a.clockOut

(* What calculateTimecard throws for: an empty or too long interval, one   *)
(* that is not of whole seconds or has a day without (secondsBetween), two *)
(* that overlap, and one with nothing in the period (the `expected'        *)
(* seconds of an interval must be positive).                               *)
WholeSeconds(units) == units % Second = 0
Calculable(intervals, days) ==
  /\ \A i \in intervals :
       /\ i.clockIn < i.clockOut
       /\ WholeSeconds(i.clockOut - i.clockIn)
       /\ \A d \in DOMAIN days : WholeSeconds(Allocated(i, days[d]))
       /\ i.clockOut - i.clockIn <= MaxIntervalUnits
       /\ Overlapping(i, PeriodSpan(days))
       /\ \A j \in intervals : i # j => ~Overlapping(i, j)

PayableMinutes(units) == (units + MinuteUnits \div 2) \div MinuteUnits

(* calculateTimecard: `pay' carries the daily threshold and whether the    *)
(* policy is enabled and the employee eligible (`overtime').               *)
CalculateTimecard(days, intervals, pay) ==
  LET worked == [d \in DOMAIN days |->
                   MapThenSumSet(LAMBDA i : Allocated(i, days[d]),
                                 intervals)]
      over == [d \in DOMAIN days |->
                 IF pay.overtime
                   THEN Later(0, worked[d] - pay.threshold * MinuteUnits)
                   ELSE 0]
      minutes == [d \in DOMAIN days |-> PayableMinutes(over[d])]
  IN [worked |-> worked,
      regular |-> [d \in DOMAIN days |-> worked[d] - over[d]],
      over |-> over,
      minutes |-> minutes,
      money |-> IF pay.overtime THEN AllocateDailyMoney(pay, minutes)
                ELSE [d \in DOMAIN days |-> 0],
      amount |-> IF pay.overtime THEN OvertimeAmount(pay, Total(minutes)) ELSE 0]
=============================================================================
