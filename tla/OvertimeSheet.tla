----------------------------- MODULE OvertimeSheet -----------------------------
(***************************************************************************)
(* One calculation of a timecard as a step of its own, to check            *)
(* OvertimeCalculator and PayrollCalculator against what a timecard and a  *)
(* payslip should say.                                                     *)
(***************************************************************************)
EXTENDS PayrollCalculator

CONSTANTS
  SheetDays,      \* the days of the period
  SheetInstants,  \* bound: when the intervals begin and end
  SheetPays,      \* bound: the pay and policy inputs
  SheetDeductions \* bound: the deductions of a pay setting

(* The days of a period: each ends where the next begins, and however long *)
(* or short they are, none is empty.                                       *)
Contiguous(days) ==
  /\ days \in Seq([start : Int, end : Int]) /\ days # <<>>
  /\ \A d \in DOMAIN days : days[d].start < days[d].end
  /\ \A d \in 1..(Len(days) - 1) : days[d].end = days[d + 1].start

(* The amounts and minutes of pay settings and policies are not negative,  *)
(* and a period of no standard minutes is refused.                         *)
ASSUME SheetAssumption ==
  /\ Contiguous(SheetDays)
  /\ SheetInstants \subseteq Int
  /\ SheetPays \subseteq [base : Nat, multiplier : Nat, standardMinutes : Nat \ {0},
                         threshold : Nat, overtime : BOOLEAN]
  /\ \A own \in SheetDeductions : /\ IsFiniteSet(DOMAIN own)
                                 /\ \A name \in DOMAIN own : own[name] \in Nat

VARIABLE sheet    \* the inputs of the calculation, and its result

NoResult == [amount |-> -1]
NoSheet == [intervals |-> {}, pay |-> [base |-> 0], result |-> NoResult]

(* At most two intervals, which is where they overlap or share a day.      *)
SheetIntervals == [clockIn : SheetInstants, clockOut : SheetInstants]
Blank(a, b, pay) == [intervals |-> {a, b}, pay |-> pay, result |-> NoResult]

SheetInit == \E a, b \in SheetIntervals :
  /\ Calculable({a, b}, SheetDays)
  /\ \E pay \in SheetPays : sheet = Blank(a, b, pay)

Calculate ==
  /\ sheet # NoSheet
  /\ sheet.result = NoResult
  /\ sheet' = [sheet EXCEPT !.result =
                 CalculateTimecard(SheetDays, sheet.intervals, sheet.pay)]

SheetSpec == (sheet = NoSheet \/ SheetInit) /\ [][Calculate]_sheet

Calculated == sheet.result # NoResult
Result == sheet.result

(* SAFETY.  The money of the days adds up to the period's overtime, which  *)
(* is rounded once: no day is a whole unit off its exact share, a day      *)
(* without payable minutes gets nothing, and one with more minutes than    *)
(* another never gets less (allocateDailyOvertimeMoney).  And every unit   *)
(* of attendance in the period is on one day, and on one only, however     *)
(* long the days are (calculateTimecard).  The payslips and the run made   *)
(* of it are rows the tables admit, whatever is deducted: the totals of    *)
(* the columns agree with each other (calculatePayout, calculateRunTotals).*)
MoneyAddsUp ==
  /\ Total(Result.money) = Result.amount
  /\ \A d \in DOMAIN SheetDays :
       /\ Result.money[d] * Denominator(sheet.pay)
            - Numerator(sheet.pay, Result.minutes[d])
            \in (1 - Denominator(sheet.pay))..(Denominator(sheet.pay) - 1)
       /\ Result.minutes[d] = 0 => Result.money[d] = 0
       /\ \A e \in DOMAIN SheetDays :
            Result.minutes[d] > Result.minutes[e] => Result.money[d] >= Result.money[e]
TimeAddsUp ==
  Total(Result.worked) =
    Cardinality({s \in PeriodSpan(SheetDays).clockIn..(PeriodSpan(SheetDays).clockOut - 1) :
                   \E i \in sheet.intervals : i.clockIn <= s /\ s < i.clockOut})
PaidCard == [base |-> sheet.pay.base, amount |-> Result.amount]
PayoutsAddUp ==
  \A own, other \in SheetDeductions :
    LET payouts == <<CalculatePayout(PaidCard, own), CalculatePayout(PaidCard, other)>>
    IN ~DeductionsExceedGross(PaidCard, own) /\ ~DeductionsExceedGross(PaidCard, other) =>
         /\ \A e \in DOMAIN payouts : Admitted(payouts[e])
         /\ Admitted(CalculateRunTotals(payouts))
SheetAddsUp ==
  Calculated => TimeAddsUp /\ (sheet.pay.overtime => MoneyAddsUp) /\ PayoutsAddUp
=============================================================================
