--------------------------- MODULE PayrollCalculator ---------------------------
(***************************************************************************)
(* What an employee is paid (src/payroll/calculator.js and its use in      *)
(* loadPreview and confirmPayroll): the base of the pay setting and the    *)
(* overtime of the timecard, less the deductions; and the totals of a run. *)
(* `deductions' maps the names of the deduction lines, which are distinct, *)
(* to their amounts.                                                       *)
(***************************************************************************)
EXTENDS OvertimeCalculator

Gross(card) == card.base + card.amount

(* calculatePayout throws, and the preview reports an issue. *)
DeductionsExceedGross(card, deductions) == Total(deductions) > Gross(card)
CalculatePayout(card, deductions) ==
  [gross |-> Gross(card), deductions |-> Total(deductions),
   net |-> Gross(card) - Total(deductions)]

(* calculateRunTotals adds each column by itself. *)
CalculateRunTotals(payouts) ==
  [column \in {"gross", "deductions", "net"} |->
     Total([e \in DOMAIN payouts |-> payouts[e][column]])]

(* The CHECK constraints of payroll_runs and payouts. *)
Admitted(row) ==
  /\ row.gross >= 0 /\ row.deductions >= 0 /\ row.net >= 0
  /\ row.net = row.gross - row.deductions
=============================================================================
