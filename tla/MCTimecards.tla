------------------------------ MODULE MCTimecards ------------------------------
(***************************************************************************)
(* Small instances of Timecards and OvertimeSheet for TLC: a second has    *)
(* two units, a minute two seconds and a multiplier of one is two basis    *)
(* points, so that half seconds, half minutes and halves of an amount      *)
(* occur.  A behaviour is one of the two modules: they share no variable.  *)
(***************************************************************************)
EXTENDS TimecardsProperties, OvertimeSheet, TLC

CONSTANTS c1, c2, t1, t2, q1, q2

Span(first, last) == [clockIn |-> first, clockOut |-> last]
FirstDay == {Span(0, 2)}

SomeKeys == ({"prepare", "approve", "return", "correct"} \X {q1})
              \cup ({"submit", "policy"} \X {q1, q2})

Day(first, last) == [start |-> first, end |-> last]
ShortAndLongDays == <<Day(0, 10), Day(10, 24), Day(24, 36)>>
Instants == {-4, 0, 5, 6, 10, 11, 18, 24, 26, 32, 36, 38}
Deductions == {<<>>, <<3>>, <<1, 2>>, <<9, 9>>}
Pays == [base : {5, 9}, multiplier : {2, 3}, standardMinutes : {3, 7},
         threshold : {1}, overtime : BOOLEAN]

MCInit == \/ Init /\ sheet = NoSheet
          \/ SheetInit /\ Init

(* The employee checks in at 0, 2 or 4 and out at 1, 2 or 4, and requests  *)
(* are made once the period is closed: before, a card is refused.          *)
Bounded ==
  /\ now \in {1, 3} => call' = call
  /\ now = 3 => intervals' = intervals
  /\ ~Closed(0) => \A t \in Txs : tx'[t] = NoTx

MCNext == \/ sheet = NoSheet /\ Next /\ Bounded /\ UNCHANGED sheet
          \/ Calculate /\ UNCHANGED vars

MCSpec == MCInit /\ [][MCNext]_<<vars, sheet>>

Symmetry == Permutations(Calls) \cup Permutations(Txs)
=============================================================================
