----------------------- MODULE MCPayrollConfirmation -----------------------
(***************************************************************************)
(* Small instances of PayrollConfirmation for TLC: a calendar with months  *)
(* of four days, halves of two days and weeks of one day.                  *)
(***************************************************************************)
EXTENDS PayrollConfirmationProperties, TLC

CONSTANTS s1, s2, c1, c2, t1, t2, t3, e1, e2, q1, q2

ShortMonths == {-8, -4, 0, 4, 8, 12, 16}

PastOrOngoing == {[first |-> 0, last |-> 1], [first |-> 2, last |-> Ongoing]}

(* Bounds on what leads nowhere: one token expires at most (when both      *)
(* have, nothing is left to confirm); a preview begins while there is a    *)
(* token it could issue, and a pay setting request while one more setting  *)
(* fits.                                                                   *)
Bounded ==
  /\ Cardinality(expired') <= 1
  /\ \A s \in Sessions : At(s, "idle") /\ session'[s].step = "schedule" =>
       \E t \in Tokens : tokens[t] = NoToken
  /\ \A c \in Savers : save[c] = Nobody /\ save'[c] # Nobody =>
       LatestVersion(save'[c].form.employee) < MaxSettings
MCSpec == Init /\ [][Next /\ Bounded]_vars

Symmetry == Permutations(Sessions) \cup Permutations(Savers)
              \cup Permutations(Tokens) \cup Permutations(Employees)
              \cup Permutations(Requests)
=============================================================================
