-------------------------- MODULE TimecardsProperties --------------------------
(***************************************************************************)
(* What attendance and timecards must guarantee.                           *)
(***************************************************************************)
EXTENDS LeaveMarkers

Card == [status : Statuses, version : Nat, policy : Nat,
         evidence : SUBSET [interval : Nat \ {0}, correction : Nat,
                            clockIn : 0..MaxNow, clockOut : 0..MaxNow]]

(* TYPES.  The tables have the shape of their columns: a card that exists  *)
(* has a version and a state, and its evidence only completed intervals.   *)
TypeOK ==
  /\ now \in 0..MaxNow
  /\ call \in [Calls -> (0..MaxNow) \cup {Idle}]
  /\ intervals \in Seq(Spans)
  /\ corrections \in Seq([interval : Nat \ {0}, span : CorrectedSpans])
  /\ policies \in Seq(PolicyStarts)
  /\ cards \in [Periods -> Card]
  /\ \A p \in Periods : cards[p].status = "none" <=> cards[p].version = None
  /\ event \in [Periods -> [prior : Statuses, resulting : Statuses]]
  /\ receipts \subseteq Keys
  /\ refused \in BOOLEAN

(* SAFETY.  However check-ins interleave, the employee has one open        *)
(* interval at most: two calls may both find none (attendance_check_in).   *)
OneOpenInterval == Cardinality(OpenIntervals) <= 1

(* SAFETY.  The locks and version checks of the service suffice: no        *)
(* transaction gets as far as the triggers that protect submitted and      *)
(* approved cards, whichever reviews, submissions and corrections run at   *)
(* once (protect_timecard_snapshot, protect_timecard_child_snapshot).      *)
NeverRefused == ~refused

(* SAFETY.  The history of a card is the card's: each event starts from    *)
(* the state the one before it left.  What a submission or a decision has  *)
(* read is still so when it writes, so of two reviewers who decide at once *)
(* one finds the card decided.  "Version checks and row locks prevent      *)
(* stale reviewers from overwriting each other" (domain-guide.md:136).     *)
EventsFollowOn ==
  /\ \A p \in Periods : event[p].resulting = cards[p].status
  /\ \A t \in Txs : tx[t].pc = "validated" => tx[t].seen = cards[Target(t)].status

(* ACTION.  A request takes effect once: whatever changes comes with the   *)
(* one new receipt of its operation and identifier, although the receipt   *)
(* is looked for before any lock (existingReceipt, addReceipt).            *)
ChangesAreReceipted ==
  [][<<corrections, policies, cards, event>>' # <<corrections, policies, cards, event>>
       => \E key \in Keys \ receipts : receipts' = receipts \cup {key}]_vars

(* SAFETY.  Attendance is shown with its latest corrections.  A draft is   *)
(* not prepared, nor missed, while a correction is on its way in           *)
(* (correctAttendanceInterval against prepareTimecard), and a day of leave *)
(* is marked as worked when a completed interval is on it as corrected,    *)
(* wherever it was before (getApprovedLeaveMarkers).                       *)
DraftsAsAttended ==
  \A p \in Periods : cards[p].status = "draft" => cards[p].evidence = Evidence(p, corrections)
LeaveMarkedAsAttended ==
  \A p \in Periods : \A d \in 1..PeriodDays :
    WorkedDuringLeave(Days(p)[d]) <=>
      \E i \in Intervals \ OpenIntervals : Overlapping(Effective(i, corrections),
        [clockIn |-> Days(p)[d].start, clockOut |-> Days(p)[d].end])
ShownAsAttended == DraftsAsAttended /\ LeaveMarkedAsAttended

(* SAFETY, claimed by docs/user-guide/administrator.md:85: "A stale        *)
(* policy, pay setting, or attendance snapshot returns the card for fresh  *)
(* review", so that an approved card is what attendance said.              *)
ApprovedAsAttended ==
  \A p \in Periods : cards[p].status = "approved" => cards[p].evidence = Evidence(p, corrections)
=============================================================================
