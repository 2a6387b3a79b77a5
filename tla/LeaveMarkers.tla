------------------------------ MODULE LeaveMarkers ------------------------------
(***************************************************************************)
(* What the attendance pages say of an approved leave: whether the         *)
(* employee worked on a day of it (src/attendance/queries.js).  The        *)
(* queries are made outside of a transaction; what they say while a        *)
(* correction commits between two of them is not modelled.                 *)
(***************************************************************************)
EXTENDS Timecards

(* originalIntervals and overlappingCorrections: the rows that overlap the *)
(* day, whether they have been superseded or not.  Assumed: no more than   *)
(* 500 corrections overlap a day.  The query takes 500 rows of all who are *)
(* on leave, in no order, and beyond them a correction may be missed.      *)
OriginalIntervals(day) ==
  {i \in Intervals : /\ intervals[i].clockIn < day.end
                     /\ IsOpen(i) \/ intervals[i].clockOut > day.start}
OverlappingCorrections(day) ==
  {k \in DOMAIN corrections : /\ corrections[k].span.clockIn < day.end
                              /\ corrections[k].span.clockOut > day.start}
CandidateIntervals(day) ==
  OriginalIntervals(day) \cup {corrections[k].interval : k \in OverlappingCorrections(day)}

(* intervalOverlapsDay, of an interval with its latest correction, if any: *)
(* one without an end overlaps no day.                                     *)
IntervalOverlapsDay(i, day) ==
  LET span == Effective(i, corrections)
  IN /\ span.clockOut # StillOpen /\ span.clockIn < span.clockOut
     /\ span.clockIn < day.end /\ span.clockOut > day.start

(* getApprovedLeaveMarkers: workedDuringLeave. *)
WorkedDuringLeave(day) ==
  \E i \in CandidateIntervals(day) : IntervalOverlapsDay(i, day)
=============================================================================
