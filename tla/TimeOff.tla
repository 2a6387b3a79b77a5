-------------------------------- MODULE TimeOff --------------------------------
(***************************************************************************)
(* Leave requests (src/app/actions/time-off.js, drizzle/0010 to 0028).     *)
(* Each call is a database function that locks the employee, and then the  *)
(* request, before it reads them, so that calls about one employee take    *)
(* turns: one step.  The answer of a call may be lost, and the page sends  *)
(* it again with the same retry identifier, whatever has happened since.   *)
(*                                                                         *)
(* Who reviews whom is a constant: a call reads it again.                  *)
(***************************************************************************)
EXTENDS Integers, Sequences, FiniteSets

CONSTANTS
  Employees,       \* profiles with an employee record
  ManagerOf,       \* employees.manager_id: Employees -> profile or None
  Managers,        \* profiles with the role of a manager
  Administrators,  \* profiles with the role of an administrator
  None,
  MaxRetryId,      \* bound: retry identifiers 1 .. MaxRetryId of each operation
  MaxDay,          \* bound on the calendar: days 0 .. MaxDay
  MaxLeaves        \* bound on the leave requests

ASSUME TimeOffAssumption ==
  /\ ManagerOf \in [Employees -> Employees \cup {None}] /\ None \notin Employees
  /\ Managers \cap Administrators = {}
  /\ MaxRetryId \in Nat /\ MaxDay \in Nat /\ MaxLeaves \in Nat

VARIABLES
  today,     \* the date in the organization's time zone
  active,    \* the employees whose status is active
  leaves,    \* leave_requests, in order of insertion
  history,   \* leave_request_events, in order of insertion
  answered   \* mutation_receipts: the calls that have been done, and their results

leaveVars == <<leaves, history, answered>>
timeOffVars == <<today, active, leaveVars>>

Profiles == Employees \cup Managers \cup Administrators
Days == 0..MaxDay
LeaveSpans == {span \in [start : Days, end : Days] : span.start <= span.end}
ActiveStatuses == {"submitted", "approved"}
Actions == {"cancel", "approve", "decline"}
ResultOf(action) == CASE action = "cancel" -> "cancelled"
                      [] action = "approve" -> "approved"
                      [] action = "decline" -> "declined"

(* A call: who, with which retry identifier, and the rest of its payload.  *)
(* A submission carries the dates; a transition the request, the version   *)
(* the page showed, and whether there is a reason to stand in for a        *)
(* manager (fallback_reason).                                              *)
Submission(actor, id, span) ==
  [op |-> "submit", actor |-> actor, id |-> id, leave |-> 0, expected |-> 0,
   reasoned |-> FALSE, span |-> span]
Transition(action, actor, id, leave, expected, reasoned) ==
  [op |-> action, actor |-> actor, id |-> id, leave |-> leave, expected |-> expected,
   reasoned |-> reasoned, span |-> [start |-> 0, end |-> 0]]

(* The receipt of a call's operation and retry identifier: with one, the   *)
(* call is answered with the same result, or with TIME_OFF_RETRY_CONFLICT, *)
(* and does nothing.                                                       *)
Answered_ForThisVersion(call) ==
  \E receipt \in answered : receipt.call = call /\ receipt.version = leaves[receipt.leave].version
Answered(call) ==
  \E receipt \in answered : receipt.call.op = call.op /\ receipt.call.id = call.id
Answer(call, leave, version) ==
  answered' = answered \cup {[call |-> call, leave |-> leave, version |-> version]}

Event(leave, version, actor, prior, resulting, late) ==
  [leave |-> leave, version |-> version, actor |-> actor,
   prior |-> prior, resulting |-> resulting, late |-> late]

-----------------------------------------------------------------------------
(* submit_leave_request.  The exclusion constraint leave_requests_active_  *)
(* overlap refuses a leave that overlaps another of the employee.          *)
Overlap(a, b) == a.start <= b.end /\ b.start <= a.end
ActiveLeaves(e) == {k \in DOMAIN leaves : /\ leaves[k].employee = e
                                          /\ leaves[k].status \in ActiveStatuses}
OverlapExcluded(e, span) == \E k \in ActiveLeaves(e) : Overlap(leaves[k].span, span)
SubmitLeaveRequest(call) ==
  LET e == call.actor
      k == Len(leaves) + 1
  IN /\ e \in active
     /\ ~Answered(call)
     /\ call.span.start >= today
     /\ ~OverlapExcluded(e, call.span)
     /\ Len(leaves) < MaxLeaves
     /\ leaves' = Append(leaves, [employee |-> e, span |-> call.span, version |-> 1,
                                  status |-> "submitted", reviewer |-> None])
     /\ history' = Append(history, Event(k, 1, e, "none", "submitted", FALSE))
     /\ Answer(call, k, 1)
     /\ UNCHANGED <<today, active>>

(* transition_leave_request.  Only the employee cancels.  An administrator *)
(* or the employee's manager decides, never on a request of their own; an  *)
(* administrator stands in for a manager who could decide with a reason.   *)
(*                                                                         *)
(* manager_id = actor_employee_id is NULL, and IF NOT NULL does not raise, *)
(* when the employee has no manager, or when the actor, who still was an   *)
(* active employee as requireTimeOffContext looked, no longer is one: then *)
(* any manager decides.                                                    *)
PassesAsManager(actor, e) ==
  \/ ManagerOf[e] \in {actor, None}
  \/ actor \notin active
Authorized(call) ==
  LET e == leaves[call.leave].employee
      eligibleManager ==
        ManagerOf[e] \in (active \cap (Managers \cup Administrators)) \ {call.actor}
  IN IF call.op = "cancel" THEN call.actor = e /\ e \in active
     ELSE /\ call.actor # e
          /\ \/ call.actor \in Administrators /\ (eligibleManager => call.reasoned)
             \/ call.actor \in Managers \cap Employees /\ PassesAsManager(call.actor, e)
(* The version and the status, and the trigger guard_time_off_request_     *)
(* mutation behind them: only a submitted request changes, once.           *)
Transitions_AnyStatus(call) == leaves[call.leave].version = call.expected
Transitions(call) ==
  /\ leaves[call.leave].version = call.expected
  /\ leaves[call.leave].status = "submitted"
TransitionLeaveRequest(call) ==
  LET k == call.leave
      e == leaves[k].employee
      result == ResultOf(call.op)
  IN /\ Authorized(call)
     /\ ~Answered(call)
     /\ Transitions(call)
     /\ call.op = "approve" => e \in active
     /\ leaves' = [leaves EXCEPT ![k].status = result, ![k].version = @ + 1,
                     ![k].reviewer = IF call.op = "cancel" THEN @ ELSE call.actor]
     /\ history' = Append(history, Event(k, call.expected + 1, call.actor,
                     leaves[k].status, result, today > leaves[k].span.start))
     /\ Answer(call, k, call.expected + 1)
     /\ UNCHANGED <<today, active>>

(* Payroll deactivates an employee (deactivateEmployeeAction).             *)
DeactivateEmployee(e) ==
  /\ e \in active
  /\ active' = active \ {e}
  /\ UNCHANGED <<today, leaveVars>>

NextDay == today < MaxDay /\ today' = today + 1 /\ UNCHANGED <<active, leaveVars>>

-----------------------------------------------------------------------------
(* The calls pages can send: what they show now or showed when they were   *)
(* loaded, for the first time or again because the answer was lost.  A new *)
(* retry identifier is the next one.  The queue shows a manager the direct *)
(* reports only, but a call names any request of the organization.         *)
RetryIds(op) ==
  {id \in 1..MaxRetryId : id <= 1 + Cardinality({r \in answered : r.call.op = op})}
TransitionsOf(k) ==
  UNION {{Transition(action, actor, id, k, version, reasoned) :
            actor \in Profiles, id \in RetryIds(action),
            version \in 1..leaves[k].version, reasoned \in BOOLEAN} : action \in Actions}

TimeOffInit ==
  /\ today = 0 /\ active = Employees
  /\ leaves = <<>> /\ history = <<>> /\ answered = {}

TimeOffNext ==
  \/ \E e \in Employees, id \in RetryIds("submit"), span \in LeaveSpans :
       SubmitLeaveRequest(Submission(e, id, span))
  \/ \E k \in DOMAIN leaves : \E call \in TransitionsOf(k) : TransitionLeaveRequest(call)
  \/ \E e \in active : DeactivateEmployee(e)
  \/ NextDay

TimeOffSpec == TimeOffInit /\ [][TimeOffNext]_timeOffVars

-----------------------------------------------------------------------------
(* TYPE.  The values the variables take. *)
TimeOffTypeOK ==
  /\ today \in Days /\ active \subseteq Employees
  /\ leaves \in Seq([employee : Employees, span : LeaveSpans, version : {1, 2},
                     status : {"submitted"} \cup {ResultOf(a) : a \in Actions},
                     reviewer : Profiles \cup {None}])
  /\ Len(leaves) <= MaxLeaves

(* Who may have reviewed a leave of e: an administrator, the manager of e  *)
(* and, when e has none or the reviewer is no longer active, any manager.  *)
Reviewers(e) ==
  Administrators \cup {m \in Managers \cap Employees :
                         ManagerOf[e] \in {m, None} \/ m \notin active}

(* SAFETY.  The leave requests are what their history and the receipts     *)
(* tell: each is decided at most once, by its employee or by a reviewer    *)
(* who may and is not the employee, from the state it was in; no two       *)
(* active ones of an employee overlap; and a call sent again, even after   *)
(* later decisions, has been done once (submit_leave_request, transition_  *)
(* leave_request, verify_time_off_request_history, leave_requests_active_  *)
(* overlap).                                                               *)
EventsOf(k) == {i \in DOMAIN history : history[i].leave = k}
FollowsItsEvents(k) ==
  \E first \in EventsOf(k) :
    /\ history[first] = Event(k, 1, leaves[k].employee, "none", "submitted", FALSE)
    /\ \/ /\ EventsOf(k) = {first}
          /\ leaves[k].status = "submitted" /\ leaves[k].version = 1
       \/ \E last \in EventsOf(k) :
            /\ EventsOf(k) = {first, last} /\ first < last
            /\ history[last].version = 2 /\ leaves[k].version = 2
            /\ history[last].prior = "submitted"
            /\ history[last].resulting = leaves[k].status
            /\ IF leaves[k].status = "cancelled"
                 THEN history[last].actor = leaves[k].employee /\ leaves[k].reviewer = None
                 ELSE /\ history[last].actor = leaves[k].reviewer
                      /\ leaves[k].reviewer # leaves[k].employee
                      /\ leaves[k].reviewer \in Reviewers(leaves[k].employee)
DoneOnce ==
  /\ Cardinality(answered) = Len(history)
  /\ \A i \in DOMAIN history : \E receipt \in answered :
       /\ receipt.leave = history[i].leave /\ receipt.version = history[i].version
       /\ receipt.call.actor = history[i].actor
  /\ \A a, b \in answered : a.call.op = b.call.op /\ a.call.id = b.call.id => a = b
LeaveFollowsHistory ==
  /\ \A k \in DOMAIN leaves : FollowsItsEvents(k)
  /\ \A e \in Employees : \A j, k \in ActiveLeaves(e) :
       j # k => ~Overlap(leaves[j].span, leaves[k].span)
  /\ DoneOnce
=============================================================================
