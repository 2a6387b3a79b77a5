--------------------------- MODULE OrganizationProofs ---------------------------
(***************************************************************************)
(* The leave requests, for any calendar and any number of employees,       *)
(* requests and retries; the lists, for any number of rows and any size of *)
(* a page; and then all components of MCOrganization together: proofs      *)
(* about TimeOff, about CursorPages and about the composed specification.  *)
(*                                                                         *)
(* The argument about leave: a request is in the state its events leave it *)
(* in, and one that is still submitted has none but its first.             *)
(*                                                                         *)
(* The argument about lists: what has been shown is not beyond the cursor, *)
(* and what was there all along and has not been shown is, except for the  *)
(* rows that a cursor without microseconds passes over.                    *)
(***************************************************************************)
EXTENDS MCOrganization, PrivacyProofs, AccessProofs

-----------------------------------------------------------------------------
(***************************************************************************)
(* Leave requests.                                                         *)
(***************************************************************************)
Statuses == {"submitted"} \cup {ResultOf(a) : a \in Actions}
LeaveRow == [employee : Employees, span : LeaveSpans, version : {1, 2},
             status : Statuses, reviewer : Profiles \cup {None}]
EventRow == [leave : Nat, version : {1, 2}, actor : Profiles,
             prior : {"none"} \cup Statuses, resulting : Statuses, late : BOOLEAN]

(* What keeps the history: an event is about a request that exists, and a  *)
(* request that is still submitted is in its first version, with no        *)
(* reviewer; the receipts are finitely many.                               *)
EventsOfLeaves == \A i \in DOMAIN history : history[i].leave \in DOMAIN leaves
SubmittedIsNew ==
  \A k \in DOMAIN leaves :
    leaves[k].status = "submitted" => leaves[k].version = 1 /\ leaves[k].reviewer = None
LeaveInv ==
  /\ TimeOffTypeOK
  /\ history \in Seq(EventRow)
  /\ IsFiniteSet(answered)
  /\ EventsOfLeaves
  /\ SubmittedIsNew
  /\ LeaveFollowsHistory

(* A request is in the state its events leave it in.  *)
History == \A k \in DOMAIN leaves : FollowsItsEvents(k)
(* No two active requests of an employee overlap. *)
Disjoint == \A e \in Employees : \A j, k \in ActiveLeaves(e) :
              j # k => ~Overlap(leaves[j].span, leaves[k].span)
Decision(leave, result, reviewer) ==
  [employee |-> leave.employee, span |-> leave.span, version |-> leave.version + 1,
   status |-> result, reviewer |-> reviewer]

-----------------------------------------------------------------------------
(* The results of actions are the four statuses a request takes. *)
LEMMA Results ==
  /\ Statuses = {"submitted", "cancelled", "approved", "declined"}
  /\ ResultOf("cancel") = "cancelled" /\ ResultOf("approve") = "approved"
  /\ ResultOf("decline") = "declined"
<1>1. /\ ResultOf("cancel") = "cancelled" /\ ResultOf("approve") = "approved"
      /\ ResultOf("decline") = "declined"
  BY DEF ResultOf
<1>2. {ResultOf(a) : a \in Actions} = {"cancelled", "approved", "declined"}
  BY <1>1 DEF Actions
<1> QED BY <1>1, <1>2 DEF Statuses

(* The type invariant in terms of the row of a request. *)
LEMMA Types ==
  TimeOffTypeOK <=> /\ today \in Days /\ active \subseteq Employees
                    /\ leaves \in Seq(LeaveRow) /\ Len(leaves) <= MaxLeaves
  BY DEF TimeOffTypeOK, LeaveRow, Statuses

(* An event appended to the history is the one new event of its request.   *)
LEMMA HistoryGrows ==
  ASSUME history \in Seq(EventRow), NEW event \in EventRow,
         history' = Append(history, event)
  PROVE  /\ history' \in Seq(EventRow)
         /\ Len(history') = Len(history) + 1
         /\ DOMAIN history' = DOMAIN history \cup {Len(history) + 1}
         /\ history'[Len(history) + 1] = event
         /\ \A i \in DOMAIN history : history'[i] = history[i] /\ i < Len(history) + 1
         /\ EventsOf(event.leave)' = EventsOf(event.leave) \cup {Len(history) + 1}
         /\ \A k : k # event.leave => EventsOf(k)' = EventsOf(k)
<1>1. /\ history' \in Seq(EventRow)
      /\ Len(history') = Len(history) + 1
      /\ DOMAIN history' = DOMAIN history \cup {Len(history) + 1}
      /\ history'[Len(history) + 1] = event
      /\ \A i \in DOMAIN history : history'[i] = history[i] /\ i < Len(history) + 1
  OBVIOUS
<1>2. /\ EventsOf(event.leave)' = EventsOf(event.leave) \cup {Len(history) + 1}
      /\ \A k : k # event.leave => EventsOf(k)' = EventsOf(k)
  BY <1>1 DEF EventsOf
<1> QED BY <1>1, <1>2

(* Who may have reviewed still may: no employee becomes active again.      *)
LEMMA ReviewersRemain ==
  ASSUME active' \subseteq active
  PROVE  \A e : Reviewers(e) \subseteq Reviewers(e)'
BY DEF Reviewers

(* A request whose row and events rest follows its events as before. *)
LEMMA FollowsUnchanged ==
  ASSUME NEW j, FollowsItsEvents(j), leaves'[j] = leaves[j], EventsOf(j)' = EventsOf(j),
         \A i \in EventsOf(j) : history'[i] = history[i], active' \subseteq active
  PROVE  FollowsItsEvents(j)'
<1>1. PICK first \in EventsOf(j) :
        /\ history[first] = Event(j, 1, leaves[j].employee, "none", "submitted", FALSE)
        /\ \/ /\ EventsOf(j) = {first}
              /\ leaves[j].status = "submitted" /\ leaves[j].version = 1
           \/ \E last \in EventsOf(j) :
                /\ EventsOf(j) = {first, last} /\ first < last
                /\ history[last].version = 2 /\ leaves[j].version = 2
                /\ history[last].prior = "submitted"
                /\ history[last].resulting = leaves[j].status
                /\ IF leaves[j].status = "cancelled"
                     THEN history[last].actor = leaves[j].employee /\ leaves[j].reviewer = None
                     ELSE /\ history[last].actor = leaves[j].reviewer
                          /\ leaves[j].reviewer # leaves[j].employee
                          /\ leaves[j].reviewer \in Reviewers(leaves[j].employee)
  BY Zenon DEF FollowsItsEvents
<1>2. history'[first] = Event(j, 1, leaves'[j].employee, "none", "submitted", FALSE)
  BY <1>1
<1>3. CASE EventsOf(j) = {first} /\ leaves[j].status = "submitted" /\ leaves[j].version = 1
  BY <1>1, <1>2, <1>3, Zenon DEF FollowsItsEvents
<1>4. CASE ~(EventsOf(j) = {first} /\ leaves[j].status = "submitted" /\ leaves[j].version = 1)
  <2>1. PICK last \in EventsOf(j) :
           /\ EventsOf(j) = {first, last} /\ first < last
           /\ history[last].version = 2 /\ leaves[j].version = 2
           /\ history[last].prior = "submitted"
           /\ history[last].resulting = leaves[j].status
           /\ IF leaves[j].status = "cancelled"
                THEN history[last].actor = leaves[j].employee /\ leaves[j].reviewer = None
                ELSE /\ history[last].actor = leaves[j].reviewer
                     /\ leaves[j].reviewer # leaves[j].employee
                     /\ leaves[j].reviewer \in Reviewers(leaves[j].employee)
    BY <1>1, <1>4, Zenon
  <2>2. history'[last] = history[last] OBVIOUS
  <2>3. first \in EventsOf(j)' /\ last \in EventsOf(j)' OBVIOUS
  <2>4. /\ EventsOf(j)' = {first, last} /\ first < last
        /\ history'[last].version = 2 /\ leaves'[j].version = 2
        /\ history'[last].prior = "submitted"
        /\ history'[last].resulting = leaves'[j].status
        /\ IF leaves'[j].status = "cancelled"
             THEN history'[last].actor = leaves'[j].employee /\ leaves'[j].reviewer = None
             ELSE /\ history'[last].actor = leaves'[j].reviewer
                  /\ leaves'[j].reviewer # leaves'[j].employee
                  /\ (leaves[j].reviewer \in Reviewers(leaves[j].employee))'
    BY <2>1, <2>2, ReviewersRemain
  <2> QED BY <1>2, <2>3, <2>4, Zenon DEF FollowsItsEvents
<1> QED BY <1>3, <1>4

(* A receipt of a call that has none is one more receipt, and the only one *)
(* of its operation and retry identifier.                                  *)
LEMMA Receipted ==
  ASSUME DoneOnce, IsFiniteSet(answered), history \in Seq(EventRow),
         NEW call, NEW event \in EventRow, ~Answered(call),
         call.actor = event.actor,
         Answer(call, event.leave, event.version),
         history' = Append(history, event)
  PROVE  DoneOnce' /\ IsFiniteSet(answered')
<1> DEFINE receipt == [call |-> call, leave |-> event.leave, version |-> event.version]
<1>1. receipt \notin answered /\ answered' = answered \cup {receipt}
  BY DEF Answered, Answer
<1>2. IsFiniteSet(answered') /\ Cardinality(answered') = Cardinality(answered) + 1
  BY <1>1, FS_AddElement
<1>3. /\ Len(history') = Len(history) + 1
      /\ DOMAIN history' = DOMAIN history \cup {Len(history) + 1}
      /\ history'[Len(history) + 1] = event
      /\ \A i \in DOMAIN history : history'[i] = history[i]
  BY HistoryGrows
<1>4. \A i \in DOMAIN history' : \E r \in answered' :
        /\ r.leave = history'[i].leave /\ r.version = history'[i].version
        /\ r.call.actor = history'[i].actor
  <2> SUFFICES ASSUME NEW i \in DOMAIN history'
               PROVE  \E r \in answered' :
                        /\ r.leave = history'[i].leave /\ r.version = history'[i].version
                        /\ r.call.actor = history'[i].actor
    OBVIOUS
  <2>1. CASE i = Len(history) + 1
    <3>1. receipt \in answered' /\ history'[i] = event BY <2>1, <1>1, <1>3
    <3> QED BY <3>1
  <2>2. CASE i \in DOMAIN history
    <3>1. history'[i] = history[i] BY <2>2, <1>3
    <3> QED BY <3>1, <2>2, <1>1 DEF DoneOnce
  <2> QED BY <2>1, <2>2, <1>3
<1>5. \A a, b \in answered' : a.call.op = b.call.op /\ a.call.id = b.call.id => a = b
  <2>1. receipt.call = call OBVIOUS
  <2> HIDE DEF receipt
  <2> QED BY <1>1, <2>1 DEF DoneOnce, Answered
<1> QED BY <1>2, <1>3, <1>4, <1>5 DEF DoneOnce

-----------------------------------------------------------------------------
(* The requests of the start: none. *)
LEMMA InitLeaves == TimeOffInit => LeaveInv
<1> SUFFICES ASSUME TimeOffInit PROVE LeaveInv
  OBVIOUS
<1>1. leaves = <<>> /\ history = <<>> /\ answered = {} /\ today = 0 /\ active = Employees
  BY DEF TimeOffInit
<1>2. TimeOffTypeOK
  BY <1>1, TimeOffAssumption DEF TimeOffTypeOK, Days
<1>3. IsFiniteSet(answered) /\ Cardinality(answered) = 0
  BY <1>1, FS_EmptySet
<1>4. LeaveFollowsHistory
  BY <1>1, <1>3 DEF LeaveFollowsHistory, DoneOnce, ActiveLeaves
<1> QED BY <1>1, <1>2, <1>3, <1>4 DEF LeaveInv, EventsOfLeaves, SubmittedIsNew

(* A step of the calendar or of an employee changes no request. *)
LEMMA LeavesRest ==
  ASSUME LeaveInv, UNCHANGED leaveVars, (today \in Days /\ active \subseteq Employees)',
         active' \subseteq active
  PROVE  LeaveInv'
<1>1. leaves' = leaves /\ history' = history /\ answered' = answered
  BY DEF leaveVars
<1>2. TimeOffTypeOK' BY <1>1 DEF LeaveInv, TimeOffTypeOK
<1>3. LeaveFollowsHistory'
  <2>1. \A k \in DOMAIN leaves' : FollowsItsEvents(k)'
    BY <1>1, FollowsUnchanged DEF LeaveInv, LeaveFollowsHistory, EventsOf
  <2>2. \A e \in Employees : ActiveLeaves(e)' = ActiveLeaves(e)
    BY <1>1 DEF ActiveLeaves
  <2>3. Disjoint'
    BY <1>1, <2>2 DEF LeaveInv, LeaveFollowsHistory, Disjoint
  <2>4. DoneOnce'
    BY <1>1 DEF LeaveInv, LeaveFollowsHistory, DoneOnce
  <2> QED BY <2>1, <2>3, <2>4 DEF LeaveFollowsHistory, Disjoint
<1> QED BY <1>1, <1>2, <1>3 DEF LeaveInv, EventsOfLeaves, SubmittedIsNew

(* submit_leave_request keeps the invariant: the request is new, and the   *)
(* exclusion constraint has let it through.                                *)
LEMMA SubmitKeeps ==
  ASSUME LeaveInv, NEW e \in Employees, NEW id, NEW span \in LeaveSpans,
         SubmitLeaveRequest(Submission(e, id, span))
  PROVE  LeaveInv'
<1>0. PICK k : k = Len(leaves) + 1
  OBVIOUS
<1> DEFINE call == Submission(e, id, span)
           row == [employee |-> e, span |-> span, version |-> 1,
                   status |-> "submitted", reviewer |-> None]
           event == Event(k, 1, e, "none", "submitted", FALSE)
<1>1. /\ call.actor = e /\ call.span = span
  BY DEF Submission
<1>2. /\ e \in active /\ ~Answered(call) /\ ~OverlapExcluded(e, span)
      /\ Len(leaves) < MaxLeaves
      /\ leaves' = Append(leaves, row) /\ history' = Append(history, event)
      /\ Answer(call, k, 1) /\ today' = today /\ active' = active
  BY <1>0, <1>1 DEF SubmitLeaveRequest
<1>3. leaves \in Seq(LeaveRow) /\ today \in Days /\ active \subseteq Employees
  BY Types DEF LeaveInv
<1>4. row \in LeaveRow
  BY Results DEF LeaveRow
<1>5. /\ event \in EventRow /\ event.leave = k /\ event.version = 1 /\ event.actor = e
  BY <1>0, <1>3, Results DEF EventRow, Event, Profiles
<1>6. /\ leaves' \in Seq(LeaveRow) /\ Len(leaves') = k
      /\ DOMAIN leaves' = DOMAIN leaves \cup {k} /\ k \notin DOMAIN leaves
      /\ leaves'[k] = row /\ \A j \in DOMAIN leaves : leaves'[j] = leaves[j]
  <2> HIDE DEF row
  <2> QED BY <1>0, <1>2, <1>3, <1>4
<1>7. TimeOffTypeOK'
  BY <1>2, <1>3, <1>6, TimeOffAssumption DEF TimeOffTypeOK, LeaveRow, Statuses
<1>8. DoneOnce' /\ IsFiniteSet(answered')
  <2> HIDE DEF event, call
  <2> QED BY <1>1, <1>2, <1>5, Receipted DEF LeaveInv, LeaveFollowsHistory
<1>9. /\ history' \in Seq(EventRow)
      /\ DOMAIN history' = DOMAIN history \cup {Len(history) + 1}
      /\ history'[Len(history) + 1] = event
      /\ \A i \in DOMAIN history : history'[i] = history[i]
      /\ EventsOf(k)' = EventsOf(k) \cup {Len(history) + 1}
      /\ \A j : j # k => EventsOf(j)' = EventsOf(j)
  <2> HIDE DEF event
  <2> QED BY <1>2, <1>5, HistoryGrows DEF LeaveInv
<1>10. EventsOf(k) = {}
  BY <1>6 DEF LeaveInv, EventsOfLeaves, EventsOf
<1> HIDE DEF event, call, row
<1>11. EventsOfLeaves'
  BY <1>5, <1>6, <1>9 DEF LeaveInv, EventsOfLeaves
<1>12. SubmittedIsNew'
  BY <1>6 DEF LeaveInv, SubmittedIsNew, row
<1>13. History'
  <2> SUFFICES ASSUME NEW j \in DOMAIN leaves' PROVE FollowsItsEvents(j)'
    BY DEF History
  <2>1. CASE j = k
    <3>1. /\ EventsOf(j)' = {Len(history) + 1}
          /\ history'[Len(history) + 1] = Event(j, 1, leaves'[j].employee, "none", "submitted", FALSE)
          /\ leaves'[j].status = "submitted" /\ leaves'[j].version = 1
      BY <2>1, <1>6, <1>9, <1>10 DEF event, row
    <3> QED BY <3>1 DEF FollowsItsEvents
  <2>2. CASE j \in DOMAIN leaves
    <3>1. FollowsItsEvents(j) BY <2>2 DEF LeaveInv, LeaveFollowsHistory
    <3>2. EventsOf(j)' = EventsOf(j) /\ leaves'[j] = leaves[j]
      BY <2>2, <1>6, <1>9
    <3>3. \A i \in EventsOf(j) : history'[i] = history[i]
      BY <1>9 DEF EventsOf
    <3>4. active' \subseteq active BY <1>2
    <3> QED BY <3>1, <3>2, <3>3, <3>4, FollowsUnchanged
  <2> QED BY <2>1, <2>2, <1>6
<1>14. Disjoint'
  <2> SUFFICES ASSUME NEW f \in Employees, NEW i \in ActiveLeaves(f)', NEW j \in ActiveLeaves(f)',
                      i # j, Overlap(leaves'[i].span, leaves'[j].span)
               PROVE  FALSE
    BY DEF Disjoint, Overlap
  <2>1. /\ i \in DOMAIN leaves' /\ leaves'[i].employee = f /\ leaves'[i].status \in ActiveStatuses
        /\ j \in DOMAIN leaves' /\ leaves'[j].employee = f /\ leaves'[j].status \in ActiveStatuses
    BY DEF ActiveLeaves
  <2>2. CASE i \in DOMAIN leaves /\ j \in DOMAIN leaves
    BY <2>1, <2>2, <1>6 DEF LeaveInv, LeaveFollowsHistory, ActiveLeaves, Overlap
  <2>3. CASE i = k
    <3>1. j \in ActiveLeaves(e) /\ Overlap(leaves[j].span, span)
      BY <2>1, <2>3, <1>6 DEF ActiveLeaves, Overlap, row
    <3> QED BY <3>1, <1>2 DEF OverlapExcluded
  <2>4. CASE j = k
    <3>1. i \in ActiveLeaves(e) /\ Overlap(leaves[i].span, span)
      BY <2>1, <2>4, <1>6 DEF ActiveLeaves, Overlap, row
    <3> QED BY <3>1, <1>2 DEF OverlapExcluded
  <2> QED BY <2>1, <2>2, <2>3, <2>4, <1>6
<1> QED BY <1>7, <1>8, <1>9, <1>11, <1>12, <1>13, <1>14 DEF LeaveInv, LeaveFollowsHistory, History, Disjoint

(* transition_leave_request keeps it: it decides a request that is         *)
(* submitted, whose one event the decision follows.                        *)
LEMMA TransitionKeeps ==
  ASSUME LeaveInv, NEW k \in DOMAIN leaves, NEW call \in TransitionsOf(k),
         TransitionLeaveRequest(call)
  PROVE  LeaveInv'
<1> DEFINE result == ResultOf(call.op)
           reviewer == IF call.op = "cancel" THEN leaves[k].reviewer ELSE call.actor
           row == Decision(leaves[k], result, reviewer)
           event == Event(k, call.expected + 1, call.actor, leaves[k].status, result,
                          today > leaves[k].span.start)
<1>1. call.leave = k /\ call.op \in Actions /\ call.actor \in Profiles
  BY DEF TransitionsOf, Transition
<1>2. /\ Authorized(call) /\ ~Answered(call)
      /\ leaves[k].version = call.expected /\ leaves[k].status = "submitted"
      /\ leaves' = [leaves EXCEPT ![k].status = result, ![k].version = @ + 1,
                      ![k].reviewer = IF call.op = "cancel" THEN @ ELSE call.actor]
      /\ history' = Append(history, event)
      /\ Answer(call, k, call.expected + 1) /\ today' = today /\ active' = active
  BY <1>1 DEF TransitionLeaveRequest, Transitions
<1>3. leaves \in Seq(LeaveRow) /\ today \in Days /\ active \subseteq Employees
  BY Types DEF LeaveInv
<1>4. /\ leaves[k] \in LeaveRow /\ leaves[k].version = 1 /\ call.expected = 1
      /\ leaves[k].reviewer = None
  BY <1>2, <1>3 DEF LeaveInv, SubmittedIsNew
<1>5. result \in {"cancelled", "approved", "declined"} /\ (call.op = "cancel" <=> result = "cancelled")
  BY <1>1, Results DEF Actions
<1> HIDE DEF result
<1>6. /\ leaves' \in Seq(LeaveRow) /\ Len(leaves') = Len(leaves) /\ DOMAIN leaves' = DOMAIN leaves
      /\ leaves'[k] = row /\ \A j \in DOMAIN leaves : j # k => leaves'[j] = leaves[j]
  <2>1. result \in Statuses
    BY <1>5, Results
  <2>2. row \in LeaveRow
    BY <1>1, <1>4, <2>1 DEF LeaveRow, Decision
  <2> DEFINE a == [leaves[k] EXCEPT !.status = result]
             b == [a EXCEPT !.version = leaves[k].version + 1]
             c == [b EXCEPT !.reviewer = reviewer]
  <2>3. a = [employee |-> leaves[k].employee, span |-> leaves[k].span,
             version |-> leaves[k].version, status |-> result, reviewer |-> leaves[k].reviewer]
    BY <1>4 DEF LeaveRow
  <2>4. b = [employee |-> leaves[k].employee, span |-> leaves[k].span,
             version |-> leaves[k].version + 1, status |-> result,
             reviewer |-> leaves[k].reviewer]
    <3> HIDE DEF a
    <3> QED BY <2>3
  <2>5. c = row
    <3> HIDE DEF b
    <3> QED BY <2>4 DEF Decision
  <2>6. leaves' = [leaves EXCEPT ![k] = c]
    BY <1>2, <1>3
  <2> HIDE DEF c, row
  <2> QED BY <2>2, <2>5, <2>6, <1>3
<1>7. TimeOffTypeOK'
  BY <1>2, <1>3, <1>6, Types DEF LeaveInv, TimeOffTypeOK, LeaveRow, Statuses
<1>8. event \in EventRow /\ event.leave = k /\ event.version = 2 /\ event.actor = call.actor
  <2>1. (today > leaves[k].span.start) \in BOOLEAN
    OBVIOUS
  <2> QED BY <2>1, <1>1, <1>2, <1>3, <1>4, <1>5, Results DEF EventRow, Event
<1>9. DoneOnce' /\ IsFiniteSet(answered')
  <2> HIDE DEF event
  <2>1. Answer(call, event.leave, event.version) BY <1>2, <1>4, <1>8
  <2> QED BY <2>1, <1>2, <1>8, Receipted DEF LeaveInv, LeaveFollowsHistory
<1>10. /\ history' \in Seq(EventRow)
       /\ DOMAIN history' = DOMAIN history \cup {Len(history) + 1}
       /\ history'[Len(history) + 1] = event
       /\ \A i \in DOMAIN history : history'[i] = history[i] /\ i < Len(history) + 1
       /\ EventsOf(k)' = EventsOf(k) \cup {Len(history) + 1}
       /\ \A j : j # k => EventsOf(j)' = EventsOf(j)
  <2> HIDE DEF event
  <2> QED BY <1>2, <1>8, HistoryGrows DEF LeaveInv
<1>11. /\ leaves'[k].employee = leaves[k].employee /\ leaves'[k].span = leaves[k].span
       /\ leaves'[k].version = 2 /\ leaves'[k].status = result /\ leaves'[k].reviewer = reviewer
  BY <1>4, <1>6 DEF Decision
<1>12. /\ history'[Len(history) + 1].version = 2 /\ history'[Len(history) + 1].prior = "submitted"
       /\ history'[Len(history) + 1].resulting = result
       /\ history'[Len(history) + 1].actor = call.actor
       /\ history'[Len(history) + 1].leave = k
  BY <1>2, <1>4, <1>10 DEF Event
<1> HIDE DEF event, row
<1>13. EventsOfLeaves'
  BY <1>6, <1>10, <1>12 DEF LeaveInv, EventsOfLeaves
<1>14. SubmittedIsNew'
  BY <1>5, <1>6, <1>11 DEF LeaveInv, SubmittedIsNew
<1>15. History'
  <2> SUFFICES ASSUME NEW j \in DOMAIN leaves' PROVE FollowsItsEvents(j)'
    BY DEF History
  <2>1. FollowsItsEvents(j) BY <1>6 DEF LeaveInv, LeaveFollowsHistory
  <2>2. CASE j # k
    <3>1. EventsOf(j)' = EventsOf(j) /\ leaves'[j] = leaves[j]
      <4>1. EventsOf(j)' = EventsOf(j) BY <2>2, <1>10, Zenon
      <4>2. leaves'[j] = leaves[j] BY <2>2, <1>6
      <4> QED BY <4>1, <4>2
    <3>2. \A i \in EventsOf(j) : history'[i] = history[i]
      BY <1>10 DEF EventsOf
    <3>3. active' \subseteq active BY <1>2
    <3> QED BY <2>1, <3>1, <3>2, <3>3, FollowsUnchanged
  <2>3. CASE j = k
    <3>1. PICK first \in EventsOf(k) :
            /\ history[first] = Event(k, 1, leaves[k].employee, "none", "submitted", FALSE)
            /\ EventsOf(k) = {first}
      <4>1. leaves[k].version # 2 /\ FollowsItsEvents(k) BY <2>1, <2>3, <1>4
      <4> QED BY <4>1, Zenon DEF FollowsItsEvents
    <3> DEFINE last == Len(history) + 1
    <3>2. /\ first \in DOMAIN history /\ history'[first] = history[first] /\ first < last
          /\ EventsOf(k)' = {first, last}
      BY <3>1, <1>10 DEF EventsOf
    <3>3. IF result = "cancelled"
            THEN call.actor = leaves[k].employee /\ reviewer = None
            ELSE /\ call.actor = reviewer /\ reviewer # leaves[k].employee
                 /\ reviewer \in Reviewers(leaves[k].employee)
      BY <1>1, <1>2, <1>4, <1>5 DEF Authorized, PassesAsManager, Reviewers
    <3>4. /\ first \in EventsOf(k)' /\ last \in EventsOf(k)'
      BY <3>2
    <3>5. history'[first] = Event(k, 1, leaves'[k].employee, "none", "submitted", FALSE)
      BY <3>1, <3>2, <1>11
    <3> HIDE DEF reviewer, last
    <3>6. IF leaves'[k].status = "cancelled"
            THEN history'[last].actor = leaves'[k].employee /\ leaves'[k].reviewer = None
            ELSE /\ history'[last].actor = leaves'[k].reviewer
                 /\ leaves'[k].reviewer # leaves'[k].employee
                 /\ (leaves[k].reviewer \in Reviewers(leaves[k].employee))'
      BY <3>3, <1>2, <1>11, <1>12, ReviewersRemain DEF last
    <3>7. /\ history'[last].version = 2 /\ leaves'[k].version = 2
          /\ history'[last].prior = "submitted" /\ history'[last].resulting = leaves'[k].status
      BY <1>11, <1>12 DEF last
    <3> QED BY <2>3, <3>2, <3>4, <3>5, <3>6, <3>7 DEF FollowsItsEvents
  <2> QED BY <2>2, <2>3
<1>16. Disjoint'
  <2>1. \A e \in Employees : ActiveLeaves(e)' \subseteq ActiveLeaves(e)
    BY <1>2, <1>6, <1>11 DEF ActiveLeaves, ActiveStatuses
  <2>2. \A j \in DOMAIN leaves : leaves'[j].span = leaves[j].span
    BY <1>6, <1>11
  <2>3. \A e \in Employees : ActiveLeaves(e) \subseteq DOMAIN leaves
    BY DEF ActiveLeaves
  <2> QED BY <2>1, <2>2, <2>3 DEF LeaveInv, LeaveFollowsHistory, Disjoint
<1> QED BY <1>7, <1>9, <1>10, <1>13, <1>14, <1>15, <1>16 DEF LeaveInv, LeaveFollowsHistory, History, Disjoint

(* Every step keeps the invariant. *)
LEMMA LeaveSteps == LeaveInv /\ [TimeOffNext]_timeOffVars => LeaveInv'
<1> SUFFICES ASSUME LeaveInv, [TimeOffNext]_timeOffVars PROVE LeaveInv'
  OBVIOUS
<1>0. today \in Days /\ active \subseteq Employees
  BY DEF LeaveInv, TimeOffTypeOK
<1>1. CASE \E e \in Employees, id \in RetryIds("submit"), span \in LeaveSpans :
             SubmitLeaveRequest(Submission(e, id, span))
  BY <1>1, SubmitKeeps
<1>2. CASE \E k \in DOMAIN leaves : \E call \in TransitionsOf(k) : TransitionLeaveRequest(call)
  BY <1>2, TransitionKeeps
<1>3. CASE \E e \in active : DeactivateEmployee(e)
  <2>1. UNCHANGED leaveVars /\ (today \in Days /\ active \subseteq Employees)' /\ active' \subseteq active
    BY <1>0, <1>3 DEF DeactivateEmployee
  <2> QED BY <2>1, LeavesRest
<1>4. CASE NextDay
  <2>1. UNCHANGED leaveVars /\ (today \in Days /\ active \subseteq Employees)' /\ active' \subseteq active
    BY <1>0, <1>4, TimeOffAssumption DEF NextDay, Days
  <2> QED BY <2>1, LeavesRest
<1>5. CASE UNCHANGED timeOffVars
  <2>1. UNCHANGED leaveVars /\ (today \in Days /\ active \subseteq Employees)' /\ active' \subseteq active
    BY <1>0, <1>5 DEF timeOffVars
  <2> QED BY <2>1, LeavesRest
<1> QED BY <1>1, <1>2, <1>3, <1>4, <1>5 DEF TimeOffNext

-----------------------------------------------------------------------------
(* The invariant holds of every behaviour. *)
THEOREM LeaveInvariance == TimeOffSpec => []LeaveInv
  BY InitLeaves, LeaveSteps, PTL DEF TimeOffSpec

(* The variables take the values the type invariant lists. *)
THEOREM TimeOffTypeCorrect == TimeOffSpec => []TimeOffTypeOK
<1>1. LeaveInv => TimeOffTypeOK BY DEF LeaveInv
<1> QED BY <1>1, LeaveInvariance, PTL

(* The leave requests are what their history and the receipts tell: each   *)
(* is decided once, by one who may, no two active ones of an employee      *)
(* overlap, and a call sent again has been done once.                      *)
THEOREM LeaveIsItsHistory == TimeOffSpec => []LeaveFollowsHistory
<1>1. LeaveInv => LeaveFollowsHistory BY DEF LeaveInv
<1> QED BY <1>1, LeaveInvariance, PTL

(* Who decides a leave, where every employee has a manager and all the     *)
(* managers stay active employees: an administrator or the manager.  Where *)
(* not, transition_leave_request lets any manager decide.                  *)
DecidedByManager ==
  \A k \in DOMAIN leaves :
    leaves[k].status \in {"approved", "declined"} =>
      leaves[k].reviewer \in Administrators \cup {ManagerOf[leaves[k].employee]}
AllManaged ==
  /\ \A e \in Employees : ManagerOf[e] # None
  /\ Managers \cap Employees \subseteq active
THEOREM ManagersDecideTheirReports ==
  TimeOffSpec /\ []AllManaged => []DecidedByManager
<1>1. LeaveInv /\ AllManaged => DecidedByManager
  <2> SUFFICES ASSUME LeaveInv, AllManaged, NEW k \in DOMAIN leaves,
                      leaves[k].status \in {"approved", "declined"}
               PROVE  leaves[k].reviewer \in Administrators \cup {ManagerOf[leaves[k].employee]}
    BY DEF DecidedByManager
  <2>1. leaves[k].employee \in Employees
    <3>1. leaves \in Seq(LeaveRow)
      BY Types DEF LeaveInv
    <3>2. leaves[k] \in LeaveRow BY <3>1
    <3> QED BY <3>2 DEF LeaveRow
  <2>2. leaves[k].reviewer \in Reviewers(leaves[k].employee)
    BY DEF LeaveInv, LeaveFollowsHistory, FollowsItsEvents
  <2>3. ManagerOf[leaves[k].employee] # None
    BY <2>1 DEF AllManaged
  <2> QED BY <2>2, <2>3 DEF Reviewers, AllManaged
<1> QED BY <1>1, LeaveInvariance, PTL

(* What has been decided stands: a request that is no longer submitted     *)
(* never changes again, and no event and no receipt is lost or rewritten   *)
(* (guard_time_off_request_mutation, transition_leave_request).            *)
Stands ==
  /\ \A k \in DOMAIN leaves :
       k \in DOMAIN leaves' /\ (leaves[k].status # "submitted" => leaves'[k] = leaves[k])
  /\ \A i \in DOMAIN history : i \in DOMAIN history' /\ history'[i] = history[i]
  /\ answered \subseteq answered'
DecisionsStand == [][Stands]_timeOffVars
THEOREM DecisionsAreFinal == TimeOffSpec => DecisionsStand
<1>1. LeaveInv /\ [TimeOffNext]_timeOffVars => [Stands]_timeOffVars
  <2> SUFFICES ASSUME LeaveInv, [TimeOffNext]_timeOffVars PROVE [Stands]_timeOffVars
    OBVIOUS
  <2>0. leaves \in Seq(LeaveRow) /\ history \in Seq(EventRow)
    BY Types DEF LeaveInv
  <2>1. ASSUME NEW e \in Employees, NEW id, NEW span \in LeaveSpans,
               SubmitLeaveRequest(Submission(e, id, span))
        PROVE  Stands
    <3>1. /\ \E row : leaves' = Append(leaves, row)
          /\ \E event : history' = Append(history, event)
          /\ answered \subseteq answered'
      BY <2>1 DEF SubmitLeaveRequest, Answer
    <3> QED BY <2>0, <3>1 DEF Stands
  <2>2. ASSUME NEW k \in DOMAIN leaves, NEW call \in TransitionsOf(k),
               TransitionLeaveRequest(call)
        PROVE  Stands
    <3>1. call.leave = k
      BY DEF TransitionsOf, Transition
    <3>2. leaves[k].status = "submitted"
      BY <2>2, <3>1 DEF TransitionLeaveRequest, Transitions
    <3>3. DOMAIN leaves' = DOMAIN leaves /\ \A j \in DOMAIN leaves : j # k => leaves'[j] = leaves[j]
      BY <2>0, <2>2, <3>1 DEF TransitionLeaveRequest
    <3>4. \E event : history' = Append(history, event)
      BY <2>2 DEF TransitionLeaveRequest
    <3>5. answered \subseteq answered'
      BY <2>2 DEF TransitionLeaveRequest, Answer
    <3> QED BY <2>0, <3>2, <3>3, <3>4, <3>5 DEF Stands
  <2>3. CASE UNCHANGED leaveVars
    BY <2>3 DEF Stands, leaveVars
  <2>4. CASE UNCHANGED timeOffVars
    BY <2>4
  <2> QED BY <2>1, <2>2, <2>3, <2>4 DEF TimeOffNext, DeactivateEmployee, NextDay
<1> QED BY <1>1, LeaveInvariance, PTL DEF TimeOffSpec, DecisionsStand

-----------------------------------------------------------------------------
(***************************************************************************)
(* Lists.                                                                  *)
(***************************************************************************)
PassedOver(row) == list.codec.truncates /\ EndsIn(row)
BehindCursor == cursor.kind = "at" => \A row \in Shown : ~Beyond(row, cursor)
AheadOfCursor ==
  cursor.kind = "at" => \A row \in Missed : Beyond(row, cursor) \/ PassedOver(row)
OwnIds == \A row, q \in present : row.id = q.id => row = q
ListInv ==
  /\ CursorPagesTypeOK /\ IsFiniteSet(present) /\ OwnIds /\ ListedOnce
  /\ cursor = FirstPage => pages = <<>>
  /\ BehindCursor /\ AheadOfCursor

-----------------------------------------------------------------------------
(* Only lists in descending order have cursors that lose precision.        *)
LEMMA ListFacts ==
  ASSUME list \in Lists
  PROVE  /\ list.ascending \in BOOLEAN /\ list.keyed \in BOOLEAN
         /\ list.codec.truncates \in BOOLEAN
         /\ list.codec.truncates => list.keyed /\ ~list.ascending
<1>1. \A ascending, codec, keyed :
        LET l == List(ascending, codec, keyed)
        IN l.ascending = ascending /\ l.codec = codec /\ l.keyed = keyed
  BY DEF List
<1>2. \A truncates, expires : Codec(truncates, expires).truncates = truncates
  BY DEF Codec
<1>3. \E ascending, truncates, expires, keyed \in BOOLEAN :
        /\ list = List(ascending, Codec(truncates, expires), keyed)
        /\ truncates => keyed /\ ~ascending
  BY DEF Lists, getEmployeeAttendance, getAttendanceReview, getAuditHistory,
         listPrivacyRequests, getEmployeeLeaveRequests, getLeaveReviewQueue,
         getEmployeeTimecards, getTimecardReviewQueue, listPayrollRuns, getPayrollRun,
         listApprovedTimecards, listPayslips, getEmployees, AttendanceCursor, AuditCursor,
         PrivacyCursor, LeaveCursor, TimecardCursor, PayrollCursor, SelfServiceCursor
<1> QED
  BY <1>1, <1>2, <1>3

(* Keys and identifiers are numbers.                                       *)
LEMMA RowsAreNumbers ==
  /\ \A row \in ListRows : row.at \in Nat /\ row.id \in Nat
  /\ \A id \in Ids : id \in Nat
<1>1. \A id \in Ids : id \in Nat
  BY CursorPagesAssumption DEF CursorPagesAssumption
<1>2. \A at \in 0..MaxAt : at \in Nat
  BY CursorPagesAssumption DEF CursorPagesAssumption
<1>3. \A row \in ListRows : row.at \in 0..MaxAt /\ row.id \in Ids
  BY DEF ListRows
<1> QED
  BY <1>1, <1>2, <1>3

(* A cursor is one of four kinds.                                          *)
LEMMA CursorKinds ==
  ASSUME CursorPagesTypeOK
  PROVE  /\ cursor = FirstPage <=> cursor.kind = "first"
         /\ cursor = LastPage <=> cursor.kind = "none"
         /\ cursor = RefusedCursor <=> cursor.kind = "refused"
         /\ cursor.kind = "at" => cursor.at \in Nat /\ cursor.id \in Nat
BY RowsAreNumbers DEF CursorPagesTypeOK, FirstPage, LastPage, RefusedCursor

(* The order of a list.                                                    *)
LEMMA OrderIsStrict ==
  ASSUME list \in Lists, NEW a, NEW b, NEW c,
         a.at \in Int, a.id \in Int, b.at \in Int, b.id \in Int, c.at \in Int, c.id \in Int
  PROVE  /\ ~Beyond(a, a)
         /\ Beyond(a, b) => ~Beyond(b, a)
         /\ Beyond(a, b) /\ Beyond(b, c) => Beyond(a, c)
BY ListFacts DEF Beyond, Past

(* Of two rows of a list one comes after the other.                        *)
LEMMA OrderIsTotal ==
  ASSUME list \in Lists, NEW a \in ListRows, NEW b \in ListRows, a.id # b.id
  PROVE  Beyond(a, b) \/ Beyond(b, a)
<1>1. a.at \in Nat /\ a.id \in Nat /\ b.at \in Nat /\ b.id \in Nat
  BY RowsAreNumbers
<1> QED
  BY <1>1, ListFacts DEF Beyond, Past

(* A moment and the millisecond it is in.                                  *)
LEMMA TruncatedBelow ==
  ASSUME NEW a \in Nat, NEW b \in Nat
  PROVE  /\ Truncated(a) \in Nat /\ Truncated(a) <= a
         /\ Truncated(a) <= b /\ b <= a => Truncated(b) = Truncated(a)
<1>1. Millisecond \in Nat \ {0}
  BY CursorPagesAssumption DEF CursorPagesAssumption
<1>2. /\ Truncated(a) \in Int /\ Truncated(a) <= a /\ a < Truncated(a) + Millisecond
      /\ \A x \in Int : Truncated(a) <= x /\ x < Truncated(a) + Millisecond =>
           x \div Millisecond = a \div Millisecond
  <2>1. Truncated(a) = (a \div Millisecond) * Millisecond
    BY DEF Truncated
  <2>2. a \in Int
    OBVIOUS
  <2> HIDE DEF Truncated
  <2> QED
    BY <1>1, <2>1, <2>2, Quotient
<1>4. Truncated(a) \in Nat
  <2>1. a \div Millisecond \in Nat
    BY <1>1
  <2>2. \A q, n \in Nat : q * n \in Nat
    OBVIOUS
  <2> QED
    BY <1>1, <2>1, <2>2 DEF Truncated
<1>3. ASSUME Truncated(a) <= b, b <= a
      PROVE  Truncated(b) = Truncated(a)
  <2>1. b \div Millisecond = a \div Millisecond
    BY <1>1, <1>2, <1>3
  <2> QED
    BY <2>1 DEF Truncated
<1> QED
  BY <1>2, <1>3, <1>4

(* A cursor stands at its row or, when it has lost microseconds, after it, *)
(* but within the millisecond.                                             *)
LEMMA CursorStandsAt ==
  ASSUME list \in Lists, NEW last \in ListRows, NEW row \in ListRows,
         NEW place, place = CursorTo(list.codec, last)
  PROVE  /\ place \in {[kind |-> "at", at |-> r.at, id |-> r.id] : r \in ListRows}
         /\ place.kind = "at"
         /\ Beyond(row, place) => Beyond(row, last)
         /\ Beyond(row, last) =>
              \/ Beyond(row, place)
              \/ (list.codec.truncates /\ Truncated(last.at) = Truncated(row.at))
<1>1. /\ last.at \in Nat /\ last.id \in Nat /\ row.at \in Nat /\ row.id \in Nat
  BY RowsAreNumbers
<1>2. /\ place.kind = "at" /\ place.id = last.id
      /\ place.at = IF list.codec.truncates THEN Truncated(last.at) ELSE last.at
  BY DEF CursorTo
<1>3. /\ Truncated(last.at) \in Int /\ Truncated(last.at) <= last.at
      /\ Truncated(last.at) <= row.at /\ row.at <= last.at =>
           Truncated(row.at) = Truncated(last.at)
  BY <1>1, TruncatedBelow
<1>5. place \in {[kind |-> "at", at |-> r.at, id |-> r.id] : r \in ListRows}
  <2>1. /\ last.at \in 0..MaxAt /\ last.id \in Ids
        /\ Truncated(last.at) \in Nat /\ Truncated(last.at) <= last.at
    BY <1>1, TruncatedBelow DEF ListRows
  <2>2. Truncated(last.at) \in 0..MaxAt
    BY <1>1, <2>1, CursorPagesAssumption DEF CursorPagesAssumption
  <2>3. PICK at \in 0..MaxAt : place = [kind |-> "at", at |-> at, id |-> last.id]
    BY <2>1, <2>2 DEF CursorTo
  <2>4. [at |-> at, id |-> last.id] \in ListRows
    BY <2>1 DEF ListRows
  <2> QED
    BY <2>3, <2>4
<1>4. /\ Beyond(row, place) => Beyond(row, last)
      /\ Beyond(row, last) =>
           \/ Beyond(row, place)
           \/ (list.codec.truncates /\ Truncated(last.at) = Truncated(row.at))
  <2>1. CASE list.codec.truncates
    <3>1. list.keyed /\ ~list.ascending /\ place.at = Truncated(last.at)
      BY <1>2, <2>1, ListFacts
    <3>2. /\ Beyond(row, last) <=>
               row.at < last.at \/ (row.at = last.at /\ row.id < last.id)
          /\ Beyond(row, place) <=>
               row.at < Truncated(last.at) \/ (row.at = Truncated(last.at) /\ row.id < last.id)
      BY <1>2, <3>1 DEF Beyond, Past
    <3> QED
      BY <1>1, <1>3, <2>1, <3>2
  <2>2. CASE ~list.codec.truncates
    BY <1>2, <2>2 DEF Beyond, Past
  <2> QED
    BY <2>1, <2>2
<1> QED
  BY <1>2, <1>4, <1>5

(* A list that is not taken further is shown to its end.                   *)
LEMMA LastPageIsAll ==
  ASSUME list \in Lists, NEW after, IsFiniteSet(after), NEW page \in SUBSET after,
         FirstRows(page, after), ~HasMore(after)
  PROVE  page = after
<1>1. Cardinality(after) \in Nat /\ PageSize \in Nat
  BY CursorPagesAssumption, FS_CardinalityType DEF CursorPagesAssumption
<1>2. Cardinality(page) = Cardinality(after)
  BY <1>1, ListFacts DEF FirstRows, HasMore
<1> QED
  BY <1>2, FS_Subset

(* What is kept while neither the cursor nor what was shown changes.       *)
LEMMA RowsComeAndGo ==
  ASSUME ListInv, UNCHANGED <<list, pages, cursor>>, ever' \subseteq ever
  PROVE  /\ ListedOnce' /\ BehindCursor' /\ AheadOfCursor'
         /\ cursor' = FirstPage => pages' = <<>>
<1>1. /\ Shown' = Shown /\ Missed' \subseteq Missed
      /\ \A r, c : Beyond(r, c)' <=> Beyond(r, c)
  BY DEF Shown, Missed, Beyond, Past
<1>2. \A r : EndsIn(r)' <=> EndsIn(r)
  BY DEF EndsIn, LastOf, Beyond, Past
<1> QED
  BY <1>1, <1>2 DEF ListInv, OwnIds, ListedOnce, ShownOnce, BehindCursor, AheadOfCursor, PassedOver

-----------------------------------------------------------------------------
(* A page shows what is beyond the cursor and takes the cursor further.    *)
LEMMA PageKeeps ==
  ASSUME ListInv, ReadPage
  PROVE  ListInv'
<1> DEFINE after == {r \in present : cursor = FirstPage \/ Beyond(r, cursor)}
<1>1. PICK page \in SUBSET after :
        /\ FirstRows(page, after)
        /\ pages' = Append(pages, page)
        /\ IF HasMore(after)
           THEN \E last \in page : LastOf(last, page) /\ cursor' = CursorTo(list.codec, last)
           ELSE cursor' = LastPage
  BY DEF ReadPage
<1>2. /\ list' = list /\ present' = present /\ cursor.kind \in {"first", "at"}
      /\ ever' = IF cursor = FirstPage THEN present ELSE ever
  BY DEF ReadPage
<1>3. /\ list \in Lists /\ present \subseteq ListRows /\ ever \subseteq present
      /\ pages \in Seq(SUBSET ListRows) /\ IsFiniteSet(present)
  BY DEF ListInv, CursorPagesTypeOK
<1>4. /\ cursor = FirstPage <=> cursor.kind = "first"
      /\ cursor.kind = "at" => cursor.at \in Nat /\ cursor.id \in Nat
  BY CursorKinds, RowsAreNumbers DEF ListInv
<1>5. page \subseteq ListRows /\ IsFiniteSet(after)
  BY <1>3, FS_Subset
<1>6. /\ DOMAIN pages = 1..Len(pages) /\ Len(pages) \in Nat
      /\ pages' \in Seq(SUBSET ListRows)
      /\ DOMAIN pages' = 1..(Len(pages) + 1)
      /\ \A p \in DOMAIN pages : pages'[p] = pages[p]
      /\ pages'[Len(pages) + 1] = page
  BY <1>1, <1>3, <1>5
<1>7. Shown' = Shown \cup page
  BY <1>6 DEF Shown
<1>8. Shown \cap page = {}
  <2>1. CASE cursor = FirstPage
    BY <2>1 DEF ListInv, Shown
  <2>2. CASE cursor # FirstPage
    BY <1>2, <1>4, <2>2 DEF ListInv, BehindCursor
  <2> QED
    BY <2>1, <2>2
<1>9. ShownOnce'
  <2>1. \A p \in DOMAIN pages : pages[p] \cap page = {}
    BY <1>8 DEF Shown
  <2> QED
    BY <1>6, <2>1 DEF ShownOnce, ListInv, ListedOnce
<1>10. \A r, c : Beyond(r, c)' <=> Beyond(r, c)
  BY <1>2 DEF Beyond, Past
<1>11. /\ \A r : EndsIn(r) => EndsIn(r)'
       /\ \A last \in page : \A r : LastOf(last, page) /\ Truncated(last.at) = Truncated(r.at)
            => EndsIn(r)'
  BY <1>2, <1>6 DEF EndsIn, LastOf, Beyond, Past
(* What is missed and lies before the page was passed over before.         *)
<1>12. ASSUME NEW r \in Missed', r \notin after
       PROVE  PassedOver(r)'
  <2>1. cursor # FirstPage /\ r \in Missed /\ ~Beyond(r, cursor)
    BY <1>2, <1>3, <1>7, <1>12 DEF Missed
  <2>2. PassedOver(r)
    BY <1>2, <1>4, <2>1 DEF ListInv, AheadOfCursor
  <2> QED
    BY <1>2, <1>11, <2>2 DEF PassedOver
<1>13. CASE ~HasMore(after)
  <2>1. page = after /\ cursor' = LastPage /\ cursor' # FirstPage /\ cursor'.kind # "at"
    BY <1>1, <1>3, <1>5, <1>13, LastPageIsAll DEF LastPage, FirstPage
  <2>2. \A r \in Missed' : PassedOver(r)'
    BY <1>7, <1>12, <2>1 DEF Missed
  <2>3. CursorPagesTypeOK'
    BY <1>2, <1>3, <1>6, <2>1 DEF CursorPagesTypeOK
  <2> QED
    BY <1>2, <1>3, <1>9, <2>1, <2>2, <2>3
       DEF ListInv, OwnIds, ListedOnce, BehindCursor, AheadOfCursor, PassedOver
<1>14. CASE HasMore(after)
  <2>1. PICK last \in page : LastOf(last, page) /\ cursor' = CursorTo(list.codec, last)
    BY <1>1, <1>14
  <2>2. PICK place : place = CursorTo(list.codec, last)
    OBVIOUS
  <2>3. /\ place \in {[kind |-> "at", at |-> r.at, id |-> r.id] : r \in ListRows}
        /\ place.kind = "at" /\ cursor' = place
        /\ \A r \in ListRows :
             /\ Beyond(r, place) => Beyond(r, last)
             /\ Beyond(r, last) =>
                  Beyond(r, place) \/ (list.codec.truncates /\ Truncated(last.at) = Truncated(r.at))
    BY <1>3, <1>5, <2>1, <2>2, CursorStandsAt
  <2>4. \A r \in ListRows : r.at \in Int /\ r.id \in Int
    BY RowsAreNumbers
  <2>5. BehindCursor'
    <3>1. ASSUME NEW r \in page PROVE ~Beyond(r, last)
      BY <2>1 DEF LastOf
    <3>2. ASSUME NEW r \in Shown PROVE ~Beyond(r, last)
      <4>1. r \in ListRows
        BY <1>3 DEF Shown
      <4>2. cursor # FirstPage
        BY <1>3, <3>2 DEF ListInv, Shown
      <4>3. ~Beyond(r, cursor) /\ Beyond(last, cursor)
        BY <1>2, <1>4, <4>2 DEF ListInv, BehindCursor
      <4>4. last.at \in Int /\ last.id \in Int /\ r.at \in Int /\ r.id \in Int
        BY <1>5, <2>4, <4>1
      <4> QED
        BY <1>2, <1>3, <1>4, <4>2, <4>3, <4>4, OrderIsStrict
    <3>3. \A r \in Shown' : r \in ListRows /\ ~Beyond(r, place)
      BY <1>3, <1>5, <1>7, <2>3, <3>1, <3>2 DEF Shown
    <3> QED
      BY <1>10, <2>3, <3>3 DEF BehindCursor
  <2>6. AheadOfCursor'
    <3>1. ASSUME NEW r \in Missed', r \in after PROVE Beyond(r, place) \/ PassedOver(r)'
      <4>1. r \in ListRows /\ r \notin page
        BY <1>3, <1>7, <3>1 DEF Missed
      <4>2. ~Beyond(last, r)
        BY <1>1, <3>1, <4>1 DEF FirstRows
      <4>3. last.id # r.id
        BY <3>1, <4>1 DEF ListInv, OwnIds
      <4>4. Beyond(r, last)
        BY <1>3, <1>5, <4>1, <4>2, <4>3, OrderIsTotal
      <4> QED
        BY <1>2, <1>11, <2>1, <2>3, <4>1, <4>4 DEF PassedOver
    <3> QED
      BY <1>10, <1>12, <2>3, <3>1 DEF AheadOfCursor
  <2>7. CursorPagesTypeOK'
    <3>1. /\ ever' \subseteq present' /\ cursor' = place
      BY <1>2, <1>3, <2>3
    <3> QED
      BY <1>2, <1>3, <1>6, <2>3, <3>1 DEF CursorPagesTypeOK
  <2> QED
    BY <1>2, <1>3, <1>9, <2>3, <2>5, <2>6, <2>7 DEF ListInv, OwnIds, ListedOnce, LastPage, FirstPage
<1> QED
  BY <1>13, <1>14

(* Every step keeps the invariant.                                         *)
LEMMA ListStep == ListInv /\ [CursorPagesNext]_cursorVars => ListInv'
<1> SUFFICES ASSUME ListInv, [CursorPagesNext]_cursorVars PROVE ListInv'
  OBVIOUS
<1>1. /\ list \in Lists /\ present \subseteq ListRows /\ ever \subseteq present
      /\ pages \in Seq(SUBSET ListRows) /\ IsFiniteSet(present)
  BY DEF ListInv, CursorPagesTypeOK
<1>2. CASE ReadPage
  BY <1>2, PageKeeps
<1>3. CASE ExpireCursor
  <2>1. /\ UNCHANGED <<list, present, ever, pages>> /\ cursor' = RefusedCursor
    BY <1>3 DEF ExpireCursor
  <2>2. RefusedCursor # FirstPage /\ RefusedCursor # LastPage /\ RefusedCursor.kind = "refused"
    BY DEF RefusedCursor, FirstPage, LastPage
  <2>3. ShownOnce'
    BY <2>1 DEF ListInv, OwnIds, ListedOnce, ShownOnce
  <2>4. CursorPagesTypeOK'
    BY <1>1, <2>1 DEF CursorPagesTypeOK
  <2> QED
    BY <1>1, <2>1, <2>2, <2>3, <2>4 DEF ListInv, OwnIds, ListedOnce, BehindCursor, AheadOfCursor
<1>4. CASE StartOver
  <2>1. /\ UNCHANGED <<list, present>> /\ cursor' = FirstPage /\ pages' = <<>> /\ ever' = {}
    BY <1>4 DEF StartOver
  <2>2. FirstPage # LastPage /\ FirstPage.kind = "first"
    BY DEF FirstPage, LastPage
  <2>3. CursorPagesTypeOK'
    BY <1>1, <2>1 DEF CursorPagesTypeOK
  <2> QED
    BY <1>1, <2>1, <2>2, <2>3
       DEF ListInv, OwnIds, ListedOnce, ShownOnce, BehindCursor, AheadOfCursor
<1>5. ASSUME NEW row \in ListRows, RowAppears(row) PROVE ListInv'
  <2>1. /\ UNCHANGED <<list, pages, cursor, ever>> /\ present' = present \cup {row}
    BY <1>5 DEF RowAppears
  <2>2. IsFiniteSet(present')
    BY <1>1, <2>1, FS_AddElement
  <2>3. CursorPagesTypeOK'
    BY <1>1, <1>5, <2>1 DEF ListInv, CursorPagesTypeOK
  <2>4. OwnIds'
    BY <1>5, <2>1 DEF ListInv, OwnIds, RowAppears
  <2> QED
    BY <2>1, <2>2, <2>3, <2>4, RowsComeAndGo DEF ListInv
<1>6. ASSUME NEW row \in present, RowLeaves(row) PROVE ListInv'
  <2>1. /\ UNCHANGED <<list, pages, cursor>>
        /\ present' = present \ {row} /\ ever' = ever \ {row}
    BY <1>6 DEF RowLeaves
  <2>2. IsFiniteSet(present')
    BY <1>1, <2>1, FS_RemoveElement
  <2>3. CursorPagesTypeOK'
    BY <1>1, <2>1 DEF ListInv, CursorPagesTypeOK
  <2>4. OwnIds'
    BY <2>1 DEF ListInv, OwnIds
  <2> QED
    BY <2>1, <2>2, <2>3, <2>4, RowsComeAndGo DEF ListInv
<1>7. CASE UNCHANGED cursorVars
  <2>1. UNCHANGED <<list, present, ever, pages, cursor>>
    BY <1>7 DEF cursorVars
  <2>2. CursorPagesTypeOK'
    BY <1>1, <2>1 DEF ListInv, CursorPagesTypeOK
  <2>3. OwnIds'
    BY <2>1 DEF ListInv, OwnIds
  <2> QED
    BY <1>1, <2>1, <2>2, <2>3, RowsComeAndGo DEF ListInv
<1> QED
  BY <1>2, <1>3, <1>4, <1>5, <1>6, <1>7 DEF CursorPagesNext

(* Nothing is listed at the start.                                         *)
LEMMA ListBegins == CursorPagesInit => ListInv
<1> SUFFICES ASSUME CursorPagesInit PROVE ListInv
  OBVIOUS
<1>1. /\ list \in Lists /\ present = {} /\ ever = {} /\ pages = <<>> /\ cursor = FirstPage
  BY DEF CursorPagesInit
<1>2. FirstPage # LastPage /\ FirstPage.kind = "first"
  BY DEF FirstPage, LastPage
<1>3. CursorPagesTypeOK
  BY <1>1 DEF CursorPagesTypeOK
<1>4. IsFiniteSet(present)
  BY <1>1, FS_EmptySet
<1> QED
  BY <1>1, <1>2, <1>3, <1>4 DEF ListInv, OwnIds, ListedOnce, ShownOnce, BehindCursor, AheadOfCursor

(* What has been shown is behind the cursor, and what is still to be shown *)
(* ahead of it.                                                            *)
THEOREM ListsInvariance == CursorPagesSpec => []ListInv
BY ListBegins, ListStep, PTL DEF CursorPagesSpec

(* However rows come and go, no row is shown twice, and none that was      *)
(* there all along is missed but for the precision of the cursor.          *)
THEOREM EveryRowListedOnce == CursorPagesSpec => []ListedOnce
<1>1. ListInv => ListedOnce
  BY DEF ListInv
<1> QED
  BY <1>1, ListsInvariance, PTL

-----------------------------------------------------------------------------
(***************************************************************************)
(* The composition.                                                        *)
(***************************************************************************)
(* A step of the organization is a step of each component or leaves it     *)
(* alone.                                                                  *)
LEMMA StepsOfComponents ==
  ASSUME [OrganizationNext]_organizationVars
  PROVE  /\ [PrivacyNext]_privacyVars /\ [TimeOffNext]_timeOffVars
         /\ [AccessNext]_accessVars /\ [CursorPagesNext]_cursorVars
BY DEF OrganizationNext, organizationVars, RetentionCase

(* In the organization each component behaves as it does alone.            *)
THEOREM ComponentsAlone ==
  OrganizationSpec =>
    /\ PrivacyInit /\ [][PrivacyNext]_privacyVars
    /\ TimeOffSpec /\ AccessSpec /\ CursorPagesSpec
<1>1. OrganizationInit => PrivacyInit /\ TimeOffInit /\ AccessInit /\ CursorPagesInit
  BY DEF OrganizationInit
<1>2. [OrganizationNext]_organizationVars =>
        /\ [PrivacyNext]_privacyVars /\ [TimeOffNext]_timeOffVars
        /\ [AccessNext]_accessVars /\ [CursorPagesNext]_cursorVars
  BY StepsOfComponents
<1> QED
  BY <1>1, <1>2, PTL DEF OrganizationSpec, TimeOffSpec, AccessSpec, CursorPagesSpec

(* The state of every component keeps its type.                            *)
THEOREM OrganizationTypeCorrect == OrganizationSpec => []TypesOK
<1>1. PrivacyInit => PInv
  BY PInvInit
<1>2. PInv /\ [PrivacyNext]_privacyVars => PInv'
  BY PInvStep
<1>3. PInv => PrivacyTypeOK
  BY DEF PInv
<1>4. ListInv => CursorPagesTypeOK
  BY DEF ListInv
<1>5. PrivacyTypeOK /\ TimeOffTypeOK /\ AccessTypeOK /\ CursorPagesTypeOK => TypesOK
  BY DEF TypesOK
<1> QED
  BY <1>1, <1>2, <1>3, <1>4, <1>5, ComponentsAlone, TimeOffTypeCorrect, AccessTypeCorrect,
     ListsInvariance, PTL

(* All that its components promise, short of liveness, the composition     *)
(* keeps: the properties the run of MCOrganization checks.                 *)
THEOREM OrganizationKeepsItsPromises ==
  OrganizationSpec => /\ []LeaveFollowsHistory /\ []FoundsOnce /\ []AccessAgrees /\ []ListedOnce
                      /\ ErasedWhenCompleted /\ HoldsStop /\ DecisionsStand
<1>1. PrivacyInit /\ [][PrivacyNext]_privacyVars => []PInv
  <2>1. PrivacyInit => PInv
    BY PInvInit
  <2>2. PInv /\ [PrivacyNext]_privacyVars => PInv'
    BY PInvStep
  <2> QED
    BY <2>1, <2>2, PTL
<1>2. PInv /\ [PrivacyNext]_privacyVars =>
        [\A k \in DOMAIN requests :
           (requests[k].status # "completed" /\ requests'[k].status = "completed") =>
             \E w \in Executions :
               /\ At(w, "finish") /\ Request(w) = k
               /\ \A r \in rows' : r.subject = requests[k].subject => r.id > exec[w].began
        ]_privacyVars
  BY CompletesErased
<1>3. PInv /\ [PrivacyNext]_privacyVars =>
        [\A r \in rows : ~Kept(r) /\ r.subject \in held =>
           \E w \in Executions : exec'[w] # exec[w] /\ r.subject \in exec[w].outrun]_privacyVars
  BY RemovesUnheld
<1>4. PrivacyInit /\ [][PrivacyNext]_privacyVars => ErasedWhenCompleted /\ HoldsStop
  BY <1>1, <1>2, <1>3, PTL DEF ErasedWhenCompleted, HoldsStop
<1>5. AccessInv => FoundsOnce
  BY DEF AccessInv, MembershipsInv
<1>6. AccessSpec => []FoundsOnce
  BY <1>5, AccessInvariance, PTL
<1> QED
  BY <1>4, <1>6, ComponentsAlone, LeaveIsItsHistory, DecisionsAreFinal, PartsAgree,
     EveryRowListedOnce, PTL

=============================================================================
