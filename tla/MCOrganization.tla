----------------------------- MODULE MCOrganization -----------------------------
(* The components of an organization beside payroll and timecards, in one  *)
(* run.  In the model they share no table: a behaviour is one of a         *)
(* component, or of one of two cases of retention, and the others rest.    *)
EXTENDS PrivacyProperties, TimeOff, Access, CursorPages

CONSTANTS s1, s2, w1, w2, e1, m1, m2, a1, founder, colleague, t1, t2, n1, n2

MCSubjects == {s1, s2}
MCExecutions == {w1, w2}
MCEmployees == {e1, m1, m2}
MCManagerOf == [e \in MCEmployees |-> IF e = e1 THEN m1 ELSE None]
MCManagers == {m1, m2}
MCAdministrators == {a1}
MCPeople == {founder, colleague}
MCCalls == {t1, t2}
MCNames == {n1, n2}
MCAssigned == {[role |-> "employee", status |-> "active"],
               [role |-> "manager", status |-> "active"]}

VARIABLE case   \* which component the behaviour is of

Cases == {"overlap", "crowd", "time off", "memberships", "lists"}
organizationVars == <<case, privacyVars, timeOffVars, accessVars, cursorVars>>

(* The cases of retention: two executions and the rows of one subject,     *)
(* with two rows or a row and a fault; one execution and more requests     *)
(* than it takes.                                                          *)
Overlapping ==
  /\ chosen \cup held \subseteq {s1} /\ Len(requests) <= 1 /\ faults + written <= 2
  /\ \A k \in DOMAIN requests : requests[k].subject = s1
Crowding == written = 0 /\ exec[w2] = NoExecution
RetentionCase(step) ==
  /\ case \in {"overlap", "crowd"} /\ step
  /\ (case = "overlap" /\ Overlapping') \/ (case = "crowd" /\ Crowding')
  /\ UNCHANGED <<case, timeOffVars, accessVars, cursorVars>>

(* Two requests at once found organizations and assign employees; with one *)
(* at a time, and one name, there are managers and employee records, and a *)
(* second record where there is one organization.                          *)
Managing ==
  \/ \E m \in DOMAIN members : members[m].role = "manager"
  \/ \E t \in Calls : /\ underway[t].pc \in {"assigning", "written"}
                     /\ underway[t].access.role = "manager"
Staffing ==
  /\ staff # <<>> \/ Managing =>
       underway[t2] = NoCall /\ \A slug \in Slugs : slug[1] = n1
  /\ Len(staff) = 2 => Len(organizations) = 1

(* e1 has a manager, m1; m1 and m2 have none.  Where m2 has called or is   *)
(* deactivated there is one leave.                                         *)
Covering ==
  m2 \notin active \/ (\E receipt \in answered : receipt.call.actor = m2) => Len(leaves) <= 1

OrganizationInit ==
  /\ case \in Cases
  /\ PrivacyInit /\ TimeOffInit /\ AccessInit /\ CursorPagesInit
  /\ case # "lists" => list = getEmployees

OrganizationNext ==
  \/ RetentionCase(PrivacyNext)
  \/ /\ case = "time off" /\ TimeOffNext /\ Covering'
     /\ UNCHANGED <<case, privacyVars, accessVars, cursorVars>>
  \/ /\ case = "memberships" /\ AccessNext /\ Staffing'
     /\ UNCHANGED <<case, privacyVars, timeOffVars, cursorVars>>
  \/ /\ case = "lists" /\ CursorPagesNext
     /\ UNCHANGED <<case, privacyVars, timeOffVars, accessVars>>

(* PrivacyFairness, within the case. *)
OrganizationFairness ==
  \A w \in Executions : WF_organizationVars(RetentionCase(RetentionStep(w)))

OrganizationSpec ==
  OrganizationInit /\ [][OrganizationNext]_organizationVars /\ OrganizationFairness

(* TYPE.  The type invariants of the components. *)
TypesOK == PrivacyTypeOK /\ TimeOffTypeOK /\ AccessTypeOK /\ CursorPagesTypeOK
=============================================================================
