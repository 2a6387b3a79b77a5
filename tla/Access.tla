--------------------------------- MODULE Access ---------------------------------
(***************************************************************************)
(* Who gets into which part of the application.  Every part finds the      *)
(* organization, the role and the employee of a profile for itself, with   *)
(* queries of its own: payroll, privacy and operations through             *)
(* src/auth/access.js, attendance and time off through Supabase, the       *)
(* employees API through src/lib/authorization.js.                         *)
(*                                                                         *)
(* The employee records they look at are a table of this module, beside    *)
(* the memberships.  A membership, as a row of an answer, is the           *)
(* organization, the role, and the employee record (NoRecord: none).       *)
(***************************************************************************)
EXTENDS Memberships

CONSTANTS
  Nobody,       \* no profile
  MaxEmployees  \* bound on the employee records

ASSUME AccessAssumption == Nobody \notin People /\ MaxEmployees \in Nat

VARIABLE staff  \* employees, in order of insertion

accessVars == <<membershipVars, staff>>

NoRecord == 0
Records == DOMAIN staff
RecordsOf(o, p) == {e \in Records : staff[e].organization = o /\ staff[e].profile = p}
ActiveRecordsOf(o, p) == {e \in RecordsOf(o, p) : staff[e].active}
Only(set) == IF set = {} THEN NoRecord ELSE CHOOSE e \in set : TRUE
AsMember(o, p, employee) == [organization |-> o, role |-> members[<<o, p>>].role,
                             employee |-> employee]

(* The answer, at most one row: the organization asked for, if it is       *)
(* available, or else the only one that is.                                *)
Select(rows, given) ==
  {r \in rows : IF given = NoCookie THEN rows = {r} ELSE r.organization = given}

(* The joins of src/auth/access.js: active employees in the left join. *)
getAccessState(p, given) ==
  Select({AsMember(o, p, Only(ActiveRecordsOf(o, p))) : o \in Available(p)}, given)
requireOrganizationAccess(p, given) == getAccessState(p, given)

(* src/attendance/access.js: the employees of the profile by organization, *)
(* whose status is looked at for each membership.                          *)
getAttendanceAccessState_AnyStatus(p) ==
  Select({AsMember(o, p, Only(RecordsOf(o, p))) : o \in Available(p)}, cookie[p])
getAttendanceAccessState(p) ==
  LET employeesByOrganization == [o \in Organizations |-> Only(RecordsOf(o, p))]
      employee(o) == LET e == employeesByOrganization[o]
                     IN IF e # NoRecord /\ staff[e].active THEN e ELSE NoRecord
  IN Select({AsMember(o, p, employee(o)) : o \in Available(p)}, cookie[p])

(* src/time-off/access.js: the active employees of the memberships'        *)
(* organizations; without a membership there is no answer.                 *)
getAuthenticatedAccess(p) ==
  LET employeeRows == UNION {ActiveRecordsOf(o, p) : o \in Available(p)}
      employee(o) == Only({e \in employeeRows : staff[e].organization = o})
  IN Select({AsMember(o, p, employee(o)) : o \in Available(p)}, cookie[p])

(* src/lib/authorization.js: one organization, and an employee of any      *)
(* status; assertRole ranks the roles.                                     *)
resolveOrganizationAccess(p, o) ==
  {AsMember(q, p, Only(RecordsOf(q, p))) : q \in {o} \cap Available(p)}
Rank == [employee |-> 1, manager |-> 2, administrator |-> 3]
assertRole(rows, required) == {r \in rows : Rank[r.role] >= Rank[required]}

Reviewing == {"manager", "administrator"}
WithRole(rows, roles) == {r \in rows : r.role \in roles}
Employed(rows) == {r \in rows : r.employee # NoRecord}

-----------------------------------------------------------------------------
(* The context of each part: the membership a profile works with, if any.  *)
requireAttendanceContext(p, review) ==
  IF review THEN WithRole(getAttendanceAccessState(p), Reviewing)
  ELSE Employed(WithRole(getAttendanceAccessState(p), {"employee"}))
requireTimeOffContext(p, review) ==
  LET rows == getAuthenticatedAccess(p)
  IN IF review THEN WithRole(rows, {"administrator"}) \cup Employed(WithRole(rows, {"manager"}))
     ELSE Employed(rows)
requirePrivacyContext(p, administrator) ==
  LET rows == getAccessState(p, cookie[p])
  IN IF administrator THEN WithRole(rows, {"administrator"}) ELSE rows
requireProductOperationsContext(p) ==
  WithRole(getAccessState(p, cookie[p]), {"administrator"})
requirePayrollAdministrator(p) ==
  assertRole(requireOrganizationAccess(p, cookie[p]), "administrator")
requireSelfServiceContext(p) ==
  {AsMember(r.organization, p, Only(ActiveRecordsOf(r.organization, p))) :
     r \in {q \in requireOrganizationAccess(p, cookie[p]) :
              ActiveRecordsOf(q.organization, p) # {}}}
requireOvertimeContext(p) == requireOrganizationAccess(p, cookie[p])
requireOvertimeAdministrator(p) == WithRole(requireOvertimeContext(p), {"administrator"})

(* The download route: an administrator of the organization, or else the   *)
(* employee of the payslip (organization o, employee e).                   *)
DownloadsPayslip(p, o, e) ==
  LET administers == requirePayrollAdministrator(p)
  IN IF administers # {} THEN \E r \in administers : r.organization = o
     ELSE \E r \in requireSelfServiceContext(p) : r.organization = o /\ r.employee = e

-----------------------------------------------------------------------------
(* Timecards: who may look at the card of an employee record, and who may  *)
(* decide it.  The manager counts whatever the status of their record.     *)
loadAuthorizedEmployee(p, context, e, selfOnly) ==
  LET isSelf == staff[e].profile = p
      isDirectReport == /\ context.employee # NoRecord
                        /\ staff[e].manager = context.employee
  IN /\ staff[e].organization = context.organization
     /\ IF selfOnly THEN isSelf
        ELSE isSelf \/ isDirectReport \/ context.role = "administrator"

ActiveIn(o, p, roles) == o \in Available(p) /\ members[<<o, p>>].role \in roles
ManagerOfRecord(e) ==
  {p \in People : /\ staff[e].manager # NoRecord
                  /\ staff[staff[e].manager].profile = p
                  /\ ActiveIn(staff[e].organization, p, Reviewing)}
AdministratorsFor(e) ==
  {p \in People : /\ ActiveIn(staff[e].organization, p, {"administrator"})
                  /\ p # staff[e].profile}

(* submitTimecard, as far as people are concerned.                         *)
SubmissionAccepted(p, context, e) ==
  /\ loadAuthorizedEmployee(p, context, e, TRUE)
  /\ ManagerOfRecord(e) \cup AdministratorsFor(e) # {}

(* assertReviewer, with a reason to stand in for a manager.                *)
AssertReviewer(p, context, e) ==
  /\ loadAuthorizedEmployee(p, context, e, FALSE)
  /\ staff[e].profile # p
  /\ p \in ManagerOfRecord(e) \/ context.role = "administrator"

-----------------------------------------------------------------------------
(* Employee records: the employees API, and saveEmployeeAction, which      *)
(* inserts or changes one and links it to, or unlinks it from, a profile.  *)
Record(o, p, manager) == [organization |-> o, profile |-> p, active |-> TRUE,
                          manager |-> manager]
Unlinked(p) == p = Nobody \/ \A e \in Records : staff[e].profile # p
PostEmployee(actor, o, p, manager) ==
  /\ assertRole(resolveOrganizationAccess(actor, o), "administrator") # {}
  /\ Unlinked(p) /\ Len(staff) < MaxEmployees
  /\ manager # NoRecord => staff[manager].organization = o
  /\ staff' = Append(staff, Record(o, p, manager))
  /\ UNCHANGED membershipVars
MayLink(o, p) == p = Nobody \/ (Unlinked(p) /\ o \in Available(p))
InsertEmployee(actor, p) ==
  \E r \in requirePayrollAdministrator(actor) :
    /\ MayLink(r.organization, p) /\ Len(staff) < MaxEmployees
    /\ staff' = Append(staff, Record(r.organization, p, NoRecord))
    /\ UNCHANGED membershipVars
UpdateEmployee(actor, e, p) ==
  \E r \in requirePayrollAdministrator(actor) :
    /\ staff[e].organization = r.organization /\ MayLink(r.organization, p)
    /\ staff' = [staff EXCEPT ![e].profile = p]
    /\ UNCHANGED membershipVars
DeactivateRecord(actor, e) ==
  \E r \in requirePayrollAdministrator(actor) :
    /\ staff[e].organization = r.organization /\ staff[e].active
    /\ staff' = [staff EXCEPT ![e].active = FALSE]
    /\ UNCHANGED membershipVars

AccessInit == MembershipsInit /\ staff = <<>>
StaffStep ==
  \E actor \in People :
    \/ \E p \in People \cup {Nobody} :
         \/ InsertEmployee(actor, p)
         \/ \E e \in Records : UpdateEmployee(actor, e, p)
         \/ \E o \in Organizations, m \in Records \cup {NoRecord} : PostEmployee(actor, o, p, m)
    \/ \E e \in Records : DeactivateRecord(actor, e)
AccessNext == StaffStep \/ (MembershipsNext /\ UNCHANGED staff)

AccessSpec == AccessInit /\ [][AccessNext]_accessVars

-----------------------------------------------------------------------------
(* SAFETY.  The parts agree on who somebody is.  All find the same         *)
(* organization, role and employee, with queries that differ, and the same *)
(* administrators; whoever self-service lets in has a payslip of theirs    *)
(* from the download route; and a timecard that was accepted because it    *)
(* has a reviewer can be decided by one, unless the only one is a manager  *)
(* whose employee record is inactive (reviewerState against                *)
(* loadAuthorizedEmployee).                                                *)
SameAnswers ==
  \A p \in People :
    /\ getAttendanceAccessState(p) = getAccessState(p, cookie[p])
    /\ getAuthenticatedAccess(p) = getAccessState(p, cookie[p])
    /\ Employed(getAccessState(p, cookie[p])) = requireSelfServiceContext(p)
    /\ \A r \in Employed(getAccessState(p, cookie[p])) :
         r \in resolveOrganizationAccess(p, r.organization)
SameAdministrators ==
  \A p \in People :
    /\ requirePayrollAdministrator(p) = requireProductOperationsContext(p)
    /\ requirePayrollAdministrator(p) = requirePrivacyContext(p, TRUE)
    /\ requirePayrollAdministrator(p) = requireOvertimeAdministrator(p)
    /\ requirePayrollAdministrator(p) =
         WithRole(requireTimeOffContext(p, TRUE), {"administrator"})
    /\ requireTimeOffContext(p, TRUE) \subseteq requireAttendanceContext(p, TRUE)
    /\ requireAttendanceContext(p, FALSE) \subseteq requireTimeOffContext(p, FALSE)
    /\ \A o \in Organizations :
         ActsAsAdministrator(p, o) <=> \E r \in requirePayrollAdministrator(p) : r.organization = o
OwnPayslips ==
  \A p \in People : \A r \in requireSelfServiceContext(p) :
    DownloadsPayslip(p, r.organization, r.employee)
SubmittedIsReviewable ==
  \A p \in People, e \in Records : \A context \in requireOvertimeContext(p) :
    SubmissionAccepted(p, context, e) =>
      \/ \E q \in People : \E c \in getAccessState(q, context.organization) : AssertReviewer(q, c, e)
      \/ staff[e].manager # NoRecord /\ ~staff[staff[e].manager].active
AccessAgrees == SameAnswers /\ SameAdministrators /\ OwnPayslips /\ SubmittedIsReviewable

(* TYPE.  The values the variables take. *)
AccessTypeOK ==
  /\ MembershipsTypeOK
  /\ Len(staff) <= MaxEmployees
  /\ staff \in Seq([organization : Organizations, profile : People \cup {Nobody},
                    active : BOOLEAN, manager : {NoRecord} \cup Records])
=============================================================================
