-------------------------------- MODULE Privacy --------------------------------
(***************************************************************************)
(* Consent, product analytics, deletion requests, legal holds and          *)
(* retention of one organization (src/privacy/, the writers of             *)
(* src/product-operations/).  Requests of the pages are transactions whose *)
(* last UPDATE or INSERT checks again what they read (a status in its      *)
(* WHERE, a unique index), so each is one step.                            *)
(*                                                                         *)
(* The retention function runs statement by statement.  Inngest retries an *)
(* execution whose answer it lost, so two may overlap, and each step may   *)
(* fail or be the last before a crash.  A request repeated with its key is *)
(* answered with what it did, or is one more request; the table of         *)
(* deletion executions and the audit records are written only: these are   *)
(* left out.                                                               *)
(***************************************************************************)
EXTENDS Integers, Sequences, FiniteSetsExt

CONSTANTS
  Subjects,     \* profiles of the organization
  Executions,   \* executions of the retention function under way at once
  BatchSize,    \* rows of a kind, or requests, that one execution takes
  MaxRows,      \* bound on the rows ever recorded
  MaxRequests,  \* bound on the deletion requests
  MaxFaults     \* bound on failures and crashes

ASSUME PrivacyAssumption ==
  /\ BatchSize \in Nat \ {0} /\ MaxRows \in Nat
  /\ MaxRequests \in Nat /\ MaxFaults \in Nat

VARIABLES
  chosen,    \* privacy_consents: the subjects with a current row, granted or not
  rows,      \* product_events, operation_failures and superseded privacy_consents
  written,   \* how many rows have been recorded: the order of their times
  requests,  \* privacy_requests, in order of submission
  held,      \* privacy_holds: the subjects with an active hold
  exec,      \* the executions
  faults     \* failures and crashes so far

pageVars == <<chosen, requests, held>>
privacyVars == <<pageVars, rows, written, exec, faults>>

Kinds == {"event", "failure", "superseded"}
OPEN_REQUEST_STATUSES == {"submitted", "under_review", "approved", "scheduled", "failed"}
RequestStatuses == OPEN_REQUEST_STATUSES \cup {"rejected", "completed", "removed"}
SUBJECT_REQUEST_STATUSES_FirstTryOnly == {"approved", "scheduled"}
SUBJECT_REQUEST_STATUSES == {"approved", "scheduled", "failed"}

Row(subject, kind) == [subject |-> subject, kind |-> kind, id |-> written + 1, old |-> FALSE]
RowsOf(s) == {r \in rows : r.subject = s}
OpenOf(s) == {k \in DOMAIN requests : /\ requests[k].subject = s
                                      /\ requests[k].status \in OPEN_REQUEST_STATUSES}
SetStatus(k, status) == [requests EXCEPT ![k].status = status]

-----------------------------------------------------------------------------
(* saveProductAnalyticsConsent: supersede the current row, insert another. *)
SaveConsent(s) ==
  LET superseded == IF s \in chosen THEN {Row(s, "superseded")} ELSE {}
  IN /\ written + Cardinality(superseded) <= MaxRows
     /\ chosen' = chosen \cup {s}
     /\ rows' = rows \cup superseded
     /\ written' = written + Cardinality(superseded)
     /\ UNCHANGED <<requests, held, exec, faults>>

(* hasProductAnalyticsConsent, and some time later the row is inserted:    *)
(* the consent may have been withdrawn, so that it is no condition here.   *)
MayWrite(s) == written < MaxRows /\ s \in chosen

(* The rows the deletions of other transactions have locked. *)
LockedBy(ws) == UNION {exec[w].deleted : w \in ws}

(* recordProductEvent: every occurrence is a row of its own. *)
RecordProductEvent(s) ==
  /\ MayWrite(s)
  /\ rows' = rows \cup {Row(s, "event")}
  /\ written' = written + 1
  /\ UNCHANGED <<pageVars, exec, faults>>

(* recordOperationFailure: one row for a group, with the time last seen;   *)
(* a group whose row is being deleted waits.                               *)
RecordOperationFailure(s) ==
  LET group == {r \in RowsOf(s) : r.kind = "failure"}
  IN /\ MayWrite(s)
     /\ group \cap LockedBy(Executions) = {}
     /\ rows' = (rows \ group) \cup {Row(s, "failure")}
     /\ written' = written + 1
     /\ UNCHANGED <<pageVars, exec, faults>>

-----------------------------------------------------------------------------
(* submitDeletionRequest: an open request is returned instead of another.  *)
SubmitDeletionRequest(s) ==
  /\ OpenOf(s) = {} /\ Len(requests) < MaxRequests
  /\ requests' = Append(requests, [subject |-> s, status |-> "submitted", old |-> FALSE])
  /\ UNCHANGED <<chosen, held, rows, written, exec, faults>>

ChangeStatus(k, from, to) ==
  /\ requests[k].status \in from
  /\ requests' = SetStatus(k, to)
  /\ UNCHANGED <<chosen, held, rows, written, exec, faults>>

WithdrawDeletionRequest(k) == ChangeStatus(k, {"submitted", "under_review"}, "rejected")
StartDeletionRequestReview(k) == ChangeStatus(k, {"submitted"}, "under_review")
DecideDeletionRequest(k, decision) == ChangeStatus(k, {"under_review"}, decision)

(* changePrivacyHold.  A transaction of an execution may have read already *)
(* that there is no hold: `outrun' remembers the hold it has missed.       *)
HasReadHold(w, s) ==
  \/ exec[w].pc = "sweep"
  \/ /\ exec[w].pc \in {"delete", "look", "finish"}
     /\ requests[Max(exec[w].queue)].subject = s
PlaceHold(s) ==
  /\ s \notin held
  /\ held' = held \cup {s}
  /\ exec' = [w \in Executions |->
                IF HasReadHold(w, s) THEN [exec[w] EXCEPT !.outrun = @ \cup {s}]
                ELSE exec[w]]
  /\ UNCHANGED <<chosen, requests, rows, written, faults>>
ReleaseHold(s) ==
  /\ s \in held
  /\ held' = held \ {s}
  /\ UNCHANGED <<chosen, requests, rows, written, exec, faults>>

(* The months pass that make rows and completed requests old enough for    *)
(* retention; a request and an execution do not last that long.            *)
Age ==
  /\ \A w \in Executions : exec[w].pc = "idle"
  /\ rows' = {[r EXCEPT !.old = TRUE] : r \in rows}
  /\ requests' = [k \in DOMAIN requests |->
                    [requests[k] EXCEPT !.old = requests[k].status = "completed"]]
  /\ UNCHANGED <<chosen, held, written, exec, faults>>

-----------------------------------------------------------------------------
(* runPrivacyRetention.                                                    *)

NoExecution == [pc |-> "idle", heldKeys |-> {}, queue |-> {}, locked |-> FALSE,
                deleted |-> {}, began |-> 0, remains |-> FALSE, outrun |-> {}]
At(w, pc) == exec[w].pc = pc
Request(w) == Max(exec[w].queue)
Subject(w) == requests[Request(w)].subject
Others(w) == Executions \ {w}

(* The requests it goes on with, the newest next; after the last the       *)
(* execution ends.                                                         *)
Remaining(queue) ==
  IF queue = {} THEN NoExecution
  ELSE [NoExecution EXCEPT !.pc = "next", !.queue = queue]
NextRequest(w) == exec' = [exec EXCEPT ![w] = Remaining(@.queue \ {Request(w)})]

(* `order by ... limit batchSize'. *)
Oldest(set) == {r \in set : Cardinality({q \in set : q.id < r.id}) < BatchSize}
OldestOfEachKind(set) == UNION {Oldest({r \in set : r.kind = kind}) : kind \in Kinds}

(* The transaction of the global policies begins: getHeldSubjectKeys.      *)
HeldSubjectKeys_Empty == {}
HeldSubjectKeys == held
StartExecution(w) ==
  /\ At(w, "idle")
  /\ exec' = [exec EXCEPT ![w].pc = "sweep", ![w].heldKeys = HeldSubjectKeys]
  /\ UNCHANGED <<pageVars, rows, written, faults>>

(* deleteGlobalAnalytics and its siblings, to the commit, and the query of *)
(* the requests: one approved in between is one approved before.  Consents *)
(* look for a hold in the statement itself.                                *)
Aged(w) == {r \in rows : /\ r.old
                         /\ r.subject \notin (IF r.kind = "superseded" THEN held
                                              ELSE exec[w].heldKeys)}
AgedRequests ==
  LET aged == {k \in DOMAIN requests : requests[k].status = "completed" /\ requests[k].old}
  IN {k \in aged : Cardinality({j \in aged : j < k}) < BatchSize}
Processable(status) == status \in SUBJECT_REQUEST_STATUSES
Newer(k) == {j \in DOMAIN requests : j > k /\ Processable(requests[j].status)}
Selected == {k \in DOMAIN requests : /\ Processable(requests[k].status)
                                     /\ Cardinality(Newer(k)) < BatchSize}
ApplyGlobalPolicies(w) ==
  LET doomed == OldestOfEachKind(Aged(w))
  IN /\ At(w, "sweep")
     /\ doomed \cap LockedBy(Others(w)) = {}
     /\ rows' = rows \ doomed
     /\ requests' = [k \in DOMAIN requests |->
                       IF k \in AgedRequests THEN [requests[k] EXCEPT !.status = "removed"]
                       ELSE requests[k]]
     /\ exec' = [exec EXCEPT ![w] = Remaining(Selected)]
     /\ UNCHANGED <<chosen, held, written, faults>>

(* processSubjectRequest: the request is read.  One that is already        *)
(* scheduled is not written, so its row is not locked.                     *)
ReadRequest(w) ==
  LET status == requests[Request(w)].status
  IN /\ At(w, "next")
     /\ \/ /\ Processable(status)
           /\ exec' = [exec EXCEPT ![w].began = written,
                         ![w].pc = IF status = "scheduled" THEN "hold" ELSE "schedule"]
        \/ ~Processable(status) /\ NextRequest(w)
     /\ UNCHANGED <<pageVars, rows, written, faults>>

(* The row of the request is written, and not committed, by another. *)
RequestLocked(w) ==
  \E v \in Others(w) : exec[v].locked /\ Request(v) = Request(w)

(* The UPDATE to `scheduled', skipped when another execution was faster.   *)
Schedule(w) ==
  LET may == requests[Request(w)].status \in {"approved", "failed"}
  IN /\ At(w, "schedule") /\ ~RequestLocked(w)
     /\ \/ may /\ exec' = [exec EXCEPT ![w].pc = "hold", ![w].locked = TRUE]
        \/ ~may /\ NextRequest(w)
     /\ UNCHANGED <<pageVars, rows, written, faults>>

(* The hold is read; with one the transaction commits as it is. *)
CheckHold(w) ==
  /\ At(w, "hold")
  /\ \/ /\ Subject(w) \in held
        /\ requests' = IF exec[w].locked THEN SetStatus(Request(w), "scheduled") ELSE requests
        /\ NextRequest(w)
     \/ /\ Subject(w) \notin held
        /\ exec' = [exec EXCEPT ![w].pc = "delete"]
        /\ UNCHANGED requests
  /\ UNCHANGED <<chosen, held, rows, written, faults>>

(* The deletions, not committed yet; rows another transaction is deleting  *)
(* are waited for.                                                         *)
DeleteSubjectRows(w) ==
  LET doomed == OldestOfEachKind(RowsOf(Subject(w)))
  IN /\ At(w, "delete")
     /\ doomed \cap LockedBy(Others(w)) = {}
     /\ exec' = [exec EXCEPT ![w].pc = "look", ![w].deleted = doomed]
     /\ UNCHANGED <<pageVars, rows, written, faults>>

(* subjectRowsRemain. *)
SubjectRowsRemain_NoConsents(w) ==
  \E r \in RowsOf(Subject(w)) \ exec[w].deleted : r.kind # "superseded"
SubjectRowsRemain(w) == RowsOf(Subject(w)) \ exec[w].deleted # {}
Look(w) ==
  /\ At(w, "look")
  /\ exec' = [exec EXCEPT ![w].pc = "finish", ![w].remains = SubjectRowsRemain(w)]
  /\ UNCHANGED <<pageVars, rows, written, faults>>

(* The last UPDATE, of whatever status the request has by now, and the     *)
(* commit.                                                                 *)
Reopens(w) == exec[w].remains /\ OpenOf(Subject(w)) \ {Request(w)} # {}
FinishRequest(w) ==
  /\ At(w, "finish") /\ ~RequestLocked(w) /\ ~Reopens(w)
  /\ rows' = rows \ exec[w].deleted
  /\ requests' = SetStatus(Request(w), IF exec[w].remains THEN "scheduled" ELSE "completed")
  /\ NextRequest(w)
  /\ UNCHANGED <<chosen, held, written, faults>>

(* Nothing of the transaction is kept, and the catch block follows.        *)
RolledBack(w) ==
  exec' = [exec EXCEPT ![w].pc = "failing", ![w].locked = FALSE, ![w].deleted = {}]

(* PostgreSQL refuses to go on: the index on open requests does not let a  *)
(* request be reopened beside another, or two executions wait for each     *)
(* other, one for the rows and one for the request.                        *)
Deadlocked(w) ==
  \E v \in Others(w) : /\ exec[v].locked /\ At(v, "delete")
                       /\ Request(v) = Request(w)
                       /\ RowsOf(Subject(w)) \cap exec[w].deleted # {}
Refused(w) ==
  /\ At(w, "finish") /\ (Deadlocked(w) \/ (~RequestLocked(w) /\ Reopens(w)))
  /\ RolledBack(w)
  /\ UNCHANGED <<pageVars, rows, written, faults>>

(* A statement fails, or times out. *)
InTransaction(w) ==
  exec[w].pc \in {"next", "schedule", "hold", "delete", "look", "finish"}
StatementFails(w) ==
  /\ InTransaction(w) /\ faults < MaxFaults
  /\ faults' = faults + 1
  /\ RolledBack(w)
  /\ UNCHANGED <<pageVars, rows, written>>

(* The transaction of the catch block, which may fail as well. *)
MarkFailed(w) ==
  /\ At(w, "failing") /\ ~RequestLocked(w)
  /\ requests' = IF Processable(requests[Request(w)].status)
                   THEN SetStatus(Request(w), "failed") ELSE requests
  /\ NextRequest(w)
  /\ UNCHANGED <<chosen, held, rows, written, faults>>
MarkLost(w) ==
  /\ At(w, "failing") /\ faults < MaxFaults
  /\ faults' = faults + 1
  /\ NextRequest(w)
  /\ UNCHANGED <<pageVars, rows, written>>

Crash(w) ==
  /\ ~At(w, "idle") /\ faults < MaxFaults
  /\ faults' = faults + 1
  /\ exec' = [exec EXCEPT ![w] = NoExecution]
  /\ UNCHANGED <<pageVars, rows, written>>

-----------------------------------------------------------------------------
PrivacyInit ==
  /\ chosen = {}
  /\ rows = {} /\ written = 0
  /\ requests = <<>> /\ held = {}
  /\ exec = [w \in Executions |-> NoExecution]
  /\ faults = 0

(* src/app/actions/privacy.js: what an employee, an administrator may do.  *)
EmployeeStep ==
  \/ \E s \in Subjects : SubmitDeletionRequest(s) \/ SaveConsent(s)
  \/ \E k \in DOMAIN requests : WithdrawDeletionRequest(k)
AdministratorStep ==
  \/ \E s \in Subjects : PlaceHold(s) \/ ReleaseHold(s)
  \/ \E k \in DOMAIN requests :
       \/ StartDeletionRequestReview(k)
       \/ \E decision \in {"approved", "rejected"} : DecideDeletionRequest(k, decision)

WriterStep == \E s \in Subjects : RecordProductEvent(s) \/ RecordOperationFailure(s)

(* What an execution does unless it fails. *)
Proceed(w) ==
  \/ ApplyGlobalPolicies(w)
  \/ ReadRequest(w)
  \/ Schedule(w)
  \/ CheckHold(w)
  \/ DeleteSubjectRows(w)
  \/ Look(w)
  \/ FinishRequest(w)
  \/ Refused(w)
  \/ MarkFailed(w)
RetentionStep(w) == StartExecution(w) \/ Proceed(w)
FaultStep(w) == StatementFails(w) \/ MarkLost(w) \/ Crash(w)

PrivacyNext ==
  \/ EmployeeStep
  \/ AdministratorStep
  \/ WriterStep
  \/ Age
  \/ \E w \in Executions : RetentionStep(w) \/ FaultStep(w)
=============================================================================
