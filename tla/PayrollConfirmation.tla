------------------------ MODULE PayrollConfirmation ------------------------
(***************************************************************************)
(* From the setup of an organization to a confirmed payroll run:           *)
(* previewPayroll and confirmPayroll (src/payroll/service.js), and the     *)
(* administrators' actions that change what they read: employees, pay      *)
(* settings and the schedule (src/app/actions/payroll.js).                 *)
(*                                                                         *)
(* The database runs at READ COMMITTED: each statement of a preview, of a  *)
(* confirmation or of a pay setting request reads what is committed when   *)
(* it runs, so each is a step.  Some statements share a step: those of a   *)
(* transaction that holds the lock of the organization row and read only   *)
(* what changes under that lock, and the two reads of payroll_runs: a run  *)
(* they see open has blocked the period already, and a run that appears    *)
(* between them is not completed by then or has been seen by both.         *)
(*                                                                         *)
(* Abstractions.  The organization row has no writer, so nothing of it is  *)
(* kept.  The amounts of a pay setting never change and stand or fall with *)
(* its row; the other columns of an employee are its version.  An issue    *)
(* ends a preview or a confirmation at the statement that finds it: what   *)
(* is still read after it changes nothing.  Of timecards only the approved *)
(* ones are kept, which never change: Timecards is how they come about.    *)
(*                                                                         *)
(* A definition named X_Something just before X is a faulty variant of X.  *)
(* No specification uses it: it stands for a bug the properties must find. *)
(***************************************************************************)
EXTENDS PayrollPeriods, FiniteSets

CONSTANTS
  Administrators,
  Sessions,       \* previews and confirmations that may be under way at once
  Savers,         \* pay setting requests that may be under way at once
  Employees,
  Tokens,         \* bound: preview tokens ever issued
  Requests,       \* bound: request ids of pay setting forms
  Nobody,         \* a null reference; none of the above
  Frequencies,    \* the pay frequencies an administrator may choose
  EmployeeLimit,  \* employees one payroll may cover (500)
  OvertimeEnabled, \* HR_PULSE_OVERTIME_TIMECARDS_ENABLED
  FirstDay,       \* the day the organization is founded
  FirstFrequency, \* the pay frequency it is founded with
  StartDates,     \* bound: dates an administrator gives as start of a schedule
  HireDates,      \* bound: hire dates of employees
  CardDates,      \* bound: first days of the periods of timecards
  Ranges,         \* bound: effective ranges of pay settings
  MaxUnderWay,    \* bound: sessions and pay setting requests under way at once
  MaxEdits,       \* bound: versions of an employee row
  MaxSettings,    \* bound: pay settings of an employee
  MaxSchedules    \* bound: versions of the schedule

ASSUME ConfirmationAssumption ==
  /\ MinDay \in Int /\ MaxDay \in Int /\ FirstDay \in Dates
  /\ FirstFrequency \in Frequencies
  /\ StartDates \subseteq Dates /\ HireDates \subseteq Dates
  /\ Ranges \subseteq [first : Dates, last : Dates \cup {Ongoing}]
  /\ Frequencies \subseteq {"weekly", "biweekly", "semimonthly", "monthly"}
  /\ EmployeeLimit \in Nat /\ MaxUnderWay \in Nat /\ OvertimeEnabled \in BOOLEAN
  /\ MaxEdits \in Nat \ {0} /\ MaxSettings \in Nat \ {0} /\ MaxSchedules \in Nat \ {0}
  /\ Nobody \notin Administrators \cup Sessions \cup Savers \cup Tokens

VARIABLES
  today,      \* the date in the organization's timezone
  schedule,   \* the payroll_schedules row
  employee,   \* the employees rows
  settings,   \* the pay_settings rows of each employee
  approved,   \* the approved timecards: of whom, and of which period
  receipts,   \* the mutation_receipts rows of pay_setting.save
  tokens,     \* the payroll_preview_tokens rows
  consumed,   \* tokens whose consumed_at is set
  expired,    \* tokens past their expires_at
  runs,       \* the payroll_runs rows, with the payouts inserted with them
  lock,       \* the session that holds the organization row FOR UPDATE
  session,    \* previews and confirmations under way
  save        \* savePaySettingAction calls under way

setup == <<schedule, employee, settings, receipts, approved>>
confirmed == <<consumed, runs>>
vars == <<today, setup, tokens, expired, confirmed, lock, session, save>>

(***************************************************************************)
(* Types.                                                                  *)
(***************************************************************************)
Schedule ==
  {x \in [frequency : Frequencies, anchor : Dates \cup {NoDate},
          effectiveStart : Dates, version : 1..MaxSchedules] :
     (x.anchor # NoDate) = (x.frequency \in {"weekly", "biweekly"})}
Setting == [version : 1..MaxSettings, effective : Ranges, frequency : Frequencies]
Form == [employee : Employees, effective : Ranges, expected : 0..MaxSettings,
         request : Requests]

(* What a payroll is computed from: the document whose hash is the         *)
(* fingerprint.  people holds the version of each eligible employee, pays  *)
(* the version of the pay setting that applies to it, or 0.                *)
NoSchedule == [frequency |-> "none", anchor |-> NoDate,
               effectiveStart |-> NoDate, version |-> 0]
Source == [schedule : Schedule \cup {NoSchedule}, period : Period \cup {NoPeriod},
           people : [Employees -> 0..MaxEdits], pays : [Employees -> 0..MaxSettings]]
NoSource == [schedule |-> NoSchedule, period |-> NoPeriod,
             people |-> [e \in Employees |-> 0], pays |-> [e \in Employees |-> 0]]

Token == [actor : Administrators, source : Source]
NoToken == [actor |-> Nobody, source |-> NoSource]

Run == [token : Tokens, actor : Administrators, source : Source,
        status : {"open", "completed"}]  \* open: queued, processing or failed

Steps == {"idle", "lookup", "token", "lock", "schedule", "runs", "employees",
          "settings", "commit"}
LoadSteps == {"schedule", "runs", "employees", "settings"}
Session == [step : Steps, actor : Administrators \cup {Nobody},
            token : Tokens \cup {Nobody},  \* Nobody: the session previews
            seenConsumed : BOOLEAN,        \* consumed_at as read with the token
            source : Source]
Idle == [step |-> "idle", actor |-> Nobody, token |-> Nobody,
         seenConsumed |-> FALSE, source |-> NoSource]

(* "rejected": answered that the pay history has changed. *)
Save == [step : {"receipt", "insert", "rejected"}, form : Form, frequency : Frequencies]
            \cup {Nobody}

TypeOK ==
  /\ today \in Dates
  /\ schedule \in Schedule
  /\ employee \in [Employees -> [status : {"absent", "active", "inactive"},
                                 hireDate : Dates, version : 0..MaxEdits]]
  /\ settings \in [Employees -> SUBSET Setting]
  /\ receipts \subseteq Form
  /\ approved \subseteq Employees \X Period
  /\ tokens \in [Tokens -> Token \cup {NoToken}]
  /\ consumed \subseteq Tokens
  /\ expired \subseteq Tokens
  /\ runs \subseteq Run
  /\ lock \in Sessions \cup {Nobody}
  /\ session \in [Sessions -> Session]
  /\ save \in [Savers -> Save]

(* createOrganization: a schedule whose first period starts on the day the *)
(* administrator gave, and nothing else yet.                               *)
Init ==
  /\ today = FirstDay
  /\ \E d \in StartDates : /\ MayStart(FirstFrequency, d)
                           /\ schedule = ScheduleFrom(FirstFrequency, d, 1)
  /\ employee = [e \in Employees |-> [status |-> "absent", hireDate |-> MinDay, version |-> 0]]
  /\ settings = [e \in Employees |-> {}]
  /\ receipts = {} /\ approved = {}
  /\ tokens = [t \in Tokens |-> NoToken]
  /\ consumed = {} /\ expired = {} /\ runs = {}
  /\ lock = Nobody
  /\ session = [s \in Sessions |-> Idle]
  /\ save = [c \in Savers |-> Nobody]

OpenRuns == {r \in runs : r.status = "open"}

(* max(period_end) of the completed runs. *)
LatestEnd ==
  IF runs \ OpenRuns = {} THEN NoDate
  ELSE Max({r.source.period.last : r \in runs \ OpenRuns})

Overlap(p, q) == p.first <= q.last /\ q.first <= p.last

UnderWay == {s \in Sessions : session[s] # Idle} \cup {c \in Savers : save[c] # Nobody}
MayStartRequest == Cardinality(UnderWay) < MaxUnderWay

(***************************************************************************)
(* Time, and what other components do to the rows read here.               *)
(***************************************************************************)
Tomorrow ==
  /\ today < MaxDay
  /\ today' = today + 1
  /\ UNCHANGED <<setup, tokens, expired, confirmed, lock, session, save>>

(* Thirty minutes after the preview. *)
Expire(t) ==
  /\ tokens[t] # NoToken /\ t \notin consumed \cup expired
  /\ expired' = expired \cup {t}
  /\ UNCHANGED <<today, setup, tokens, confirmed, lock, session, save>>

(* The worker finalizes the run, under the lock (see PayrollProcessing).   *)
CompleteRun(r) ==
  /\ lock = Nobody
  /\ r.status = "open"
  /\ runs' = (runs \ {r}) \cup {[r EXCEPT !.status = "completed"]}
  /\ UNCHANGED <<today, setup, tokens, consumed, expired, lock, session, save>>

(***************************************************************************)
(* Employees: one transaction each, without the organization lock.  A page *)
(* with an older version of the row is refused and changes nothing.        *)
(***************************************************************************)
SaveEmployee(e, hireDate) ==
  /\ employee[e].version < MaxEdits
  /\ employee' = [employee EXCEPT
       ![e] = [status |-> IF @.status = "absent" THEN "active" ELSE @.status,
               hireDate |-> hireDate, version |-> @.version + 1]]
  /\ UNCHANGED <<today, schedule, settings, receipts, approved, tokens, expired,
                 confirmed, lock, session, save>>

DeactivateEmployee(e) ==
  /\ employee[e].status = "active" /\ employee[e].version < MaxEdits
  /\ employee' = [employee EXCEPT ![e].status = "inactive", ![e].version = @ + 1]
  /\ UNCHANGED <<today, schedule, settings, receipts, approved, tokens, expired,
                 confirmed, lock, session, save>>

(* update_self_service_profile: the employee changes its own row.  A       *)
(* request sent again is answered with its receipt.                        *)
UpdateSelfServiceProfile(e) ==
  /\ employee[e].status = "active" /\ employee[e].version < MaxEdits
  /\ employee' = [employee EXCEPT ![e].version = @ + 1]
  /\ UNCHANGED <<today, schedule, settings, receipts, approved, tokens, expired,
                 confirmed, lock, session, save>>

(***************************************************************************)
(* updateScheduleAction: every statement under the lock, so one step.      *)
(***************************************************************************)
NewStart(chosen) == IF LatestEnd # NoDate THEN LatestEnd + 1 ELSE chosen

MayChangeSchedule_WhileARunIsOpen == lock = Nobody
MayChangeSchedule == lock = Nobody /\ OpenRuns = {}

UpdateSchedule(frequency, chosen) ==
  /\ MayChangeSchedule
  /\ schedule.version < MaxSchedules
  /\ NewStart(chosen) \in Dates
  /\ MayStart(frequency, NewStart(chosen))
  /\ schedule' = ScheduleFrom(frequency, NewStart(chosen), schedule.version + 1)
  /\ UNCHANGED <<today, employee, settings, receipts, approved, tokens, expired,
                 confirmed, lock, session, save>>

(***************************************************************************)
(* savePaySettingAction: the schedule is read and the form validated       *)
(* against it, then the receipt is looked up, and then, under the lock,    *)
(* the version of the pay history is compared and the setting inserted.    *)
(***************************************************************************)
Aligned(effective) ==
  /\ effective.first <= effective.last
  /\ PeriodContaining(schedule, effective.first).first = effective.first
  /\ effective.last # Ongoing =>
       PeriodContaining(schedule, effective.last).last = effective.last

LatestVersion(e) == Max({0} \cup {s.version : s \in settings[e]})

SubmitSetting(c, form) ==
  /\ save[c] = Nobody /\ MayStartRequest
  /\ employee[form.employee].status # "absent"
  /\ form.expected <= LatestVersion(form.employee)
  /\ Aligned(form.effective)
  /\ save' = [save EXCEPT ![c] = [step |-> "receipt", form |-> form,
                                  frequency |-> schedule.frequency]]
  /\ UNCHANGED <<today, setup, tokens, expired, confirmed, lock, session>>

AtSaveStep(c, step) == save[c] # Nobody /\ save[c].step = step

(* A receipt of the same request answers it: with the earlier result, or,  *)
(* when the payload differs, with a conflict.                              *)
FindReceipt(c) ==
  /\ AtSaveStep(c, "receipt")
  /\ save' = IF \E r \in receipts : r.request = save[c].form.request
               THEN [save EXCEPT ![c] = Nobody]
               ELSE [save EXCEPT ![c].step = "insert"]
  /\ UNCHANGED <<today, setup, tokens, expired, confirmed, lock, session>>

(* Exclusion constraint pay_settings_no_overlapping_effective_ranges. *)
NoOverlap(form) ==
  \A s \in settings[form.employee] : ~Overlap(form.effective, s.effective)

(* conflictFilters.  A submitted card, which is not kept here, refuses it  *)
(* too (EndSave).  Both cards have a setting that covers them already.     *)
NoConflict(form) ==
  \A card \in approved : card[1] = form.employee => ~Overlap(form.effective, card[2])

InsertSetting(c) ==
  LET form == save[c].form
  IN /\ AtSaveStep(c, "insert")
     /\ lock = Nobody
     /\ LatestVersion(form.employee) = form.expected
     /\ form.expected < MaxSettings
     /\ NoConflict(form) /\ NoOverlap(form)
     /\ \A r \in receipts : r.request # form.request  \* unique index
     /\ settings' = [settings EXCEPT ![form.employee] = @ \cup
          {[version |-> form.expected + 1, effective |-> form.effective,
            frequency |-> save[c].frequency]}]
     /\ receipts' = receipts \cup {form}
     /\ save' = [save EXCEPT ![c] = Nobody]
     /\ UNCHANGED <<today, schedule, employee, approved, tokens, expired, confirmed,
                    lock, session>>

RejectSetting(c) ==
  /\ AtSaveStep(c, "insert")
  /\ lock = Nobody
  /\ LatestVersion(save[c].form.employee) # save[c].form.expected
  /\ save' = [save EXCEPT ![c].step = "rejected"]
  /\ UNCHANGED <<today, setup, tokens, expired, confirmed, lock, session>>

(* The answer is read; standardPeriodMinutes exceeds the minutes of the    *)
(* period (an amount, left out), a card conflicts or the constraint        *)
(* refuses the row; or the call fails.                                     *)
EndSave(c) ==
  /\ save[c] # Nobody
  /\ save' = [save EXCEPT ![c] = Nobody]
  /\ UNCHANGED <<today, setup, tokens, expired, confirmed, lock, session>>

(***************************************************************************)
(* Timecards.                                                              *)
(***************************************************************************)
Covers(p, q) == p.first <= q.first /\ q.last <= p.last

(* The setting that applies to an employee, of the frequency of the schedule. *)
Usable(e, source) ==
  {x \in settings[e] : Covers(x.effective, source.period) /\ x.frequency = source.schedule.frequency}

(* A timecard is prepared, submitted and approved (see Timecards), for a   *)
(* closed period of the schedule in which the employee has a pay setting;  *)
(* a reviewer does not take the organization's lock.  Bound: only for the  *)
(* period that is paid next.                                               *)
ApproveTimecard(e) ==
  LET period == NextPeriod(schedule, LatestEnd, today)
      source == [NoSource EXCEPT !.schedule = schedule, !.period = period]
  IN /\ OvertimeEnabled
     /\ employee[e].status # "absent"
     /\ period \in Period /\ period.first \in CardDates
     /\ period = PeriodContaining(schedule, period.first)
     /\ IsClosedPeriod(period, today)
     /\ Usable(e, source) # {} /\ <<e, period>> \notin approved
     /\ approved' = approved \cup {<<e, period>>}
     /\ UNCHANGED <<today, schedule, employee, settings, receipts, tokens, expired,
                    confirmed, lock, session, save>>

(***************************************************************************)
(* previewPayroll and confirmPayroll begin, and end.                       *)
(***************************************************************************)
At(s, step) == session[s].step = step
Confirming(s) == session[s].token # Nobody

StartPreview(s, a) ==
  /\ At(s, "idle") /\ MayStartRequest
  /\ session' = [session EXCEPT ![s] = [Idle EXCEPT !.step = "schedule", !.actor = a]]
  /\ UNCHANGED <<today, setup, tokens, expired, confirmed, lock, save>>

StartConfirm(s, a, t) ==
  /\ At(s, "idle") /\ MayStartRequest
  /\ tokens[t] # NoToken
  /\ session' = [session EXCEPT ![s] = [Idle EXCEPT !.step = "lookup", !.actor = a,
                                                    !.token = t]]
  /\ UNCHANGED <<today, setup, tokens, expired, confirmed, lock, save>>

Unlocked(s) == IF lock = s THEN Nobody ELSE lock

(* The session answers, or is rolled back: an existing run is returned, an *)
(* issue or PREVIEW_STALE is reported, a statement fails.  A transaction   *)
(* that ends releases the lock.                                            *)
Leave(s) ==
  /\ session' = [session EXCEPT ![s] = Idle]
  /\ lock' = Unlocked(s)
  /\ UNCHANGED <<today, setup, tokens, expired, confirmed, save>>

Advance(s, step) ==
  /\ session' = [session EXCEPT ![s].step = step]
  /\ UNCHANGED <<today, setup, tokens, expired, confirmed, lock, save>>

Fail(s) == ~At(s, "idle") /\ Leave(s)

(***************************************************************************)
(* confirmPayroll up to loadPreview.  The run of the token and the token   *)
(* itself are read before the organization is locked.                      *)
(***************************************************************************)
LookUpRun(s) ==
  /\ At(s, "lookup")
  /\ IF \E r \in runs : r.token = session[s].token THEN Leave(s) ELSE Advance(s, "token")

ReadToken(s) ==
  /\ At(s, "token")
  /\ session' = [session EXCEPT ![s].step = "lock",
                                ![s].seenConsumed = (session[s].token \in consumed)]
  /\ UNCHANGED <<today, setup, tokens, expired, confirmed, lock, save>>

(* Whose token it is and whether it has expired are settled when the lock  *)
(* is held; whether it is consumed, by what was read before.               *)
Acceptable(s) ==
  /\ tokens[session[s].token].actor = session[s].actor
  /\ ~session[s].seenConsumed
  /\ session[s].token \notin expired

LockFree_Shared == TRUE
LockFree == lock = Nobody

LockOrganization(s) ==
  LET period == tokens[session[s].token].source.period
  IN /\ At(s, "lock")
     /\ LockFree
     /\ IF Acceptable(s) /\ ~\E r \in runs : r.source.period = period
          THEN /\ lock' = s
               /\ session' = [session EXCEPT ![s].step = "schedule"]
               /\ UNCHANGED <<today, setup, tokens, expired, confirmed, save>>
          ELSE Leave(s)

(***************************************************************************)
(* loadPreview, of a preview and of a confirmation.                        *)
(***************************************************************************)
ReadSchedule(s) ==
  /\ At(s, "schedule")
  /\ session' = [session EXCEPT ![s].step = "runs", ![s].source.schedule = schedule]
  /\ UNCHANGED <<today, setup, tokens, expired, confirmed, lock, save>>

Blocked == OpenRuns # {}

ReadRuns(s) ==
  LET period == NextPeriod(session[s].source.schedule, LatestEnd, today)
  IN /\ At(s, "runs")
     /\ IF period = NoPeriod \/ Blocked \/ ~IsClosedPeriod(period, today)
          THEN Leave(s)
          ELSE /\ period \in Period  \* bound: the modelled dates
               /\ session' = [session EXCEPT ![s].step = "employees",
                                             ![s].source.period = period]
               /\ UNCHANGED <<today, setup, tokens, expired, confirmed, lock, save>>

Eligible(e, period) ==
  employee[e].status = "active" /\ employee[e].hireDate <= period.first

ReadEmployees(s) ==
  LET eligible == {e \in Employees : Eligible(e, session[s].source.period)}
  IN /\ At(s, "employees")
     /\ IF eligible = {} \/ Cardinality(eligible) > EmployeeLimit
          THEN Leave(s)
          ELSE /\ session' = [session EXCEPT ![s].step = "settings",
                    ![s].source.people = [e \in Employees |->
                       IF e \in eligible THEN employee[e].version ELSE 0]]
               /\ UNCHANGED <<today, setup, tokens, expired, confirmed, lock, save>>

(* With overtime, an employee is paid by an approved timecard of exactly   *)
(* the period, and by the setting the card was made with.                  *)
Payable(e, source) ==
  /\ Usable(e, source) # {}
  /\ OvertimeEnabled => <<e, source.period>> \in approved

Pays(source) ==
  [e \in Employees |-> IF source.people[e] = 0 \/ ~Payable(e, source) THEN 0
                       ELSE (CHOOSE x \in Usable(e, source) : TRUE).version]

(* A preview without issues issues a token; a confirmation goes on when it *)
(* has found what the token was issued for.                                *)
Unchanged_SamePeriod(s, source) ==
  source.period = tokens[session[s].token].source.period
Unchanged(s, source) == source = tokens[session[s].token].source

ReadSettings(s) ==
  LET source == [session[s].source EXCEPT !.pays = Pays(session[s].source)]
      missing == \E e \in Employees : source.people[e] # 0 /\ source.pays[e] = 0
  IN /\ At(s, "settings")
     /\ \/ /\ missing \/ (Confirming(s) /\ ~Unchanged(s, source))
           /\ Leave(s)
        \/ /\ ~missing /\ Confirming(s) /\ Unchanged(s, source)
           /\ session' = [session EXCEPT ![s].step = "commit", ![s].source = source]
           /\ UNCHANGED <<today, setup, tokens, expired, confirmed, lock, save>>
        \/ /\ ~missing /\ ~Confirming(s)
           /\ \E t \in Tokens :
                /\ tokens[t] = NoToken
                /\ tokens' = [tokens EXCEPT ![t] = [actor |-> session[s].actor,
                                                    source |-> source]]
           /\ session' = [session EXCEPT ![s] = Idle]
           /\ UNCHANGED <<today, setup, expired, confirmed, lock, save>>

(* The unique indexes of payroll_runs on the period and on the token, and  *)
(* the exclusion constraint on the periods of an organization.             *)
Insertable(token, period) ==
  \A r \in runs : /\ r.token # token
                  /\ ~Overlap(r.source.period, period)

(* The run, its payouts, deduction lines and payslips, and the consumption *)
(* of the token.  Whether the answer arrives makes no difference to the    *)
(* database: the administrator may confirm the same token again.           *)
Commit(s) ==
  /\ At(s, "commit")
  /\ Insertable(session[s].token, session[s].source.period)
  /\ runs' = runs \cup {[token |-> session[s].token, actor |-> session[s].actor,
                         source |-> session[s].source, status |-> "open"]}
  /\ consumed' = consumed \cup {session[s].token}
  /\ session' = [session EXCEPT ![s] = Idle]
  /\ lock' = Unlocked(s)
  /\ UNCHANGED <<today, setup, tokens, expired, save>>

(***************************************************************************)
(* The specification.                                                      *)
(***************************************************************************)
SessionStep(s) ==
  \/ \E a \in Administrators : StartPreview(s, a)
  \/ \E a \in Administrators, t \in Tokens : StartConfirm(s, a, t)
  \/ LookUpRun(s) \/ ReadToken(s) \/ LockOrganization(s)
  \/ ReadSchedule(s) \/ ReadRuns(s) \/ ReadEmployees(s) \/ ReadSettings(s)
  \/ Commit(s) \/ Fail(s)

SaveStep(c) ==
  \/ \E form \in Form : SubmitSetting(c, form)
  \/ FindReceipt(c) \/ InsertSetting(c) \/ RejectSetting(c) \/ EndSave(c)

Next ==
  \/ Tomorrow
  \/ \E t \in Tokens : Expire(t)
  \/ \E r \in runs : CompleteRun(r)
  \/ \E e \in Employees : DeactivateEmployee(e)
  \/ \E e \in Employees : UpdateSelfServiceProfile(e)
  \/ \E e \in Employees : ApproveTimecard(e)
  \/ \E e \in Employees, d \in HireDates : SaveEmployee(e, d)
  \/ \E f \in Frequencies, d \in StartDates : UpdateSchedule(f, d)
  \/ \E c \in Savers : SaveStep(c)
  \/ \E s \in Sessions : SessionStep(s)

Spec == Init /\ [][Next]_vars
=============================================================================
