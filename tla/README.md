# HR Pulse: formal models

TLA+ models of HR Pulse (Next.js, Postgres through Drizzle, Supabase storage,
Inngest), their TLC runs and their TLAPS proofs. The code is the reference:
every definition is translated from it, and `PROJECT.json` says from which lines.

## 1. The system

The program is a set of server actions, route handlers and Inngest functions
over one Postgres database. Concurrency is between requests, Inngest calls and
their retries; the means against it are READ COMMITTED transactions that lock
rows (`SELECT ... FOR UPDATE`, always the organization before what is in it),
unique and exclusion constraints, and triggers that reject writes to terminal
records. Nothing is shared in memory between processes.

| Component | State it keeps | Operations | What is hard |
|---|---|---|---|
| Payroll preview and confirmation (`payroll/service.js`, `fingerprint.js`) | preview tokens; the run with its payouts, lines and payslips | preview, confirm | a preview that went stale; repeated or concurrent confirmations; writers that do not take the organization's lock |
| Payroll queue submission (`payroll/queue.js`) | `queue_status` | submit, resubmit | lost answers, late marks, events dropped as duplicates |
| Payroll processing worker (`payroll/processing.js`, `lib/storage.js`, `inngest/payroll.js`) | run, payouts, payslips, attempts, the bucket | claim, generate, renew, finalize, fail | overlapping executions, partial failure between database and bucket, crashes, retries |
| Payroll run controls (`app/actions/payroll.js`) | the same rows | resubmit, recover, retry; employees, pay settings, schedules, memberships | controls racing with late executions and failure handlers |
| Payslip download, run status (`api/payslips`, `api/payroll-runs`, the run page) | none | download, poll | what is released, what is offered |
| Periods and amounts (`payroll/periods.js`, `calculator.js`) | none | pure functions | month ends, rounding |
| Overtime and timecards (`overtime/`, `drizzle/0009`) | policies, timecards, reviews, receipts, corrections | prepare, submit, review, correct, consume | drift between attendance and its snapshot, replays, concurrent reviews |
| Attendance (`drizzle/0007`, `attendance/`) | intervals | check in, clock out | one open interval |
| Time off (`drizzle/0010`-`0028`, `time-off/`) | requests and their history | submit, decide, cancel | overlapping requests, lock order, history that agrees with status |
| Privacy (`privacy/`, `drizzle/0037`-`0040`) | consents, deletion requests, holds, receipts | submit, withdraw, review, hold, retention | hold against deletion, resumption after a failure, starvation |
| Organizations, access, memberships (`auth/`, `drizzle/0005`) | memberships, roles | switch, assign, demote | the last active administrator |
| Self-service (`self-service/`, `drizzle/0029`) | the employee's own record | lists, change of the profile | scope of what is read |
| Product operations, audit | append-only records | write, list | nothing depends on them |

What makes each correct: a run is confirmed once, from what was previewed; its
payslips are published together, once, and never change; a generation is always
settled and can be recovered (payroll). An approved timecard is the attendance
it was approved for, and is paid once (overtime). At most one open interval
(attendance), no two approved requests that overlap (time off). No deletion
under a hold; no request reported completed while data remains (privacy). An
organization always has an administrator (memberships).

## 2. Modules

| Module | Content |
|---|---|
| `PayrollRunLifecycle` | abstract specification: what a run promises to its readers |
| `PayrollProcessing` | queue submission, Inngest, worker, bucket, administrator's controls |
| `PayrollProcessingProperties` | its invariants, action properties, fairness, liveness, refinement mapping |
| `PayrollProcessingProofs` | the TLAPS proofs, the refinement among them, and what findings 1 and 2 need |
| `MCPayrollProcessing` | instances for TLC |
| `PayrollPeriods` | the payroll calendar: which period contains a day, which is next |
| `PayrollLedger` | abstract specification: what the confirmed runs promise as a pay history |
| `PayrollConfirmation` | previews, confirmations, and the writers of what they read |
| `PayrollConfirmationProperties` | its invariants and the mapping to `PayrollLedger` |
| `PayrollConfirmationProofs` | the TLAPS proofs: the lock, the calendar, the refinement of `PayrollLedger`, and what findings 3 and 4 need |
| `MCPayrollConfirmation` | instances for TLC |
| `OvertimeCalculator` | the overtime of a timecard: days, thresholds, rounding, allocation |
| `PayrollCalculator` | extends it: gross, deductions, net, totals of a run, the CHECK constraints |
| `OvertimeSheet` | extends it: one calculation as a step, and what a timecard and a payslip must add up to |
| `OvertimeSheetProofs` | the TLAPS proofs about these three |
| `Timecards` | extends `OvertimeCalculator`: attendance of an employee, timecards, corrections, policies |
| `LeaveMarkers` | extends it: days of leave that were worked |
| `TimecardsProperties` | extends it: what attendance and timecards guarantee |
| `TimecardsProofs` | the TLAPS proofs about `Timecards`, `LeaveMarkers` and their composition with `OvertimeSheet` |
| `MCTimecards` | instances of `TimecardsProperties` and `OvertimeSheet` for TLC |
| `Privacy`, `PrivacyProperties` | consent, deletion requests, holds, retention; what they promise, and fairness |
| `PrivacyProofs` | the TLAPS proofs about them |
| `TimeOff` | leave requests with their history and receipts |
| `Memberships` | founding an organization, choosing one, assigning memberships |
| `Access` | extends it: employee records, and who gets into which part |
| `AccessProofs` | the TLAPS proofs about `Memberships` and `Access` |
| `CursorPages` | every list of the application, read page by page |
| `MCOrganization` | the instance of `PrivacyProperties`, `TimeOff`, `Access` and `CursorPages` for TLC |
| `OrganizationProofs` | the TLAPS proofs about `TimeOff`, `CursorPages` and the composition |
| `MCMemberships` | the instance of `Memberships` alone |
| `NumberLemmas` | least and greatest numbers of a set, for the proofs |

`PayrollConfirmation` extends `PayrollPeriods` and ends where
`PayrollProcessing` begins: the run its `Commit` inserts is the one
`PayrollProcessing` follows, and all that it sees of that is `CompleteRun`.

### How `PayrollProcessing` corresponds to the code

One confirmed run is followed from the commit of its confirmation. `run`,
`payout`, `payslip`, `recorded` and `attempts` are the rows (`schema.js`);
`object` is the bucket; `sent`, `job` and `failures` are Inngest's; `submissions`
and `worker` are the local states of `submitPayrollRun` and `processPayrollRun`.
A step is one transaction (`Claim`, `Finalize`, `FailRun`, `Recover`, `Retry`:
they hold the locks of organization and run from their first statement to their
commit), one bare statement (`RecordPayslip`, `RenewLease`, `MarkAttempt`,
`ReleaseLease`, `MarkSubmitted`, `MarkSubmissionFailed`), or one call of the
bucket (`Upload`, `VerifyUpload`, `Discard`). Anything may happen between two.

What is abstracted:

- *Rows.* Each statement that writes the status of payouts or payslips covers
  all rows of the run, so one value stands for all; `storage_path` and `sha256`
  are written row by row and are kept per payslip.
- *Documents.* The path of a payslip is the same for every attempt; its bytes
  are not (a PDF carries its creation time), so a document is the attempt that
  rendered it. Two attempts rendering equal bytes is not modelled.
- *Leases.* The lease owner is the event id, and the event id is a function of
  run and generation: executions of one generation are the *same* owner. The
  model keeps this, and it is why the lease never keeps a second execution of
  the generation out.
- *Time* is the age of the last progress, in the ranges the code tells apart:
  under 5 minutes (the lease is live), under 30, 30 and more (recovery).
- *Inngest* is external: it drops events whose id it has seen (unless the
  deduplication window has passed: `"window"`), skips an event while a function
  run of the organization is under way, calls the function until a call returns
  or no retry is left, then calls `onFailure`. A call may be given up while its
  execution lives (`"timeout"`).
- Audit events, milestones, failure summaries, Sentry and metrics are left out:
  the last four swallow their errors; an audit event in a transaction only adds
  one more way for that transaction to fail (`"database"`).
- `organizations.status` has no writer in the code; it toggles freely under
  `"organization"`.

Faults are a constant, so that a run says which it explores; the proofs hold
for all of them.

### How `PayrollConfirmation` corresponds to the code

One organization is followed from its foundation. `schedule`, `employee`,
`settings`, `receipts`, `tokens` (with `consumed` and `expired` for the two
columns that change) and `runs` are the rows; `lock` is the row lock on the
organization; `session` and `save` are the local states of `previewPayroll` /
`confirmPayroll` and of `savePaySettingAction`. Under READ COMMITTED each
statement reads what is committed when it runs, so `LookUpRun`, `ReadToken`,
`LockOrganization`, `ReadSchedule`, `ReadRuns`, `ReadEmployees`, `ReadSettings`
and `Commit` are steps of their own, as are the unlocked read of the schedule
(`SubmitSetting`), the unlocked look for the receipt (`FindReceipt`) and the
locked part (`InsertSetting`, `RejectSetting`) of a pay setting request. A
transaction that takes the lock with its first statement
(`updateScheduleAction`) or that is one guarded statement (the employees) is one
step. `Fail` and `EndSave` end a session or a request at any point: an error, a
rollback, or a server that dies.

What is abstracted:

- *What a payroll is computed from* (`Source`) is the document the code hashes:
  schedule, period, and for each eligible employee the version of the row and
  the version of the setting. The fingerprint of two sources is equal exactly
  when they are: collisions of SHA-256 and the wording of the document are left
  out. Amounts are a function of the setting, whose row never changes.
- *The organization row* has no writer, so its name, currency and status do not
  appear; the lock on it does.
- *Overtime* may be disabled, the default: a payroll looks at no timecard. When
  it is enabled (`OvertimeEnabled`), an employee is paid by an approved card of
  exactly the period, and by the setting the card was made with, which is the one
  that covers the period: settings may not overlap, and a card whose setting is
  not the current one is returned when it is decided. `approved` is the cards a
  payroll can take; how they come about is `Timecards`, of which
  `ApproveTimecard` is the last step. A reviewer locks the card only, so a card
  may be approved between any two statements of a confirmation; an approved card
  is never changed again. Cards are approved for the period that is paid next, if
  it begins on one of `CardDates`: those of other periods change no payroll until
  their period is due.
- *The employee's own profile* (`UpdateSelfServiceProfile`) is an edit of the row
  without the lock of the organization. Its receipt only answers a request that
  is sent again.
- *A pay setting* is refused when it overlaps an approved card (`NoConflict`; such a
  card's period has a setting already, so that `NoOverlap` refuses it too). Submitted
  cards are not kept, and neither are minutes: the refusals at `actions/payroll.js:229`
  and, for submitted cards, at line 240 are an `EndSave`, which may end any request.
- *Time*: a day is a number, `Tomorrow` the clock; a token may expire at any
  moment after its preview, once (`Expire`).
- *Sessions of administrators* are not tied to their identity: any administrator
  may confirm any token, and the code refuses a token that is another's.

### How `Timecards` and its neighbours correspond to the code

`Timecards` follows one employee and the organization around. `intervals`,
`corrections`, `policies`, `cards`, `event` (the last of each card) and
`receipts` are tables; `call` and `tx` are the database functions and
transactions under way. A transaction is split where another commit may come
between two statements and matter:

| Code (`overtime/service.js`) | Steps |
|---|---|
| `existingReceipt`, before any lock | `Begin` |
| `prepareTimecard` (organization, then card) | `Prepare` |
| `submitTimecard` (card only) | `ValidateSubmission`, `Submit` (the query for an open interval and the update) |
| `transitionReview` (card only) | `ValidateDecision`, `Decide` |
| `correctAttendanceInterval` (organization and interval, later the cards) | `CheckCorrection`, `SelectAffected`, `Correct` |
| `saveOvertimePolicy` (organization) | `SavePolicy` |
| any of them, failing | `RollBack` |

`CheckIn`, `InsertInterval` and `ClockOut` are the functions of
`drizzle/0007_marvelous_ezekiel.sql`. The unique indexes and the immutability
triggers are operators (`OneOpenIndex`, `ReceiptIndex`, `TriggerRefuses`);
`refused` remembers that a trigger has ever had to refuse.

Abstracted: amounts, minutes and rates of a card are a function of its policy,
its pay setting (which never changes for a period that has one) and its
evidence, so a card keeps its policy and its evidence only. Whether the evidence
*can* be calculated is not abstracted: `Calculable` has the refusals of
`calculateTimecard` that depend on attendance, among them the one of intervals
that are not of whole seconds (`calculator.js:11`); time is in units of which a
second has `Second`. Policies take effect with a period, as `saveOvertimePolicy`
demands under the schedule in force (`service.js:426`); the schedule is constant
here, so that `effectivePolicy` never finds one that begins within a period, and
its refusal of that (lines 138-141) has no counterpart. People are not tied to requests here; who may do what is
`Access`. The text of corrections and reviews is left out.

`OvertimeCalculator` and `PayrollCalculator` are the pure functions, translated
with their roundings. `OvertimeSheet` computes one card and its payslips, and
compares them with what they should be: every moment of attendance counted once,
each day's money within one unit of its exact share, totals that add up.

`LeaveMarkers` is `getApprovedLeaveMarkers`: it selects intervals by their
original and their corrected times, and then looks at the latest correction. The
query for corrections stops at 500 rows (`attendance/queries.js:100`): the model is of
queries that find fewer.

### How `Privacy` corresponds to the code

`requests` and `held` are `privacy_requests` and active `privacy_holds`,
`chosen` the subjects that have answered the question of consent, `rows` what
retention may delete, of three kinds. An action of a page is one step: it ends in
a guarded UPDATE or an index. `runPrivacyRetention` is taken statement by
statement, for several executions at once:

| Code (`privacy/retention.js`) | Steps |
|---|---|
| `getHeldSubjectKeys` | `StartExecution` |
| the global policies, their commit, the selection of requests | `ApplyGlobalPolicies` |
| `processSubjectRequest` | `ReadRequest`, `Schedule`, `CheckHold`, `DeleteSubjectRows`, `Look`, `FinishRequest` |
| PostgreSQL refusing to go on | `Refused` (the index on open requests, a deadlock) |
| its catch block | `MarkFailed`, or `MarkLost` when that fails too |
| failures | `StatementFails`, `Crash` |

Row locks are read off the control points: the rows an execution has deleted and
not committed, the request it has scheduled. `outrun` is a history variable: the
holds a transaction could not have seen. `Age` stands for the months after which
a row is old. Abstracted: the row of `privacy_deletion_executions` and the audit
records (written only), keys of repeated requests, subject keys (a subject is its
key).

### How `TimeOff` corresponds to the code

`submit_leave_request` and `transition_leave_request` lock before they read, so
that a call is one step. What is hard is not interleaving but order: a call may
be sent again with its retry identifier after anything else, so every page and
every answered call may come back (`TransitionsOf`: any version a page has ever
shown, any identifier used so far or the next one). A call may name any request of the
organization, whatever the queue of the caller shows. The test of the reviewer
(`drizzle/0023_time_off_transition_lock_fix.sql:39-41`) is three-valued and so is
`PassesAsManager`: with a NULL `manager_id` or a NULL `actor_employee_id` it refuses
nobody. `answered` is the table of
receipts; `history` the events. Dates are days of the organization's time zone.

### How `Memberships` and `Access` correspond to the code

`organizations`, `members` and `cookie` are rows and the chosen organization of
each profile; `underway` are the requests between their checks and their writes:
`CheckFounding`, then `CreateOrganization` with its unique indexes;
`CheckAssignment`, `UpsertMembership` (where the trigger looks for another
administrator), `CommitAssignment`. Sign-in, sign-out and the choice of an
organization are steps. Identity itself (Supabase) is external: a profile is who
it is.

`Access` adds the employee records, and translates the four implementations that
find a profile's organization, role and employee - `src/auth/access.js`,
`src/attendance/access.js`, `src/time-off/access.js`,
`src/lib/authorization.js` - and the contexts built on them for privacy,
product operations, payroll, self-service and overtime, the download route,
and who may submit and review a timecard.

### How `CursorPages` corresponds to the code

The thirteen lists differ in direction, in what the cursor keeps of the business
key, in whether it expires, and in how the last page is known; a list is these
four. `ReadPage` is one query; rows appear and leave between pages. A page is kept
as the set of its rows: no more rows than a page has, none of which the order puts
after one that is left out. Filters are rows that appear and leave. Altered or foreign cursors are refused by the
decoders and not modelled.

## 3. Runs

| Run | Bounds | Shows |
|---|---|---|
| `payroll_serial` | 1 execution, 2 payslips, 2 calls, 2 generations; storage, database, queue faults, lost failure handlers | the documents of a completed run come from one attempt of its generation and are in the bucket, whatever failed before |
| `payroll_overlap` | 2 executions, 1 payslip, 2 calls, 2 generations; timeouts, redelivered events | whole completions, leases and successes of one generation, immutability, the life cycle |
| `payroll_settles` | 2 executions, 1 generation, 2 calls; crashes, timeouts, an organization that comes and goes | liveness: the generation is settled |
| `payroll_overlap_documents` | 2 executions, timeouts only | **violated**, see findings |
| `payroll_abandoned` | 1 execution, storage faults, lost failure handlers | **violated**, see findings |
| `payroll_confirmation` | 2 sessions, 1 pay setting request, 2 under way at once; 1 employee with 2 versions and 2 settings, 2 tokens, 2 versions of the schedule, 4 days; overtime enabled | runs are what was previewed, at most one is open, what is frozen is current, the constraints never refuse a run, the runs are a ledger of consecutive closed periods |
| `payroll_replay` | the same with 2 pay setting requests, 1 setting, overtime disabled | **violated**, see findings |
| `payroll_missing_setting` | the same, overtime disabled | **violated**, see findings |
| `timecards` | 2 check-in calls, 2 transactions; 1 period of 2 days of a second each, clock 0..4 in half seconds, 2 intervals, corrections to the first day; two identifiers for submissions and policies, one for the other operations. And, apart, 3 days of which one is short and one long, 2 intervals, 16 pay inputs | one open interval; locks, versions and receipts keep cards and their history in agreement, no trigger has to refuse, attendance is shown as corrected; overtime and pay add up |
| `timecards_evidence` | the same | **violated**, see findings |
| `organization` | per component, see below | deletion under holds, failures and overlaps; leave and its history; founding; access; lists |
| `last_admin` | 2 profiles, 1 organization, 2 assignments at once | **violated**, see findings |

*Why the bounds are enough.* Two payslips make a batch boundary (`BatchSize` 1)
and a half-done attempt; two calls make a retry; two generations make a
superseded execution, which never needs a third since every guard compares a
generation with the current one only. `MaxAttempts` 2 is never reached before
`MaxCalls` without redelivery. One submission at a time (`MaxSubmissions` 1)
keeps a *retry* from happening while an older submission is under way; the
proofs do not have that bound. A third execution would only repeat what the
first two do: they share the lease owner.

For `PayrollConfirmation`, two things under way are what the lock is about: a
third would wait for it behind the second. Two tokens make two runs, of
consecutive periods, or two confirmations for one period. The short calendar
(months of four days, halves of two, weeks of one) keeps what the calendar is
checked for: `MinDay`..`MaxDay` spans two half months and four weeks, an
organization founded with a semimonthly schedule may change to a weekly one
between its two runs, and the second period then starts inside the old one's
half month (this case is reached). The administrators of the run are one: the
proofs hold for any number. `StartDates`, `HireDates` and `Ranges` are chosen so
that an employee is eligible from the first day and settings are those of a past
period or ongoing. The run leaves out what leads nowhere (`Bounded`): one token expires at
most, previews begin while there is a token to issue, and pay setting requests while
one more setting fits. Overtime is enabled in the run, which has all that a payroll without it
does and the cards besides; the proofs hold for both. `CardDates` are the first
days of the half month and of the week the two runs are of. Eligibility that
depends on the hire date within a period is
left to the tests of the code.

For `Timecards`, the conflicts are between two transactions about one card; a
third would wait, or be refused by the version. One period is enough for them;
that cards of two periods are independent is visible in the code (every query
names the card), and the one operation that spans periods, a correction across
them, is a noted hazard. Two intervals make a check-in, a correction and an
overlap. Attendance begins at 0, 2 or 4 and ends at 1, 2 or 4 half seconds, and
requests are sent once the period is closed (`Bounded`): intervals that are
not of whole seconds occur, and are refused until they are corrected. In the sheet a
second has two units, a minute two seconds, and a multiplier of one is two basis
points, so that half seconds, half minutes and halves of a unit of money occur among
small numbers.

`organization` is one run of components that share no table in the model: `case`
fixes which one a behaviour is of, and the others keep their initial state.

- *Retention* has two cases. With two executions there are the rows of one
  subject, one request, and two rows or a row and a fault (`Overlapping`): what
  two executions do to each other they do about one request, and batches of one
  row are cut. With one execution there are two subjects, two requests and a
  batch of one (`Crowding`): this is where the selection excludes a request.
- *Time off*: an employee with a manager, the manager, a second manager (neither
  manager has one), an administrator, 2 days, 2 requests and 2 retry identifiers of
  each operation: overlaps, repetitions after later decisions, decisions that raced,
  and the reviewer who is not the employee's manager. Where the second manager
  has called or is deactivated there is one request (`Covering`).
- *Memberships*: 2 profiles, 2 organizations, 2 requests at once and 2 names;
  where there are managers or employee records, one request at a time and one
  name (`Staffing`), which is enough since `AccessAgrees` compares readers of
  one committed state. Two records make a manager and a report.
- *Lists*: pages of two rows, 3 identifiers, 4 moments in 2 milliseconds: rows
  with equal keys, equal milliseconds, pages that end between them, and full pages
  with and without a row more. The proofs are of any number.

`last_admin` needs no more than the two administrators.

*Deadlock* is not checked: a completed run rests, and so may an abandoned one;
in the other modules every bound may be used up.

*Fairness* (`FairSpec`). Weak fairness of each execution's own steps, of Inngest
calling a ready function (into a free slot), of its noticing a dead call, and of
the failure handler: a process that is alive takes its next step, and Inngest
retries until the handler returns. Crashes, timeouts, administrators and the
clock get none. `GenerationSettles` starts from an event that Inngest has taken
up: a skipped or deduplicated event gives no such promise (see hazards).
`PrivacyFairness` is weak fairness of each execution of retention taking its next
step: the function runs every day (`inngest/privacy.js`), and its statements end.
Failures and crashes get none, and their number is bounded, as is that of the
requests; people who review get none either: `DeletionSettles` starts from an
approved request.

## 4. Findings

1. **A superseded execution can remove a completed run's document**
   (`payroll_overlap_documents`). Two executions upload to one path. The first,
   slow one records and uploads after the second has done so, or fails its
   read-back; its catch block removes the object (`processing.js:90`) of a run
   the other one has completed. The documents are declared immutable
   (`docs/developer-guide/domain-guide.md:213`) and the rows are; the bucket is
   not. The download then always answers `PAYSLIP_UNAVAILABLE`.
2. **A run can be beyond every control** (`payroll_abandoned`). The worker's
   catch block clears the lease of a run that stays in processing
   (`processing.js:160`); recovery requires an *expired* lease
   (`actions/payroll.js:398`). Normally the failure handler moves the run to
   failed; when it is lost (its own retries exhausted) the run is offered no
   control, against `docs/developer-guide/background-jobs-and-operations.md:60`.
   The proof says what else strands a run: a retry while a call or a submission of
   the failed generation is under way, whose event Inngest skips, or whose late
   mark covers the new generation. Nothing else does.
3. **A repeated pay setting request is refused although it succeeded**
   (`payroll_replay`). `savePaySettingAction` looks its receipt up
   (`actions/payroll.js:207`) before it waits for the lock (line 218), and not
   again. A repetition sent while the first request is under way passes the look,
   waits, and finds the version of the pay history moved (line 222) - by the very
   request it repeats. It is answered "pay history changed" instead of with the
   recorded result (`docs/developer-guide/database-and-security.md:162`). Nothing
   is inserted twice. The operations on timecards have the same order.
4. **A missing pay setting may be impossible to supply**
   (`payroll_missing_setting`). Settings are only inserted; nothing ends one, and
   two may not overlap. When the frequency changes while an employee has a setting
   without an end, that setting no longer matches (`service.js:126`), the preview
   reports it as missing, and the form accepts none for the period. An employee in
   that state blocks every payroll until deactivated
   (`docs/user-guide/administrator.md:59` says to resolve it). The same state is
   reached without an administrator's mistake: the frequency of a setting is read
   at line 164, before the lock, and inserted at line 245.
5. **A card may be approved with attendance from before a correction**
   (`timecards_evidence`). `correctAttendanceInterval` looks for submitted and
   approved cards made of the interval (`overtime/service.js:451`), and later for
   the drafts to rebuild (line 478). A submission takes the lock of its card only
   (line 318), so one that commits between the two is seen by neither. The
   reviewer's approval compares policy and pay setting (lines 381-388), not
   attendance, although `docs/user-guide/administrator.md:85` says that a stale
   attendance snapshot returns the card. Without the race nothing is lost: a
   correction of a submitted card is refused.
6. **Two administrators can leave an organization without one** (`last_admin`).
   The trigger `protect_last_active_administrator`
   (`drizzle/0005_steep_pixie.sql:267`) counts the other administrators it can
   see and locks none of them; of two that demote each other at once, each is the
   reason the other's change is let through
   (`docs/user-guide/glossary.md:13` promises that one remains).

Three divergences have no run of their own. The test of the reviewer in
`transition_leave_request` (`drizzle/0023_time_off_transition_lock_fix.sql:39-41`)
is NULL when the employee has no manager, or when the reviewer's own employee record
has been deactivated since the page looked, and `IF NOT authorized` does not raise on
NULL: *any* manager then decides the request, by its identifier, although the queue
does not show it. `docs/developer-guide/authentication-and-authorization.md:143` says
"Time-off decisions | No | Direct reports | Organization fallback", and
`docs/developer-guide/domain-guide.md:246` "Reviewer queues scope managers to direct
reports and administrators to organization fallback". The run `organization` has such
decisions, `LeaveFollowsHistory` names who may make them (`Reviewers`), and
`ManagersDecideTheirReports` proves that there are no others. The cursors of the attendance lists, the
audit history and the privacy requests keep milliseconds of a moment the database
keeps in microseconds (`attendance/format.js:24`), so that a page which ends inside
a millisecond is followed by one that passes over the rest of it, against "The
next cursor describes the final visible row"
(`docs/developer-guide/database-and-security.md:189`); `ListedOnce` states that
these rows, and no others, are missed. And the documents call the period of a preview
"the most recently closed" one (`docs/developer-guide/domain-guide.md:177`,
`docs/user-guide/administrator.md:54`). `getNextPeriod` takes it only for the
first payroll; afterwards it takes the period after the latest completed one,
which may be several periods back. `PayrollLedger` states what the code does.

One refusal is the common case. `attendance_check_in` and `attendance_clock_out`
store `transaction_timestamp()` as it is (`drizzle/0007_marvelous_ezekiel.sql:117`,
line 181), and `secondsBetween` (`calculator.js:11`) refuses every duration that is
not a multiple of 1000 milliseconds: of a thousand intervals recorded this way about
one is accepted, the others keep their card from being prepared
(`TIMECARD_INVALID_INTERVAL`) until an administrator corrects them. The model has
both kinds; the properties do not depend on how often each occurs.

## 5. Proofs

`PayrollProcessingProofs` proves, for any number of executions, payslips,
generations, attempts, calls and submissions, and every set of faults:

| Theorem | States |
|---|---|
| `AlwaysConsistent` | the inductive invariant `Consistent`, which only the proofs use |
| `TypeCorrect`, `AlwaysWhole`, `LeaseAlwaysFollows`, `AlwaysOneSuccess` | its conjuncts that the run checks |
| `CompletedStaysFinal`, `FailedStaysFailed`, `StaleWorkersHarmless` | action properties |
| `LifecycleImplemented` | the refinement of `PayrollRunLifecycle` |

The only assumption is `ConstantsAssumption` (bounds are positive naturals).
`Consistent` is the conjunction of the type invariant, `CallsAreLeft` (needed
for the type of the call counter), `WorkersHoldAttempts` (an execution past its
claim has an attempt of its own generation) and the three invariants on leases,
completion and attempts. None of the three is inductive alone: finalization
preserves completeness only since the lease it checks belongs to the current
generation of a run still in processing, and the lease invariant survives a
release only since a completed run holds none. Each step lemma has one step per
writing action (`Writers`: every other step leaves the database alone). The
action properties and the refinement follow from `Consistent` and single steps.

`PayrollConfirmationProofs` proves, for any number of administrators, sessions,
requests, employees, tokens and edits:

| Theorem | States |
|---|---|
| `Invariance` | the inductive invariant `IInv` |
| `TypeCorrect`, `AtMostOneOpenRun`, `RunsAreAsPreviewed`, `TheLockProtects` | its conjuncts, as invariants |
| `WhatIsFrozenIsCurrent` | what a confirmation is about to freeze is what the database holds |

What this assumes is `ConfirmationAssumption` (the bounds are what their names
say, `Nobody` is nobody). `IInv` is `TypeOK`, `LockProtects`,
`ConfirmedAsPreviewed` and `OneOpenRun`. `LockProtects` carries the argument:
a session that has passed `LockOrganization` holds the lock, and for every
statement it has made since, what it read is still so. It is preserved by three
kinds of steps, a lemma each: steps that need the lock to be free
(`LockedStep`), so that no session relies on anything; steps that touch nothing
that is relied on (`QuietStep`: employees may be edited under a confirmation,
which is why only `<=` holds of their versions, and timecards approved, which is
why `ReadsAreCurrent` says that everybody about to be paid is `Payable`: a card
approved now then changes nobody's pay); and steps of a session, which
leave the others protected (`OthersStayProtected`). That a token is not consumed
twice although `consumed_at` is read before the lock is `TokenIsUnused`: the
run a token made has the token's period, and the look for a run of that period
is made under the lock. The check of `consumed_at` is not needed for it.

`PayrollProcessingProofs` also treats the documents in the bucket. They are not
safe in general (finding 1), so the theorems say under which hypothesis they are:

| Theorem | States |
|---|---|
| `SerialIntact` | `Spec /\ []Serial => []CompletedPayslipsIntact` |
| `SerialOfOneAttempt` | `Spec /\ []Serial => []CompletedPayslipsOfOneAttempt` |
| `SerialStored` | `Spec /\ []Serial => []CompletedPayslipsStored` |
| `OneWorkerIntact` | the first two, of every instance with one execution at a time |
| `NoTimeoutIntact` | the first two, of every instance without the fault `"timeout"` |

`Serial` says that no two executions are under way at once. `NoTimeoutIntact`
derives it: Inngest waits for every execution until it has answered or is dead
(`Attended`), unless it gives up on one that lives. That is the only fault that
endangers the documents. All others stay: crashes between any two statements,
events delivered again, failures of bucket and database with and without effect,
retries. `SerialInv` adds what an execution has done so far: all rows before the
one it is at are its own, recorded and stored.

Its last section is about abandoned runs (finding 2).
`OnlyALostFailureOrAnEarlyRetryStrands` states, of every instance without the
fault `"onFailure"`, that `Spec /\ [][RetriesAlone]_vars => []AbandonedIsRecoverable`:
crashes, timeouts, lost answers and all other faults included, an abandoned run is
queued and offered to be resubmitted. `RetriesAlone` says that an administrator who
retries does so when the function run of the organization and every submission have
ended. The invariant, `RunIsFollowed`, follows the event: an open generation that
Inngest has seen is the function run's or the failure handler's, and an execution
that Inngest waits for is of the run's generation and ends well only when the run is
settled. Both halves of `RetriesAlone` are needed: beside a function run the event of
the new generation is skipped, and a late submission of the old one marks the new
one as submitted, so that nothing is offered.

`PayrollConfirmationProofs` goes on to prove, for every calendar that satisfies
`CalendarAssumption` (each date that is looked up lies in a month that follows a
month, and a month is longer than its half; TLC evaluates it):

| Theorem | States |
|---|---|
| `PeriodsInOrder` | the inductive invariant `LInv` |
| `EveryInsertionSucceeds` | `InsertionNeverRefused`: no index and no exclusion constraint refuses a run |
| `RunsAreALedger` | the refinement of `PayrollLedger` |

The calendar lemmas say that the periods of a schedule partition the days and
that the period which is due starts the day after the last run. `LInv` adds to
`IInv` that runs follow each other and that the period a confirmation has
computed follows the latest run, under the schedule in force. The schedule is only
changed while there is no open run and nobody holds the lock, and the new one
starts the day after the last run.

Two more theorems say what findings 3 and 4 come from. `RepeatsWait`: no two
requests under way have the same identifier. `CalendarStays`: a change of the
schedule keeps the frequency and the anchor.

| Theorem | States |
|---|---|
| `OnlyConcurrentRepeatsAreRejected` | `Spec /\ []RepeatsWait => []ReplayIsAnswered` |
| `OnlyAChangedCalendarShutsOut` | `Spec /\ [][CalendarStays]_vars => []MissingSettingCanBeSupplied` |

The first rests on a request that has passed the look for its receipt having none,
which only a request of the same identifier can change. The second rests on the
calendar lemmas: where every setting begins and ends where periods of the schedule
do (`SettingsFit`), one that overlaps the next period covers it.

`TimecardsProofs` proves, for any number of check-ins, transactions, periods,
intervals and corrections:

| Theorem | States |
|---|---|
| `Invariance` | the inductive invariant `TInv` |
| `TypeCorrect`, `OneOpenIntervalAtMost`, `NoTriggerRefuses`, `EventsFollow` | the properties of the run, from it |
| `WorkInvariance`, `AttendanceIsShown` | what was worked is completed, and shown as corrected |
| `EveryChangeIsReceipted` | action property |

`NeverRefused` needs most of `TInv`: a transaction that has looked at its card
holds the card's lock (`Exclusive`), so what it has seen is so when it writes. A
correction holds the lock of the organization from its checks to its commit, so no
draft is prepared between the selection of the affected cards and their
rebuilding, and the days it selects by cover every period the interval was read
for (`DraftsAreAffected`); `DraftsAsAttended` follows. That a draft is of a closed
period without an open interval (`DraftsAreClosed`) is why no later clock-out
changes its evidence.

Approved cards need not show attendance as corrected (finding 5).
`OnlyASubmissionMissesACorrection` says when they may not:
`Spec /\ [][SubmitsApart]_vars => []ApprovedAsAttended`, where `SubmitsApart` is that
no submission commits while a correction is between its two queries. The invariant,
`AttendedInv`, is that of submitted and approved cards, and of those a submission has
compared, the evidence is the attendance; that a correction which has been checked is
of no such card; and that what it selects covers every card of its interval. All
other interleavings - decisions against corrections, submissions against each other,
a correction that begins after a submission has compared - need no hypothesis.
`TimecardsAndSheetsAlone` says that the instance for TLC, which runs `Timecards` and
`OvertimeSheet` side by side, behaves as each of them alone.

`OvertimeSheetProofs` proves, for any period, attendance, pay, policy and deductions
(`SheetAssumption`: the days of a period follow each other, amounts are naturals):

| Theorem | States |
|---|---|
| `SheetInvariance`, `SheetIsFair` | what a sheet holds is the calculation of its inputs; `SheetAddsUp` |
| `TimeIsKept` | every moment of attendance in the period is counted on one day |
| `MoneyIsFair` | the money of the days adds up to the amount, rounded once; no day is a unit off its exact share |
| `RoundAndRound` | the loop of `allocateDailyOvertimeMoney` (`ranked[index % length]`, `calculator.js:44`) gives a day what the closed form of `AllocateDailyMoney` does |
| `AllocationReconciles` | "attendance source allocation does not reconcile" is never thrown, which `Calculable` leaves out |
| `TotalsAreAdmitted` | the totals of a run agree, for any number of payouts |

Sums over sets would be induction over data. Instead, a claim about a sum is made of
all subsets of the set, and a subset that violates it is minimal (`Minimal`, from the
cardinalities and the least natural number): taking one element away contradicts it
(`Accumulate`). `SumRemove` is what a sum is, one element at a time. The money of a
period leaves units over when the days are rounded down, not fewer than none and not
more than there are days with a remainder (`UnitsRemain`); so that going round once
in the order of the remainders hands out all of them, and none to a day without
overtime (`MoneyOfDays`). Time is counted as sets of units: the days divide the
period and the intervals what was worked (`SumOfParts`).

`PrivacyProofs` proves, for any number of subjects, executions, rows and requests
and any batch size:

| Theorem | States |
|---|---|
| `PrivacyInvariance`, `PrivacyTypeCorrect` | the inductive invariant `PInv`, the type |
| `CompletedIsErased` | action property `ErasedWhenCompleted` |
| `HoldsAreKept` | action property `HoldsStop` |

`PInv` says of each execution that it deletes rows of its own subject only, that
what it believes of the holds is wrong only about those it has missed, and that
when it has found nothing left, whatever is there was recorded after it began.

`OrganizationProofs` proves, for any calendar and any number of employees, requests and
repetitions: `LeaveInvariance` (inductive), `TimeOffTypeCorrect`,
`LeaveIsItsHistory` (`LeaveFollowsHistory`) and the action property
`DecisionsAreFinal`: a decided request never changes, and neither do events and
receipts. `ManagersDecideTheirReports` states
`TimeOffSpec /\ []AllManaged => []DecidedByManager`: while every employee has a manager
and all managers are active employees, only the manager or an administrator has
decided a leave. Neither hypothesis is one the code ensures (section 4). `DoneOnce` counts receipts, so the invariant keeps them finite. The
invariant says that a request is in the state its events leave it in, and that one
still submitted has none but its first.

`AccessProofs` proves, for any number of people, organizations and requests at
once: `MembershipsInvariance`, `FoundedOnce` (`FoundsOnce`), `AccessInvariance`,
`AccessTypeCorrect` and `PartsAgree` (`AccessAgrees`). The two invariants on employee
records that this takes are that a profile is linked to one record at most and
that a manager's record is of the same organization and earlier. That a free slug
is always found, so that founding does not end in an error of its own making, is a
pigeonhole argument over the organizations there are. `OnlyTheRaceTakesTheLast` states
`MembershipsSpec /\ []WritersApart => []AdministratorRemains`: the last administrator
is lost in no other way than in finding 6, by two assignments of one organization that
have both been written and not committed. `WritersApart` is what a lock of the
organization's row in the trigger would give.

`OrganizationProofs` goes on, for any number of rows and any size of a page:

| Theorem | States |
|---|---|
| `ListsInvariance`, `EveryRowListedOnce` | the inductive invariant `ListInv`; `ListedOnce` |
| `ComponentsAlone` | in the composed specification each component behaves as it does alone |
| `OrganizationTypeCorrect` | `TypesOK` of the composition |
| `OrganizationKeepsItsPromises` | the safety properties of all components, of the composition |

`ListInv` says that what has been shown is not beyond the cursor, and that what
was there all along and has not been shown is, or has been passed over in the
millisecond of a page's last row. It uses that only lists in descending order
have cursors that lose precision: in ascending order such a cursor would show rows
twice. `ComponentsAlone` is why the theorems about a component, which are about its
own specification, hold of the run `organization` too.

*Assumptions.* Besides `CalendarAssumption` and `SheetAssumption` these are bounds
that are numbers, model values that are distinct from what they are not, and
`TimecardsAssumption`: corrected times lie within the clock, requests are pairs of
an operation and an identifier. `Max` and `Min` are `CHOOSE` expressions; that they
are what they are called is proved in `NumberLemmas`, from the well-foundedness of
`<` in the library.

*Only model-checked.*

- Liveness (`GenerationSettles`, `DeletionSettles`): fairness and ENABLED are out of
  the prover's reach.
- That the code violates the six properties of section 4: TLC shows a behaviour of
  each. The theorems named in this section show the other half: under a hypothesis
  that rules that behaviour out the property holds. The hypotheses are not claims
  about the code.

## 6. Plan

The model is complete up to section 7. Every safety property of a passing run is
proved, and for every property that is violated what it takes to keep it. What is
left is not a matter of more proofs of this kind:

1. Liveness needs a prover that can treat fairness and ENABLED.
2. Where a finding is repaired in the code, the hypothesis of its theorem becomes a
   property of the repaired model, and its run one that passes.

## 7. Not modelled, and why

- *Signed addresses of downloads* and their term are the storage service's; what
  is released, and to whom, is modelled (`Published`, `DownloadsPayslip`).
- *The run page's polling* is the browser's own state.
- *Product events, failure groups, audit records* are append-only beyond what
  `Privacy` has of them; writing them never fails an operation, and nothing reads
  them but their own pages.
- *User interface, Supabase sessions, PDF layout, Sentry, metrics, scripts* keep
  no state of the program's own.
- *Cursors that were altered or belong elsewhere*, and validation of the shape of
  requests, are refusals before any of the modelled steps.

`PROJECT.json` lists each component with its status, every hazard of the code
with the property that covers it, and for each definition the lines it
translates. Hazards without a property carry the reason.
