------------------------- MODULE PayrollProcessing -------------------------
(***************************************************************************)
(* The processing of one confirmed payroll run: the queue submission       *)
(* (src/payroll/queue.js), the Inngest function that calls the worker      *)
(* (src/inngest/payroll.js), the worker itself (src/payroll/processing.js  *)
(* with src/lib/storage.js), and the administrator's resubmit, recover and *)
(* retry actions (src/app/actions/payroll.js).                             *)
(*                                                                         *)
(* A step is one database transaction, one unguarded UPDATE, or one call   *)
(* of the object store: between two steps of an execution of the worker    *)
(* anything else may happen, another execution of it included.             *)
(*                                                                         *)
(* Abstractions.  Every statement that writes the status of a payout or of *)
(* a payslip covers all the rows of the run, so one value stands for each  *)
(* set of rows; storage_path and sha256 are written row by row and are     *)
(* kept per payslip.  The bytes of a PDF carry its creation time, so the   *)
(* content of a document is identified by the attempt that rendered it.    *)
(* Time is the age of last_progress_at, in the three ranges the code       *)
(* tells apart: lease_expires_at is always written together with it.       *)
(*                                                                         *)
(* A definition named X_Something just before X is a faulty variant of X.  *)
(* No specification uses it: it stands for a bug the properties must find. *)
(***************************************************************************)
EXTENDS Integers, FiniteSets

CONSTANTS
  Workers,         \* executions of the worker that may overlap
  NumPayslips,     \* payslips of the run, in the order they are generated
  BatchSize,       \* payslips generated between two lease renewals (25)
  MaxCalls,        \* calls of the function per event: 1 + retries (4)
  MaxGeneration,   \* bound: generations an administrator may open
  MaxAttempts,     \* bound: attempt rows per generation
  MaxSubmissions,  \* bound: submissions under way at once
  Faults           \* the faults of the environment that may happen

FaultKinds ==
  {"crash",         \* an execution disappears between two of its steps
   "timeout",       \* Inngest gives up on a call whose execution is alive
   "database",      \* a statement fails, or its commit is not acknowledged
   "storage",       \* a call of the object store fails, or its answer is lost
   "queue",         \* inngest.send fails, or its answer is lost
   "window",        \* Inngest forgets the ids of the events it has seen
   "onFailure",     \* the failure handler exhausts its own retries
   "organization"}  \* the organization is deactivated or reactivated

ASSUME ConstantsAssumption ==
  /\ NumPayslips \in Nat \ {0}
  /\ BatchSize \in Nat \ {0}
  /\ MaxCalls \in Nat \ {0}
  /\ MaxGeneration \in Nat \ {0}
  /\ MaxAttempts \in Nat \ {0}
  /\ MaxSubmissions \in Nat \ {0}
  /\ Faults \subseteq FaultKinds

Payslips == 1..NumPayslips
Generations == 1..MaxGeneration
Attempts == Generations \X (1..MaxAttempts)  \* (run, generation, number)
None == <<0, 0>>                             \* no document, no attempt
Nobody == 0                                  \* lease_owner IS NULL

VARIABLES
  run,          \* the payroll_runs row
  payout,       \* status of the payouts rows
  payslip,      \* status and immutable flag of the payslips rows
  recorded,     \* sha256 and storage_path of each payslips row
  object,       \* what the bucket holds at the path of each payslip
  attempts,     \* outcome of each payroll_run_attempts row
  orgActive,    \* organizations.status = 'active'
  submissions,  \* submitPayrollRun calls under way
  sent,         \* event ids (one per generation) Inngest has seen
  job,          \* the Inngest function run of this organization
  failures,     \* generations whose onFailure handler is to be called
  worker        \* executions of processPayrollRun

rows == <<run, payout, payslip>>
database == <<rows, recorded, attempts>>
inngest == <<sent, job, failures>>
vars == <<run, payout, payslip, recorded, object, attempts, orgActive,
          submissions, sent, job, failures, worker>>

(***************************************************************************)
(* Types and derived values.                                               *)
(***************************************************************************)
RunStatus == {"queued", "processing", "completed", "failed"}
Outcomes == {"absent", "processing", "retryable_failure", "failed", "succeeded"}
WorkerSteps == {"idle", "claim", "read", "upload", "verify", "record", "discard",
                "renew", "finalize", "markAttempt", "release", "return", "throw"}
Submission == [generation : Generations, step : {"send", "mark", "markFailed"}]

Run == [status : RunStatus, generation : Generations,
        leaseOwner : {Nobody} \cup Generations,  \* event id: one per generation
        leased : BOOLEAN,                        \* lease_expires_at IS NOT NULL
        age : 0..2,           \* < 5 min, < 30 min or >= 30 min without progress
        queueStatus : {"pending", "submitted", "failed"}]

Worker == [step : WorkerSteps, generation : {Nobody} \cup Generations,
           awaited : BOOLEAN,                    \* Inngest waits for its answer
           attempt : Attempts \cup {None}, row : Payslips]

TypeOK ==
  /\ run \in Run
  /\ payout \in {"pending", "processing", "finalized", "failed"}
  /\ payslip \in [status : {"pending", "generated", "failed"}, immutable : BOOLEAN]
  /\ recorded \in [Payslips -> Attempts \cup {None}]
  /\ object \in [Payslips -> Attempts \cup {None}]
  /\ attempts \in [Attempts -> Outcomes]
  /\ orgActive \in BOOLEAN
  /\ submissions \subseteq Submission
  /\ sent \subseteq Generations
  /\ job \in [phase : {"inactive", "ready", "calling"},
              generation : Generations, calls : 0..MaxCalls]
  /\ failures \subseteq Generations
  /\ worker \in [Workers -> Worker]

LeaseLive == run.leased /\ run.age = 0
Delayed == run.age = 2

(* The BEFORE UPDATE triggers of the terminal records. *)
RunFrozen == run.status = "completed"
PayslipsFrozen_NoTrigger == FALSE
PayslipsFrozen == payslip.status = "generated"

Idle == [step |-> "idle", generation |-> Nobody, awaited |-> FALSE,
         attempt |-> None, row |-> 1]

(* confirmPayroll has committed; its caller may be about to submit the run. *)
Init ==
  /\ run = [status |-> "queued", generation |-> 1, leaseOwner |-> Nobody,
            leased |-> FALSE, age |-> 0, queueStatus |-> "pending"]
  /\ payout = "pending"
  /\ payslip = [status |-> "pending", immutable |-> FALSE]
  /\ recorded = [p \in Payslips |-> None]
  /\ object = [p \in Payslips |-> None]
  /\ attempts = [a \in Attempts |-> "absent"]
  /\ orgActive = TRUE
  /\ submissions = {[generation |-> 1, step |-> "send"]}
  /\ sent = {}
  /\ job = [phase |-> "inactive", generation |-> 1, calls |-> 0]
  /\ failures = {}
  /\ worker = [w \in Workers |-> Idle]

-----------------------------------------------------------------------------
(***************************************************************************)
(* Queue submission: submitPayrollRun(s.generation).                       *)
(***************************************************************************)
MoveSubmission(s, step) ==
  submissions' = (submissions \ {s}) \cup {[s EXCEPT !.step = step]}

(* Inngest drops an event whose id it has seen, unless the deduplication   *)
(* window has passed, and skips it while a function run of the             *)
(* organization is under way (singleton, mode "skip").                     *)
Deliver(g) ==
  /\ sent' = sent \cup {g}
  /\ \/ /\ g \notin sent \/ "window" \in Faults
        /\ job.phase = "inactive"
        /\ job' = [phase |-> "ready", generation |-> g, calls |-> 0]
     \/ /\ g \in sent \/ job.phase # "inactive"
        /\ UNCHANGED job
  /\ UNCHANGED failures

Send(s) ==
  /\ s.step = "send"
  /\ \/ Deliver(s.generation) /\ MoveSubmission(s, "mark")
     \/ /\ "queue" \in Faults
        /\ Deliver(s.generation) \/ UNCHANGED inngest
        /\ MoveSubmission(s, "markFailed")
  /\ UNCHANGED <<database, object, orgActive, worker>>

(* The UPDATE names the run by its id alone; the trigger rejects it once   *)
(* the run is completed, which lands in the catch block, as does an audit  *)
(* event that cannot be written after it.                                  *)
MarkSubmitted(s) ==
  /\ s.step = "mark"
  /\ \/ /\ ~RunFrozen
        /\ run' = [run EXCEPT !.queueStatus = "submitted"]
        /\ \/ submissions' = submissions \ {s}
           \/ "database" \in Faults /\ MoveSubmission(s, "markFailed")
     \/ /\ RunFrozen \/ "database" \in Faults
        /\ UNCHANGED run
        /\ MoveSubmission(s, "markFailed")
  /\ UNCHANGED <<payout, payslip, recorded, object, attempts, orgActive, inngest, worker>>

MarkSubmissionFailed(s) ==
  /\ s.step = "markFailed"
  /\ \/ /\ ~RunFrozen
        /\ run' = [run EXCEPT !.queueStatus = "failed"]
     \/ /\ RunFrozen \/ "database" \in Faults
        /\ UNCHANGED run
  /\ submissions' = submissions \ {s}
  /\ UNCHANGED <<payout, payslip, recorded, object, attempts, orgActive, inngest, worker>>

(* The server action that was submitting the run dies with its process. *)
SubmitterCrashes(s) ==
  /\ "crash" \in Faults
  /\ submissions' = submissions \ {s}
  /\ UNCHANGED <<database, object, orgActive, inngest, worker>>

-----------------------------------------------------------------------------
(***************************************************************************)
(* Inngest: the function of the organization is called until a call        *)
(* returns, at most MaxCalls times; after that the onFailure handler of    *)
(* the event's generation is called, possibly more than once.              *)
(***************************************************************************)
CallWorker(w) ==
  /\ worker[w].step = "idle"
  /\ job.phase = "ready"
  /\ job' = [job EXCEPT !.phase = "calling", !.calls = @ + 1]
  /\ worker' = [worker EXCEPT ![w] = [Idle EXCEPT !.step = "claim",
                                                  !.generation = job.generation,
                                                  !.awaited = TRUE]]
  /\ UNCHANGED <<database, object, orgActive, submissions, sent, failures>>

CallFailed_OneCallTooMany ==
  IF job.calls <= MaxCalls
  THEN job' = [job EXCEPT !.phase = "ready"] /\ UNCHANGED failures
  ELSE /\ job' = [job EXCEPT !.phase = "inactive"]
       /\ failures' = failures \cup {job.generation}

CallFailed ==
  IF job.calls < MaxCalls
  THEN job' = [job EXCEPT !.phase = "ready"] /\ UNCHANGED failures
  ELSE /\ job' = [job EXCEPT !.phase = "inactive"]
       /\ failures' = failures \cup {job.generation}

(* processPayrollRun ends.  An answer nobody waits for changes nothing. *)
Answer(w) ==
  /\ worker[w].step \in {"return", "throw"}
  /\ \/ ~worker[w].awaited /\ UNCHANGED <<job, failures>>
     \/ /\ worker[w].awaited /\ worker[w].step = "return"
        /\ job' = [job EXCEPT !.phase = "inactive"]
        /\ UNCHANGED failures
     \/ worker[w].awaited /\ worker[w].step = "throw" /\ CallFailed
  /\ worker' = [worker EXCEPT ![w] = Idle]
  /\ UNCHANGED <<database, object, orgActive, submissions, sent>>

(* The awaited execution is dead or, with "timeout", too slow: Inngest     *)
(* stops waiting for it and it may live on beside its replacement.         *)
CallTimesOut ==
  /\ job.phase = "calling"
  /\ "timeout" \in Faults \/ \A w \in Workers : ~worker[w].awaited
  /\ worker' = [w \in Workers |-> [worker[w] EXCEPT !.awaited = FALSE]]
  /\ CallFailed
  /\ UNCHANGED <<database, object, orgActive, submissions, sent>>

FailRun_OnlyWhileProcessing(g) ==
  /\ g \in failures
  /\ IF run.status = "processing" /\ run.generation = g
     THEN /\ payout' = "failed"
          /\ payslip' = [payslip EXCEPT !.status = "failed"]
          /\ run' = [run EXCEPT !.status = "failed", !.leaseOwner = Nobody,
                                !.leased = FALSE]
          /\ attempts' = [a \in Attempts |->
                            IF a[1] = g /\ attempts[a] = "retryable_failure"
                            THEN "failed" ELSE attempts[a]]
     ELSE UNCHANGED <<rows, attempts>>
  /\ \/ failures' = failures \ {g}
     \/ "database" \in Faults /\ UNCHANGED failures
  /\ UNCHANGED <<recorded, object, orgActive, submissions, sent, job, worker>>

(* failPayrollRun, the onFailure handler: no check of who holds the lease. *)
FailRun(g) ==
  /\ g \in failures
  /\ IF run.status # "completed" /\ run.generation = g
     THEN /\ payout' = "failed"
          /\ payslip' = [payslip EXCEPT !.status = "failed"]
          /\ run' = [run EXCEPT !.status = "failed", !.leaseOwner = Nobody,
                                !.leased = FALSE]
          /\ attempts' = [a \in Attempts |->
                            IF a[1] = g /\ attempts[a] = "retryable_failure"
                            THEN "failed" ELSE attempts[a]]
     ELSE UNCHANGED <<rows, attempts>>
  /\ \/ failures' = failures \ {g}
     \/ "database" \in Faults /\ UNCHANGED failures
  /\ UNCHANGED <<recorded, object, orgActive, submissions, sent, job, worker>>

GiveUpFailing(g) ==
  /\ "onFailure" \in Faults
  /\ g \in failures
  /\ failures' = failures \ {g}
  /\ UNCHANGED <<database, object, orgActive, submissions, sent, job, worker>>

-----------------------------------------------------------------------------
(***************************************************************************)
(* The worker: one execution of processPayrollRun.                         *)
(***************************************************************************)
Step(w, from, to) ==
  /\ worker[w].step = from
  /\ worker' = [worker EXCEPT ![w].step = to]

Superseded_AnyGeneration(w) == run.status = "completed"

(* claimRun, one transaction under the locks of organization and run. *)
Superseded(w) == run.generation # worker[w].generation \/ run.status = "completed"
HeldByAnother(w) ==
  run.status = "processing" /\ LeaseLive /\ run.leaseOwner # worker[w].generation

ClaimIgnored(w) ==
  /\ \/ Superseded(w)
     \/ orgActive /\ (HeldByAnother(w) \/ run.status \notin {"queued", "processing"})
  /\ Step(w, "claim", "return")
  /\ UNCHANGED <<database, object, orgActive, submissions, inngest>>

(* The throw is outside the try block: no attempt is recorded. *)
ClaimRefused(w) ==
  /\ (~Superseded(w) /\ ~orgActive) \/ "database" \in Faults
  /\ Step(w, "claim", "throw")
  /\ UNCHANGED <<database, object, orgActive, submissions, inngest>>

Claim_AnyStatus(w) ==
  /\ worker[w].step = "claim"
  /\ ~Superseded(w) /\ orgActive /\ ~HeldByAnother(w)
  /\ \E n \in 1..MaxAttempts :
       /\ \A m \in 1..n : (attempts[<<worker[w].generation, m>>] = "absent") = (m = n)
       /\ attempts' = [attempts EXCEPT ![<<worker[w].generation, n>>] = "processing"]
       /\ worker' = [worker EXCEPT ![w].step = "read",
                                   ![w].attempt = <<worker[w].generation, n>>]
  /\ run' = [run EXCEPT !.status = "processing", !.leaseOwner = worker[w].generation,
                        !.leased = TRUE, !.age = 0]
  /\ payout' = "processing"
  /\ UNCHANGED <<payslip, recorded, object, orgActive, submissions, inngest>>

Claim(w) ==
  /\ worker[w].step = "claim"
  /\ ~Superseded(w) /\ orgActive /\ ~HeldByAnother(w)
  /\ run.status \in {"queued", "processing"}
  /\ \E n \in 1..MaxAttempts :
       /\ \A m \in 1..n : (attempts[<<worker[w].generation, m>>] = "absent") = (m = n)
       /\ attempts' = [attempts EXCEPT ![<<worker[w].generation, n>>] = "processing"]
       /\ \/ worker' = [worker EXCEPT ![w].step = "read",
                                      ![w].attempt = <<worker[w].generation, n>>]
          \/ "database" \in Faults /\ worker' = [worker EXCEPT ![w].step = "throw"]
  /\ run' = [run EXCEPT !.status = "processing", !.leaseOwner = worker[w].generation,
                        !.leased = TRUE, !.age = 0]
  /\ payout' = "processing"
  /\ UNCHANGED <<payslip, recorded, object, orgActive, submissions, inngest>>

ReadRows_ResumesAfterRecorded(w) ==
  /\ worker[w].step = "read"
  /\ worker' = [worker EXCEPT
                  ![w].step = IF recorded[1] # None THEN "renew" ELSE "upload",
                  ![w].row = 1]
  /\ UNCHANGED <<database, object, orgActive, submissions, inngest>>

(* The rows are read once, for all batches; only rows already generated    *)
(* are skipped, and then all of them: the batches shrink to their renewal. *)
ReadRows(w) ==
  /\ worker[w].step = "read"
  /\ worker' = [worker EXCEPT
                  ![w].step = IF PayslipsFrozen THEN "renew" ELSE "upload",
                  ![w].row = IF PayslipsFrozen THEN NumPayslips ELSE 1]
  /\ UNCHANGED <<database, object, orgActive, submissions, inngest>>

(* A read of the rows, or of the lines of one payout, fails before there   *)
(* is anything to discard.                                                 *)
ReadFails(w) ==
  /\ "database" \in Faults
  /\ Step(w, "read", "markAttempt") \/ Step(w, "upload", "markAttempt")
  /\ UNCHANGED <<database, object, orgActive, submissions, inngest>>

(* uploadVerifiedPayslip: the path is the same for every attempt, and the  *)
(* upload replaces whatever is there; then the object is read back.        *)
Upload(w) ==
  /\ \/ /\ Step(w, "upload", "verify")
        /\ object' = [object EXCEPT ![worker[w].row] = worker[w].attempt]
     \/ /\ "storage" \in Faults
        /\ Step(w, "upload", "discard")
        /\ object' \in {object, [object EXCEPT ![worker[w].row] = worker[w].attempt]}
  /\ UNCHANGED <<database, orgActive, submissions, inngest>>

VerifyUpload(w) ==
  /\ \/ object[worker[w].row] = worker[w].attempt /\ Step(w, "verify", "record")
     \/ /\ object[worker[w].row] # worker[w].attempt \/ "storage" \in Faults
        /\ Step(w, "verify", "discard")
  /\ UNCHANGED <<database, object, orgActive, submissions, inngest>>

(* The UPDATE of the payslip names it by id: neither the generation nor    *)
(* the lease is checked, only the trigger stands in the way.               *)
RecordPayslip(w) ==
  LET p == worker[w].row
      written == [recorded EXCEPT ![p] = worker[w].attempt]
      batchEnds == p % BatchSize = 0 \/ p = NumPayslips
  IN /\ worker[w].step = "record"
     /\ \/ /\ ~PayslipsFrozen
           /\ recorded' = written
           /\ worker' = [worker EXCEPT
                           ![w].step = IF batchEnds THEN "renew" ELSE "upload",
                           ![w].row = IF batchEnds THEN p ELSE p + 1]
        \/ /\ PayslipsFrozen
           /\ worker' = [worker EXCEPT ![w].step = "discard"]
           /\ UNCHANGED recorded
        \/ /\ "database" \in Faults /\ ~PayslipsFrozen
           /\ recorded' \in {recorded, written}
           /\ worker' = [worker EXCEPT ![w].step = "discard"]
     /\ UNCHANGED <<rows, attempts, object, orgActive, submissions, inngest>>

(* removePayslip: an error of the removal is swallowed. *)
Discard(w) ==
  /\ Step(w, "discard", "markAttempt")
  /\ \/ object' = [object EXCEPT ![worker[w].row] = None]
     \/ "storage" \in Faults /\ UNCHANGED object
  /\ UNCHANGED <<database, orgActive, submissions, inngest>>

RenewLease_AnyOwner(w) ==
  LET p == worker[w].row IN
  /\ worker[w].step = "renew"
  /\ IF RunFrozen
     THEN /\ UNCHANGED run
          /\ worker' = [worker EXCEPT ![w].step = "markAttempt"]
     ELSE /\ run' = [run EXCEPT !.leased = TRUE, !.age = 0]
          /\ worker' = [worker EXCEPT
                          ![w].step = IF p = NumPayslips THEN "finalize" ELSE "upload",
                          ![w].row = IF p = NumPayslips THEN p ELSE p + 1]
  /\ UNCHANGED <<payout, payslip, recorded, object, attempts, orgActive,
                 submissions, inngest>>

RenewLease(w) ==
  LET p == worker[w].row
      renewed == IF run.leaseOwner = worker[w].generation
                 THEN [run EXCEPT !.leased = TRUE, !.age = 0] ELSE run
  IN /\ worker[w].step = "renew"
     /\ \/ /\ run' = renewed
           /\ worker' = [worker EXCEPT
                           ![w].step = IF p = NumPayslips THEN "finalize" ELSE "upload",
                           ![w].row = IF p = NumPayslips THEN p ELSE p + 1]
        \/ /\ "database" \in Faults
           /\ run' \in {run, renewed}
           /\ worker' = [worker EXCEPT ![w].step = "markAttempt"]
     /\ UNCHANGED <<payout, payslip, recorded, object, attempts, orgActive,
                    submissions, inngest>>

MayFinalize_AnyLease(w) ==
  orgActive /\ ~RunFrozen /\ \A p \in Payslips : recorded[p] # None

(* finalizeRun, one transaction under the locks of organization and run:   *)
(* the documents are counted in the payslips rows, not in the bucket.      *)
MayFinalize(w) ==
  /\ orgActive
  /\ run.generation = worker[w].generation
  /\ run.leaseOwner = worker[w].generation
  /\ \A p \in Payslips : recorded[p] # None

Finalize_ForgetsImmutable(w) ==
  /\ worker[w].step = "finalize"
  /\ MayFinalize(w)
  /\ payout' = "finalized"
  /\ payslip' = [payslip EXCEPT !.status = "generated"]
  /\ run' = [run EXCEPT !.status = "completed", !.leaseOwner = Nobody,
                        !.leased = FALSE, !.age = 0]
  /\ attempts' = [attempts EXCEPT ![worker[w].attempt] = "succeeded"]
  /\ worker' = [worker EXCEPT ![w].step = "return"]
  /\ UNCHANGED <<recorded, object, orgActive, submissions, inngest>>

Finalize(w) ==
  /\ worker[w].step = "finalize"
  /\ MayFinalize(w)
  /\ payout' = "finalized"
  /\ payslip' = [status |-> "generated", immutable |-> TRUE]
  /\ run' = [run EXCEPT !.status = "completed", !.leaseOwner = Nobody,
                        !.leased = FALSE, !.age = 0]
  /\ attempts' = [attempts EXCEPT ![worker[w].attempt] = "succeeded"]
  /\ \/ worker' = [worker EXCEPT ![w].step = "return"]
     \/ "database" \in Faults /\ worker' = [worker EXCEPT ![w].step = "markAttempt"]
  /\ UNCHANGED <<recorded, object, orgActive, submissions, inngest>>

FinalizeRefused(w) ==
  /\ ~MayFinalize(w) \/ "database" \in Faults
  /\ Step(w, "finalize", "markAttempt")
  /\ UNCHANGED <<database, object, orgActive, submissions, inngest>>

(* The catch block: two statements, either of which may fail in its turn,  *)
(* and then the error is thrown on to Inngest.                             *)
MarkAttempt(w) ==
  /\ \/ /\ Step(w, "markAttempt", "release")
        /\ attempts' = [attempts EXCEPT ![worker[w].attempt] = "retryable_failure"]
     \/ /\ "database" \in Faults
        /\ Step(w, "markAttempt", "throw")
        /\ attempts' \in {attempts, [attempts EXCEPT ![worker[w].attempt] =
                                        "retryable_failure"]}
  /\ UNCHANGED <<rows, recorded, object, orgActive, submissions, inngest>>

ReleaseLease(w) ==
  /\ Step(w, "release", "throw")
  /\ \/ run' = IF /\ run.generation = worker[w].generation
                  /\ run.leaseOwner = worker[w].generation
               THEN [run EXCEPT !.leaseOwner = Nobody, !.leased = FALSE] ELSE run
     \/ "database" \in Faults /\ UNCHANGED run
  /\ UNCHANGED <<payout, payslip, recorded, object, attempts, orgActive,
                 submissions, inngest>>

WorkerCrashes(w) ==
  /\ "crash" \in Faults
  /\ worker[w].step # "idle"
  /\ worker' = [worker EXCEPT ![w] = Idle]
  /\ UNCHANGED <<database, object, orgActive, submissions, inngest>>

-----------------------------------------------------------------------------
(***************************************************************************)
(* The administrator's controls, and time.                                 *)
(***************************************************************************)
BeginSubmission(g) ==
  /\ Cardinality(submissions) < MaxSubmissions
  /\ submissions' = submissions \cup {[generation |-> g, step |-> "send"]}

(* resubmitPayrollAction: the run is read without a lock. *)
Resubmit ==
  /\ run.status = "queued"
  /\ BeginSubmission(run.generation)
  /\ UNCHANGED <<database, object, orgActive, inngest, worker>>

RecoveryEligible == run.status = "processing" /\ run.leased /\ ~LeaseLive /\ Delayed

Recover ==
  /\ RecoveryEligible
  /\ payout' = "failed"
  /\ payslip' = [payslip EXCEPT !.status = "failed"]
  /\ run' = [run EXCEPT !.status = "failed", !.leaseOwner = Nobody, !.leased = FALSE]
  /\ UNCHANGED <<recorded, attempts, object, orgActive, submissions, inngest, worker>>

Retry_AnyUnfinishedRun ==
  /\ run.status # "completed"
  /\ run.generation < MaxGeneration
  /\ payout' = "pending"
  /\ payslip' = [status |-> "pending", immutable |-> FALSE]
  /\ run' = [status |-> "queued", generation |-> run.generation + 1,
             leaseOwner |-> Nobody, leased |-> FALSE, age |-> 0,
             queueStatus |-> "pending"]
  /\ BeginSubmission(run.generation + 1)
  /\ UNCHANGED <<recorded, attempts, object, orgActive, inngest, worker>>

(* retryPayrollAction: the transaction, then submitPayrollRun. *)
Retry ==
  /\ run.status = "failed"
  /\ run.generation < MaxGeneration
  /\ payout' = "pending"
  /\ payslip' = [status |-> "pending", immutable |-> FALSE]
  /\ run' = [status |-> "queued", generation |-> run.generation + 1,
             leaseOwner |-> Nobody, leased |-> FALSE, age |-> 0,
             queueStatus |-> "pending"]
  /\ BeginSubmission(run.generation + 1)
  /\ UNCHANGED <<recorded, attempts, object, orgActive, inngest, worker>>

TimePasses ==
  /\ run.status = "processing" /\ run.age < 2
  /\ run' = [run EXCEPT !.age = @ + 1]
  /\ UNCHANGED <<payout, payslip, recorded, object, attempts, orgActive,
                 submissions, inngest, worker>>

OrganizationToggles ==
  /\ "organization" \in Faults
  /\ orgActive' = ~orgActive
  /\ UNCHANGED <<database, object, submissions, inngest, worker>>

-----------------------------------------------------------------------------
SubmissionStep(s) ==
  Send(s) \/ MarkSubmitted(s) \/ MarkSubmissionFailed(s)

WorkerStep(w) ==
  \/ ClaimIgnored(w) \/ ClaimRefused(w) \/ Claim(w) \/ ReadRows(w) \/ ReadFails(w)
  \/ Upload(w) \/ VerifyUpload(w) \/ RecordPayslip(w) \/ Discard(w)
  \/ RenewLease(w) \/ Finalize(w) \/ FinalizeRefused(w)
  \/ MarkAttempt(w) \/ ReleaseLease(w) \/ Answer(w)

Next ==
  \/ \E s \in submissions : SubmissionStep(s) \/ SubmitterCrashes(s)
  \/ \E w \in Workers : CallWorker(w) \/ WorkerStep(w) \/ WorkerCrashes(w)
  \/ \E g \in failures : FailRun(g) \/ GiveUpFailing(g)
  \/ CallTimesOut
  \/ Resubmit \/ Recover \/ Retry
  \/ TimePasses \/ OrganizationToggles

Spec == Init /\ [][Next]_vars
=============================================================================
