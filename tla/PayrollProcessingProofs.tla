---------------------- MODULE PayrollProcessingProofs ----------------------
(***************************************************************************)
(* Proofs about PayrollProcessing, for any number of executions, payslips, *)
(* generations, attempts and calls, and whatever faults may happen.        *)
(*                                                                         *)
(* Consistent is inductive.  Its conjuncts need one another: finalizing is *)
(* safe because the lease is of the current generation of a run that is    *)
(* still in processing (LeaseFollowsGeneration) and because the execution  *)
(* works for the lease's generation (WorkersHoldAttempts); renewing and    *)
(* releasing a lease leave a completed run alone because it has none       *)
(* (CompletionIsWhole).  The action properties follow from it.             *)
(*                                                                         *)
(* What a completed run has in the bucket is safe only as long as no two   *)
(* executions overlap: SerialIntact takes that as its hypothesis.  A run   *)
(* keeps a way out as long as failure handlers are not lost and retries    *)
(* wait for what is under way: RunIsFollowed is the invariant of that.     *)
(***************************************************************************)
EXTENDS PayrollProcessingProperties, TLAPS

-----------------------------------------------------------------------------
(***************************************************************************)
(* What the safety invariants rest on, and together with them the          *)
(* inductive invariant.                                                    *)
(***************************************************************************)
(* Inngest only calls a function that has calls left. *)
CallsAreLeft == job.phase = "ready" => job.calls < MaxCalls

(* The steps an execution reaches only through Claim. *)
Claimed == {"read", "upload", "verify", "record", "discard", "renew", "finalize",
            "markAttempt", "release"}

(* An execution serves a generation, and past its claim an attempt of it. *)
WorkersHoldAttempts ==
  \A w \in Workers :
    /\ worker[w].step # "idle" => worker[w].generation \in Generations
    /\ worker[w].step \in Claimed => /\ worker[w].attempt \in Attempts
                                    /\ worker[w].attempt[1] = worker[w].generation

(* The invariant of the proofs: it promises no more than the properties in *)
(* it, which are not inductive one by one.                                 *)
Consistent ==
  /\ TypeOK
  /\ CallsAreLeft
  /\ WorkersHoldAttempts
  /\ LeaseFollowsGeneration
  /\ CompletionIsWhole
  /\ OneSuccess

-----------------------------------------------------------------------------
(***************************************************************************)
(* Updates of records.                                                     *)
(***************************************************************************)
(* A run keeps its type when its lease, status and age are updated.        *)
LEMMA RunUpdates ==
  ASSUME run \in Run, NEW g \in {Nobody} \cup Generations, NEW b \in BOOLEAN,
         NEW st \in RunStatus, NEW a \in 0..2
  PROVE  /\ [run EXCEPT !.leased = b, !.age = a] \in Run
         /\ [run EXCEPT !.leaseOwner = g, !.leased = b] \in Run
         /\ [run EXCEPT !.status = st, !.leaseOwner = g, !.leased = b] \in Run
         /\ [run EXCEPT !.status = st, !.leaseOwner = g, !.leased = b, !.age = a] \in Run
BY DEF Run

(* The updates that take, renew or extend a lease.                         *)
LEMMA RunLeased ==
  ASSUME run \in Run, NEW g \in Generations
  PROVE  /\ [run EXCEPT !.status = "processing", !.leaseOwner = g,
                        !.leased = TRUE, !.age = 0] \in Run
         /\ [run EXCEPT !.leased = TRUE, !.age = 0] \in Run
<1>1. "processing" \in RunStatus /\ 0 \in 0..2 /\ g \in {Nobody} \cup Generations
  BY DEF RunStatus
<1> QED
  BY <1>1, RunUpdates

(* The updates that give a lease back.                                     *)
LEMMA RunReleased ==
  ASSUME run \in Run, NEW st \in RunStatus
  PROVE  /\ [run EXCEPT !.leaseOwner = Nobody, !.leased = FALSE] \in Run
         /\ [run EXCEPT !.status = st, !.leaseOwner = Nobody, !.leased = FALSE] \in Run
         /\ [run EXCEPT !.status = st, !.leaseOwner = Nobody,
                        !.leased = FALSE, !.age = 0] \in Run
<1>1. 0 \in 0..2 /\ Nobody \in {Nobody} \cup Generations
  OBVIOUS
<1> QED
  BY <1>1, RunUpdates

(* An execution keeps its type when it moves on, to another row or attempt. *)
LEMMA WorkerUpdates ==
  ASSUME worker \in [Workers -> Worker], NEW w \in Workers, NEW step \in WorkerSteps
  PROVE  /\ [worker EXCEPT ![w].step = step] \in [Workers -> Worker]
         /\ \A p \in Payslips :
              [worker EXCEPT ![w].step = step, ![w].row = p] \in [Workers -> Worker]
         /\ \A a \in Attempts :
              [worker EXCEPT ![w].step = step, ![w].attempt = a] \in [Workers -> Worker]
BY DEF Worker

(* A step that only moves one execution on.                                *)
LEMMA StepTyped ==
  ASSUME TypeOK, NEW w \in Workers, NEW from, NEW to \in WorkerSteps, Step(w, from, to)
  PROVE  worker' \in [Workers -> Worker]
BY WorkerUpdates DEF TypeOK, Step

(* An execution that is not running, and one that has just been called.    *)
LEMMA IdleTyped ==
  /\ Idle \in Worker
  /\ \A g \in Generations :
       [Idle EXCEPT !.step = "claim", !.generation = g, !.awaited = TRUE] \in Worker
<1>1. ASSUME NEW b \in BOOLEAN
      PROVE  [step |-> "idle", generation |-> Nobody, awaited |-> b,
              attempt |-> None, row |-> 1] \in Worker
  BY ConstantsAssumption DEF Worker, WorkerSteps, Payslips
<1>2. Idle \in Worker
  BY <1>1 DEF Idle
<1>3. ASSUME NEW r \in Worker, NEW b \in BOOLEAN, NEW g \in Generations
      PROVE  [r EXCEPT !.step = "claim", !.generation = g, !.awaited = b] \in Worker
  BY DEF Worker, WorkerSteps
<1> QED
  BY <1>2, <1>3

-----------------------------------------------------------------------------
(***************************************************************************)
(* Types.                                                                  *)
(***************************************************************************)
(* A generation's call fails: another call, or the failure handler.        *)
LEMMA CallFailedTyped ==
  ASSUME TypeOK, CallFailed
  PROVE  /\ job' \in [phase : {"inactive", "ready", "calling"},
                      generation : Generations, calls : 0..MaxCalls]
         /\ failures' \subseteq Generations
         /\ CallsAreLeft'
BY DEF TypeOK, CallFailed, CallsAreLeft

(* A submission is begun only for a generation that may be opened.         *)
LEMMA BeginSubmissionTyped ==
  ASSUME TypeOK, NEW g \in Generations, BeginSubmission(g)
  PROVE  submissions' \subseteq Submission
BY DEF TypeOK, BeginSubmission, Submission

(* The initial state is typed.                                             *)
LEMMA TypeInit == Init => TypeOK
<1> SUFFICES ASSUME Init PROVE TypeOK
  OBVIOUS
<1> USE ConstantsAssumption
<1>1. 1 \in Generations /\ 1 \in Payslips
  BY DEF Generations, Payslips
<1>2. run \in Run
  <2>1. ASSUME NEW b \in BOOLEAN
        PROVE  [status |-> "queued", generation |-> 1, leaseOwner |-> Nobody,
                leased |-> b, age |-> 0, queueStatus |-> "pending"] \in Run
    BY <1>1 DEF Run, RunStatus
  <2> QED
    BY <2>1 DEF Init
<1>3. submissions \subseteq Submission
  BY <1>1 DEF Init, Submission
<1>4. worker \in [Workers -> Worker]
  BY IdleTyped DEF Init
<1>5. job \in [phase : {"inactive", "ready", "calling"},
               generation : Generations, calls : 0..MaxCalls]
  BY <1>1 DEF Init
<1>6. payslip \in [status : {"pending", "generated", "failed"}, immutable : BOOLEAN]
  BY DEF Init
<1>7. attempts \in [Attempts -> Outcomes]
  BY DEF Init, Outcomes
<1> QED
  BY <1>2, <1>3, <1>4, <1>5, <1>6, <1>7 DEF Init, TypeOK

(* Every step of a queue submission keeps the types.                       *)
LEMMA TypeSubmission ==
  ASSUME TypeOK, NEW s \in submissions, SubmissionStep(s) \/ SubmitterCrashes(s)
  PROVE  TypeOK'
<1>1. s \in Submission /\ s.generation \in Generations
  BY DEF TypeOK, Submission
<1>2. /\ [s EXCEPT !.step = "mark"] \in Submission
      /\ [s EXCEPT !.step = "markFailed"] \in Submission
  BY <1>1 DEF Submission
<1>3. CASE Send(s)
  <2>1. submissions' \subseteq Submission
    BY <1>2, <1>3 DEF Send, MoveSubmission, TypeOK
  <2>2. Deliver(s.generation) \/ UNCHANGED inngest
    BY <1>3 DEF Send
  <2>3. sent' \subseteq Generations /\ failures' \subseteq Generations
    BY <1>1, <2>2 DEF Deliver, inngest, TypeOK
  <2>4. job' \in [phase : {"inactive", "ready", "calling"},
                 generation : Generations, calls : 0..MaxCalls]
    BY <1>1, <2>2, ConstantsAssumption DEF Deliver, inngest, TypeOK
  <2> QED
    BY <1>3, <2>1, <2>3, <2>4 DEF Send, TypeOK, database, rows
<1>4. CASE MarkSubmitted(s) \/ MarkSubmissionFailed(s)
  <2>1. run' \in Run
    BY <1>4 DEF MarkSubmitted, MarkSubmissionFailed, TypeOK, Run
  <2>2. submissions' \subseteq Submission
    BY <1>2, <1>4 DEF MarkSubmitted, MarkSubmissionFailed, MoveSubmission, TypeOK
  <2> QED
    BY <1>4, <2>1, <2>2 DEF MarkSubmitted, MarkSubmissionFailed, TypeOK, inngest
<1>5. CASE SubmitterCrashes(s)
  BY <1>5 DEF SubmitterCrashes, TypeOK, database, rows, inngest
<1> QED
  BY <1>3, <1>4, <1>5 DEF SubmissionStep

(* Calls of the worker and their answers keep the types.                   *)
LEMMA TypeCalls ==
  ASSUME TypeOK, CallsAreLeft, NEW w \in Workers, CallWorker(w) \/ Answer(w)
  PROVE  TypeOK'
<1>1. CASE CallWorker(w)
  <2>1. worker' \in [Workers -> Worker]
    BY <1>1, IdleTyped DEF CallWorker, TypeOK
  <2>2. job' \in [phase : {"inactive", "ready", "calling"},
                 generation : Generations, calls : 0..MaxCalls]
    <3>1. job.calls + 1 \in 0..MaxCalls
      BY <1>1, ConstantsAssumption DEF CallWorker, CallsAreLeft, TypeOK
    <3>2. job' = [job EXCEPT !.phase = "calling", !.calls = job.calls + 1]
      BY <1>1 DEF CallWorker
    <3> QED
      BY <3>1, <3>2 DEF TypeOK
  <2> QED
    BY <1>1, <2>1, <2>2 DEF CallWorker, TypeOK, database, rows
<1>2. CASE Answer(w)
  <2>1. worker' \in [Workers -> Worker]
    BY <1>2, IdleTyped DEF Answer, TypeOK
  <2>2. /\ job' \in [phase : {"inactive", "ready", "calling"},
                    generation : Generations, calls : 0..MaxCalls]
        /\ failures' \subseteq Generations
    <3>1. CASE CallFailed
      BY <3>1, CallFailedTyped
    <3>2. CASE ~CallFailed
      BY <1>2, <3>2 DEF Answer, TypeOK
    <3> QED
      BY <3>1, <3>2
  <2> QED
    BY <1>2, <2>1, <2>2 DEF Answer, TypeOK, database, rows
<1> QED
  BY <1>1, <1>2

(* A call that times out keeps the types.                                  *)
LEMMA TypeTimeout ==
  ASSUME TypeOK, CallTimesOut
  PROVE  TypeOK'
<1>1. worker' \in [Workers -> Worker]
  <2>1. ASSUME NEW v \in Workers, NEW b \in BOOLEAN
        PROVE  [worker[v] EXCEPT !.awaited = b] \in Worker
    BY DEF TypeOK, Worker
  <2>2. \A v \in Workers : [worker[v] EXCEPT !.awaited = FALSE] \in Worker
    BY <2>1
  <2> QED
    BY <2>2 DEF CallTimesOut
<1> QED
  BY <1>1, CallFailedTyped DEF CallTimesOut, TypeOK, database, rows

(* The failure handler keeps the types, and so does its loss.              *)
LEMMA TypeFail ==
  ASSUME TypeOK, NEW g \in Generations, FailRun(g) \/ GiveUpFailing(g)
  PROVE  TypeOK'
<1>1. CASE FailRun(g)
  <2>1. run' \in Run
    BY <1>1, RunReleased DEF FailRun, TypeOK, rows, RunStatus
  <2>2. payslip' \in [status : {"pending", "generated", "failed"}, immutable : BOOLEAN]
    BY <1>1 DEF FailRun, TypeOK, rows
  <2>3. attempts' \in [Attempts -> Outcomes]
    BY <1>1 DEF FailRun, TypeOK, Outcomes
  <2>4. payout' \in {"pending", "processing", "finalized", "failed"}
    BY <1>1 DEF FailRun, TypeOK, rows
  <2> QED
    BY <1>1, <2>1, <2>2, <2>3, <2>4 DEF FailRun, TypeOK
<1>2. CASE GiveUpFailing(g)
  BY <1>2 DEF GiveUpFailing, TypeOK, database, rows
<1> QED
  BY <1>1, <1>2

(* The steps of an execution up to its first row.                          *)
LEMMA TypeClaim ==
  ASSUME TypeOK, WorkersHoldAttempts, NEW w \in Workers,
         \/ ClaimIgnored(w) \/ ClaimRefused(w) \/ Claim(w)
         \/ ReadRows(w) \/ ReadFails(w)
  PROVE  TypeOK'
<1>1. CASE ClaimIgnored(w) \/ ClaimRefused(w) \/ ReadFails(w)
  <2>1. worker' \in [Workers -> Worker]
    BY <1>1, StepTyped DEF ClaimIgnored, ClaimRefused, ReadFails, WorkerSteps
  <2> QED
    BY <1>1, <2>1 DEF ClaimIgnored, ClaimRefused, ReadFails, TypeOK, database, rows, inngest
<1>2. CASE Claim(w)
  <2>1. worker[w].generation \in Generations
    BY <1>2 DEF Claim, WorkersHoldAttempts
  <2>2. run' \in Run
    BY <1>2, <2>1, RunLeased DEF Claim, TypeOK
  <2>3. PICK n \in 1..MaxAttempts :
          /\ attempts' = [attempts EXCEPT ![<<worker[w].generation, n>>] = "processing"]
          /\ \/ worker' = [worker EXCEPT ![w].step = "read",
                                        ![w].attempt = <<worker[w].generation, n>>]
             \/ worker' = [worker EXCEPT ![w].step = "throw"]
    BY <1>2 DEF Claim
  <2>4. <<worker[w].generation, n>> \in Attempts
    BY <2>1 DEF Attempts
  <2>5. worker' \in [Workers -> Worker]
    <3>1. worker \in [Workers -> Worker] /\ "read" \in WorkerSteps /\ "throw" \in WorkerSteps
      BY DEF TypeOK, WorkerSteps
    <3>2. CASE worker' = [worker EXCEPT ![w].step = "throw"]
      BY <3>1, <3>2, WorkerUpdates
    <3>3. CASE worker' = [worker EXCEPT ![w].step = "read",
                                        ![w].attempt = <<worker[w].generation, n>>]
      BY <2>4, <3>1, <3>3, WorkerUpdates
    <3> QED
      BY <2>3, <3>2, <3>3
  <2>6. attempts' \in [Attempts -> Outcomes]
    BY <2>3, <2>4 DEF TypeOK, Outcomes
  <2> QED
    BY <1>2, <2>2, <2>5, <2>6 DEF Claim, TypeOK, inngest
<1>3. CASE ReadRows(w)
  <2>1. 1 \in Payslips /\ NumPayslips \in Payslips
    BY ConstantsAssumption DEF Payslips
  <2>2. worker' \in [Workers -> Worker]
    <3>1. PICK step \in WorkerSteps, p \in Payslips :
            worker' = [worker EXCEPT ![w].step = step, ![w].row = p]
      BY <1>3, <2>1 DEF ReadRows, WorkerSteps
    <3> QED
      BY <3>1, WorkerUpdates DEF TypeOK
  <2> QED
    BY <1>3, <2>2 DEF ReadRows, TypeOK, database, rows, inngest
<1> QED
  BY <1>1, <1>2, <1>3

(* The steps of an execution for one row.                                  *)
LEMMA TypeRow ==
  ASSUME TypeOK, WorkersHoldAttempts, NEW w \in Workers,
         Upload(w) \/ VerifyUpload(w) \/ RecordPayslip(w) \/ Discard(w) \/ RenewLease(w)
  PROVE  TypeOK'
<1>1. worker[w].row \in Payslips /\ worker[w].attempt \in Attempts \cup {None}
  BY DEF TypeOK, Worker
<1>2. CASE Upload(w)
  <2>1. worker' \in [Workers -> Worker]
    BY <1>2, StepTyped DEF Upload, WorkerSteps
  <2>2. object' \in [Payslips -> Attempts \cup {None}]
    BY <1>1, <1>2 DEF Upload, TypeOK
  <2> QED
    BY <1>2, <2>1, <2>2 DEF Upload, TypeOK, database, rows, inngest
<1>3. CASE VerifyUpload(w)
  <2>1. worker' \in [Workers -> Worker]
    BY <1>3, StepTyped DEF VerifyUpload, WorkerSteps
  <2> QED
    BY <1>3, <2>1 DEF VerifyUpload, TypeOK, database, rows, inngest
<1>4. worker[w].row # NumPayslips => worker[w].row + 1 \in Payslips
  BY <1>1, ConstantsAssumption DEF Payslips
<1>5. CASE RecordPayslip(w)
  <2>1. worker' \in [Workers -> Worker]
    <3>1. CASE worker' = [worker EXCEPT ![w].step = "discard"]
      BY <3>1, WorkerUpdates DEF TypeOK, WorkerSteps
    <3>2. CASE worker' # [worker EXCEPT ![w].step = "discard"]
      <4>1. PICK step \in WorkerSteps, p \in Payslips :
              worker' = [worker EXCEPT ![w].step = step, ![w].row = p]
        BY <1>1, <1>4, <1>5, <3>2 DEF RecordPayslip, WorkerSteps
      <4> QED
        BY <4>1, WorkerUpdates DEF TypeOK
    <3> QED
      BY <3>1, <3>2
  <2>2. recorded' \in [Payslips -> Attempts \cup {None}]
    BY <1>1, <1>5 DEF RecordPayslip, TypeOK
  <2> QED
    BY <1>5, <2>1, <2>2 DEF RecordPayslip, TypeOK, rows, inngest
<1>6. CASE Discard(w)
  <2>1. worker' \in [Workers -> Worker]
    BY <1>6, StepTyped DEF Discard, WorkerSteps
  <2>2. object' \in [Payslips -> Attempts \cup {None}]
    BY <1>1, <1>6 DEF Discard, TypeOK
  <2> QED
    BY <1>6, <2>1, <2>2 DEF Discard, TypeOK, database, rows, inngest
<1>7. CASE RenewLease(w)
  <2>1. worker' \in [Workers -> Worker]
    <3>1. CASE worker' = [worker EXCEPT ![w].step = "markAttempt"]
      BY <3>1, WorkerUpdates DEF TypeOK, WorkerSteps
    <3>2. CASE worker' # [worker EXCEPT ![w].step = "markAttempt"]
      <4>1. PICK step \in WorkerSteps, p \in Payslips :
              worker' = [worker EXCEPT ![w].step = step, ![w].row = p]
        BY <1>1, <1>4, <1>7, <3>2 DEF RenewLease, WorkerSteps
      <4> QED
        BY <4>1, WorkerUpdates DEF TypeOK
    <3> QED
      BY <3>1, <3>2
  <2>2. worker[w].generation \in Generations
    BY <1>7 DEF RenewLease, WorkersHoldAttempts
  <2>3. [run EXCEPT !.leased = TRUE, !.age = 0] \in Run
    BY <2>2, RunLeased DEF TypeOK
  <2>4. run' \in Run
    BY <1>7, <2>3 DEF RenewLease, TypeOK
  <2> QED
    BY <1>7, <2>1, <2>4 DEF RenewLease, TypeOK, inngest
<1> QED
  BY <1>2, <1>3, <1>5, <1>6, <1>7

(* The steps of an execution after its last row, and of its catch block.   *)
LEMMA TypeEnd ==
  ASSUME TypeOK, WorkersHoldAttempts, NEW w \in Workers,
         \/ Finalize(w) \/ FinalizeRefused(w) \/ MarkAttempt(w)
         \/ ReleaseLease(w) \/ WorkerCrashes(w)
  PROVE  TypeOK'
<1>1. CASE Finalize(w)
  <2>1. worker' \in [Workers -> Worker]
    <3>1. PICK step \in WorkerSteps : worker' = [worker EXCEPT ![w].step = step]
      BY <1>1 DEF Finalize, WorkerSteps
    <3> QED
      BY <3>1, WorkerUpdates DEF TypeOK
  <2>2. run' \in Run
    BY <1>1, RunReleased DEF Finalize, TypeOK, RunStatus
  <2>3. payslip' \in [status : {"pending", "generated", "failed"}, immutable : BOOLEAN]
    BY <1>1 DEF Finalize
  <2>4. attempts' \in [Attempts -> Outcomes]
    BY <1>1 DEF Finalize, TypeOK, Outcomes
  <2> QED
    BY <1>1, <2>1, <2>2, <2>3, <2>4 DEF Finalize, TypeOK, inngest
<1>2. CASE FinalizeRefused(w)
  <2>1. worker' \in [Workers -> Worker]
    BY <1>2, StepTyped DEF FinalizeRefused, WorkerSteps
  <2> QED
    BY <1>2, <2>1 DEF FinalizeRefused, TypeOK, database, rows, inngest
<1>3. CASE MarkAttempt(w)
  <2>1. worker' \in [Workers -> Worker]
    BY <1>3, StepTyped DEF MarkAttempt, WorkerSteps
  <2>2. attempts' \in [Attempts -> Outcomes]
    BY <1>3 DEF MarkAttempt, TypeOK, Outcomes
  <2> QED
    BY <1>3, <2>1, <2>2 DEF MarkAttempt, TypeOK, rows, inngest
<1>4. CASE ReleaseLease(w)
  <2>1. worker' \in [Workers -> Worker]
    BY <1>4, StepTyped DEF ReleaseLease, WorkerSteps
  <2>2. [run EXCEPT !.leaseOwner = Nobody, !.leased = FALSE] \in Run
    BY RunReleased DEF TypeOK, RunStatus
  <2>3. run' \in Run
    BY <1>4, <2>2 DEF ReleaseLease, TypeOK
  <2> QED
    BY <1>4, <2>1, <2>3 DEF ReleaseLease, TypeOK, inngest
<1>5. CASE WorkerCrashes(w)
  <2>1. worker' \in [Workers -> Worker]
    BY <1>5, IdleTyped DEF WorkerCrashes, TypeOK
  <2> QED
    BY <1>5, <2>1 DEF WorkerCrashes, TypeOK, database, rows, inngest
<1> QED
  BY <1>1, <1>2, <1>3, <1>4, <1>5

(* The administrator's controls, time, and the organization.               *)
LEMMA TypeControls ==
  ASSUME TypeOK,
         Resubmit \/ Recover \/ Retry \/ TimePasses \/ OrganizationToggles
  PROVE  TypeOK'
<1>1. run.generation \in Generations
  BY DEF TypeOK, Run
<1>2. CASE Resubmit
  <2>1. submissions' \subseteq Submission
    BY <1>1, <1>2, BeginSubmissionTyped DEF Resubmit
  <2> QED
    BY <1>2, <2>1 DEF Resubmit, TypeOK, database, rows, inngest
<1>3. CASE Recover
  <2>1. run' \in Run
    BY <1>3, RunReleased DEF Recover, TypeOK, RunStatus
  <2>2. payslip' \in [status : {"pending", "generated", "failed"}, immutable : BOOLEAN]
    BY <1>3 DEF Recover, TypeOK
  <2> QED
    BY <1>3, <2>1, <2>2 DEF Recover, TypeOK, inngest
<1>4. CASE Retry
  <2>1. run.generation + 1 \in Generations
    BY <1>1, <1>4, ConstantsAssumption DEF Retry, Generations
  <2>2. submissions' \subseteq Submission
    BY <1>4, <2>1, BeginSubmissionTyped DEF Retry
  <2>3. ASSUME NEW b \in BOOLEAN
        PROVE  [status |-> "queued", generation |-> run.generation + 1,
                leaseOwner |-> Nobody, leased |-> b, age |-> 0,
                queueStatus |-> "pending"] \in Run
    BY <2>1 DEF Run, RunStatus
  <2>4. run' \in Run
    BY <1>4, <2>3 DEF Retry
  <2>5. payslip' \in [status : {"pending", "generated", "failed"}, immutable : BOOLEAN]
    BY <1>4 DEF Retry
  <2> QED
    BY <1>4, <2>2, <2>4, <2>5 DEF Retry, TypeOK, inngest
<1>5. CASE TimePasses
  <2>1. run' \in Run
    BY <1>5 DEF TimePasses, TypeOK, Run
  <2> QED
    BY <1>5, <2>1 DEF TimePasses, TypeOK, inngest
<1>6. CASE OrganizationToggles
  BY <1>6 DEF OrganizationToggles, TypeOK, database, rows, inngest
<1> QED
  BY <1>2, <1>3, <1>4, <1>5, <1>6

(* Every step keeps the types.                                             *)
LEMMA TypeStep ==
  ASSUME TypeOK, CallsAreLeft, WorkersHoldAttempts, [Next]_vars
  PROVE  TypeOK'
<1>1. CASE UNCHANGED vars
  BY <1>1 DEF vars, TypeOK
<1>2. CASE \E s \in submissions : SubmissionStep(s) \/ SubmitterCrashes(s)
  BY <1>2, TypeSubmission
<1>4. CASE \E w \in Workers : CallWorker(w) \/ WorkerStep(w) \/ WorkerCrashes(w)
  BY <1>4, TypeCalls, TypeClaim, TypeRow, TypeEnd DEF WorkerStep
<1>5. CASE \E g \in failures : FailRun(g) \/ GiveUpFailing(g)
  BY <1>5, TypeFail DEF TypeOK
<1>6. CASE CallTimesOut
  BY <1>6, TypeTimeout
<1>7. CASE Resubmit \/ Recover \/ Retry \/ TimePasses \/ OrganizationToggles
  BY <1>7, TypeControls
<1> QED
  BY <1>1, <1>2, <1>4, <1>5, <1>6, <1>7 DEF Next

-----------------------------------------------------------------------------
(***************************************************************************)
(* The other conjuncts of Consistent.                                      *)
(***************************************************************************)
(* Inngest keeps calls in hand.                                            *)
LEMMA CallsStep ==
  ASSUME TypeOK, CallsAreLeft, [Next]_vars
  PROVE  CallsAreLeft'
<1>1. ASSUME UNCHANGED job PROVE CallsAreLeft'
  BY <1>1 DEF CallsAreLeft
<1>2. ASSUME NEW g \in Generations, Deliver(g) PROVE CallsAreLeft'
  BY <1>2, ConstantsAssumption DEF Deliver, CallsAreLeft
<1>3. CASE \E s \in submissions : SubmissionStep(s) \/ SubmitterCrashes(s)
  <2>1. PICK s \in submissions : SubmissionStep(s) \/ SubmitterCrashes(s)
    BY <1>3
  <2>2. s.generation \in Generations
    BY DEF TypeOK, Submission
  <2> QED
    BY <1>1, <1>2, <2>1, <2>2
       DEF SubmissionStep, SubmitterCrashes, Send, MarkSubmitted, MarkSubmissionFailed, inngest
<1>4. ASSUME NEW w \in Workers, CallWorker(w) PROVE CallsAreLeft'
  BY <1>4 DEF CallWorker, CallsAreLeft, TypeOK
<1>5. ASSUME NEW w \in Workers, Answer(w) PROVE CallsAreLeft'
  <2>1. CASE worker[w].awaited /\ worker[w].step = "throw"
    BY <1>5, <2>1, CallFailedTyped DEF Answer
  <2>2. CASE ~worker[w].awaited
    BY <1>1, <1>5, <2>2 DEF Answer
  <2>3. CASE worker[w].step = "return" /\ worker[w].awaited
    BY <1>5, <2>3 DEF Answer, CallsAreLeft, TypeOK
  <2> QED
    BY <1>5, <2>1, <2>2, <2>3 DEF Answer
<1>6. ASSUME NEW w \in Workers, WorkerStep(w) \/ WorkerCrashes(w) PROVE CallsAreLeft'
  BY <1>1, <1>5, <1>6
     DEF WorkerStep, WorkerCrashes, ClaimIgnored, ClaimRefused, Claim, ReadRows, ReadFails, Upload,
         VerifyUpload, RecordPayslip, Discard, RenewLease, Finalize, FinalizeRefused,
         MarkAttempt, ReleaseLease, inngest
<1>7. CASE CallTimesOut
  BY <1>7, CallFailedTyped DEF CallTimesOut
<1>8. CASE \E g \in failures : FailRun(g) \/ GiveUpFailing(g)
  BY <1>1, <1>8 DEF FailRun, GiveUpFailing
<1>9. CASE Resubmit \/ Recover \/ Retry \/ TimePasses \/ OrganizationToggles
  BY <1>1, <1>9 DEF Resubmit, Recover, Retry, TimePasses, OrganizationToggles, inngest
<1>10. CASE UNCHANGED vars
  BY <1>1, <1>10 DEF vars
<1> QED
  BY <1>3, <1>4, <1>6, <1>7, <1>8, <1>9, <1>10 DEF Next

(* An execution only passes its claim with an attempt of its generation.   *)
LEMMA HoldAttemptsStep ==
  ASSUME TypeOK, WorkersHoldAttempts, [Next]_vars
  PROVE  WorkersHoldAttempts'
<1>1. ASSUME UNCHANGED worker PROVE WorkersHoldAttempts'
  BY <1>1 DEF WorkersHoldAttempts
<1>2. ASSUME NEW w \in Workers, NEW step \in WorkerSteps,
             worker[w].step # "idle",
             worker'[w].step = step, worker'[w].generation = worker[w].generation,
             worker'[w].attempt = worker[w].attempt,
             worker[w].step \in Claimed \/ step \notin Claimed,
             \A v \in Workers \ {w} : worker'[v] = worker[v]
      PROVE  WorkersHoldAttempts'
  BY <1>2 DEF WorkersHoldAttempts
<1>3. ASSUME NEW w \in Workers, CallWorker(w) PROVE WorkersHoldAttempts'
  <2>1. /\ worker'[w].step = "claim" /\ worker'[w].generation = job.generation
        /\ \A v \in Workers \ {w} : worker'[v] = worker[v]
    BY <1>3 DEF CallWorker, TypeOK, Idle
  <2>2. job.generation \in Generations
    BY DEF TypeOK
  <2> QED
    BY <2>1, <2>2 DEF WorkersHoldAttempts, Claimed
<1>4. ASSUME NEW w \in Workers, Answer(w) \/ WorkerCrashes(w) PROVE WorkersHoldAttempts'
  <2>1. /\ worker'[w].step = "idle"
        /\ \A v \in Workers \ {w} : worker'[v] = worker[v]
    BY <1>4 DEF Answer, WorkerCrashes, TypeOK, Idle
  <2> QED
    BY <2>1 DEF WorkersHoldAttempts, Claimed
<1>5. ASSUME NEW w \in Workers, Claim(w) PROVE WorkersHoldAttempts'
  <2>1. worker[w].generation \in Generations
    BY <1>5 DEF Claim, WorkersHoldAttempts
  <2>2. CASE worker' = [worker EXCEPT ![w].step = "throw"]
    BY <1>5, <2>2 DEF Claim, WorkersHoldAttempts, Claimed, TypeOK, Worker
  <2>3. CASE worker' # [worker EXCEPT ![w].step = "throw"]
    <3>1. PICK n \in 1..MaxAttempts :
            worker' = [worker EXCEPT ![w].step = "read",
                                     ![w].attempt = <<worker[w].generation, n>>]
      BY <1>5, <2>3 DEF Claim
    <3>2. /\ worker'[w].generation = worker[w].generation
          /\ worker'[w].attempt = <<worker[w].generation, n>>
          /\ \A v \in Workers \ {w} : worker'[v] = worker[v]
      BY <3>1 DEF TypeOK, Worker
    <3>3. worker'[w].attempt \in Attempts /\ worker'[w].attempt[1] = worker'[w].generation
      BY <2>1, <3>2 DEF Attempts
    <3> QED
      BY <2>1, <3>2, <3>3 DEF WorkersHoldAttempts
  <2> QED
    BY <2>2, <2>3
<1>6. ASSUME NEW w \in Workers, NEW from, NEW to \in WorkerSteps, Step(w, from, to),
             from # "idle", from \in Claimed \/ to \notin Claimed
      PROVE  WorkersHoldAttempts'
  BY <1>2, <1>6 DEF Step, TypeOK, Worker
<1>7. ASSUME NEW w \in Workers, ClaimIgnored(w) \/ ClaimRefused(w) \/ ReadFails(w)
      PROVE  WorkersHoldAttempts'
  BY <1>6, <1>7 DEF ClaimIgnored, ClaimRefused, ReadFails, WorkerSteps, Claimed
<1>8. ASSUME NEW w \in Workers, Upload(w) \/ VerifyUpload(w) \/ Discard(w)
      PROVE  WorkersHoldAttempts'
  BY <1>6, <1>8 DEF Upload, VerifyUpload, Discard, WorkerSteps, Claimed
<1>9. ASSUME NEW w \in Workers, FinalizeRefused(w) \/ MarkAttempt(w) \/ ReleaseLease(w)
      PROVE  WorkersHoldAttempts'
  BY <1>6, <1>9 DEF FinalizeRefused, MarkAttempt, ReleaseLease, WorkerSteps, Claimed
<1>10. ASSUME NEW w \in Workers, ReadRows(w) \/ RecordPayslip(w) \/ RenewLease(w) \/ Finalize(w)
       PROVE  WorkersHoldAttempts'
  <2>1. worker[w].step \in Claimed /\ worker[w].step # "idle"
    BY <1>10 DEF ReadRows, RecordPayslip, RenewLease, Finalize, Claimed
  <2>2. worker' \in [Workers -> Worker]
    BY <1>10, TypeClaim, TypeRow, TypeEnd DEF TypeOK
  <2>3. /\ worker'[w].generation = worker[w].generation
        /\ worker'[w].attempt = worker[w].attempt
        /\ \A v \in Workers \ {w} : worker'[v] = worker[v]
    BY <1>10 DEF ReadRows, RecordPayslip, RenewLease, Finalize, TypeOK, Worker
  <2>4. worker'[w].step \in WorkerSteps
    BY <2>2 DEF Worker
  <2> QED
    BY <1>2, <2>1, <2>3, <2>4
<1>11. CASE CallTimesOut
  <2>1. \A v \in Workers : /\ worker'[v].step = worker[v].step
                           /\ worker'[v].generation = worker[v].generation
                           /\ worker'[v].attempt = worker[v].attempt
    BY <1>11 DEF CallTimesOut, TypeOK, Worker
  <2> QED
    BY <2>1 DEF WorkersHoldAttempts
<1>12. CASE \E s \in submissions : SubmissionStep(s) \/ SubmitterCrashes(s)
  BY <1>1, <1>12 DEF SubmissionStep, SubmitterCrashes, Send, MarkSubmitted, MarkSubmissionFailed
<1>13. CASE \E g \in failures : FailRun(g) \/ GiveUpFailing(g)
  BY <1>1, <1>13 DEF FailRun, GiveUpFailing
<1>14. CASE Resubmit \/ Recover \/ Retry \/ TimePasses \/ OrganizationToggles
  BY <1>1, <1>14 DEF Resubmit, Recover, Retry, TimePasses, OrganizationToggles
<1>15. CASE UNCHANGED vars
  BY <1>1, <1>15 DEF vars
<1>16. ASSUME NEW w \in Workers, WorkerStep(w) PROVE WorkersHoldAttempts'
  BY <1>4, <1>5, <1>7, <1>8, <1>9, <1>10, <1>16 DEF WorkerStep
<1> QED
  BY <1>3, <1>4, <1>11, <1>12, <1>13, <1>14, <1>15, <1>16 DEF Next

(* The steps that write the database; every other step leaves it alone.    *)
LEMMA Writers ==
  ASSUME [Next]_vars
  PROVE  \/ UNCHANGED database
         \/ \E s \in submissions : MarkSubmitted(s) \/ MarkSubmissionFailed(s)
         \/ \E w \in Workers : \/ Claim(w) \/ RecordPayslip(w) \/ RenewLease(w)
                              \/ Finalize(w) \/ MarkAttempt(w) \/ ReleaseLease(w)
         \/ \E g \in failures : FailRun(g)
         \/ Recover \/ Retry \/ TimePasses
<1>1. CASE \E s \in submissions : SubmissionStep(s) \/ SubmitterCrashes(s)
  BY <1>1 DEF SubmissionStep, SubmitterCrashes, Send
<1>2. CASE \E w \in Workers : CallWorker(w) \/ WorkerStep(w) \/ WorkerCrashes(w)
  BY <1>2 DEF CallWorker, WorkerStep, WorkerCrashes, ClaimIgnored, ClaimRefused, ReadRows,
              ReadFails, Upload, VerifyUpload, Discard, FinalizeRefused, Answer
<1>3. CASE \E g \in failures : FailRun(g) \/ GiveUpFailing(g)
  BY <1>3 DEF GiveUpFailing
<1>4. CASE CallTimesOut \/ Resubmit \/ OrganizationToggles
  BY <1>4 DEF CallTimesOut, Resubmit, OrganizationToggles
<1>5. CASE UNCHANGED vars
  BY <1>5 DEF vars, database, rows
<1> QED
  BY <1>1, <1>2, <1>3, <1>4, <1>5 DEF Next

(* An execution that finalizes holds the lease of the current generation   *)
(* of a run in processing, under an attempt of that generation.            *)
LEMMA FinalizerHoldsLease ==
  ASSUME Consistent, NEW w \in Workers, Finalize(w)
  PROVE  /\ run.status = "processing" /\ run.generation = worker[w].generation
         /\ worker[w].attempt \in Attempts /\ worker[w].attempt[1] = run.generation
<1>1. /\ worker[w].generation \in Generations /\ worker[w].attempt \in Attempts
      /\ worker[w].attempt[1] = worker[w].generation
  BY DEF Consistent, WorkersHoldAttempts, Finalize, Claimed
<1>2. worker[w].generation # Nobody
  BY <1>1 DEF Generations, Nobody
<1> QED
  BY <1>1, <1>2 DEF Consistent, LeaseFollowsGeneration, Finalize, MayFinalize

(* An execution renews or releases a lease only in a run in processing, of *)
(* its own generation.                                                     *)
LEMMA LeaseWriterIsCurrent ==
  ASSUME Consistent, NEW w \in Workers, RenewLease(w) \/ ReleaseLease(w), run' # run
  PROVE  /\ run.status = "processing" /\ run.leased
         /\ run.generation = worker[w].generation
<1>1. worker[w].generation \in Generations
  BY DEF Consistent, WorkersHoldAttempts, RenewLease, ReleaseLease, Step
<1>2. run.leaseOwner = worker[w].generation
  BY DEF RenewLease, ReleaseLease
<1>3. worker[w].generation # Nobody
  BY <1>1 DEF Generations, Nobody
<1> QED
  BY <1>2, <1>3 DEF Consistent, LeaseFollowsGeneration

(* The lease stays with the current generation.                            *)
LEMMA LeaseStep ==
  ASSUME Consistent, [Next]_vars
  PROVE  LeaseFollowsGeneration'
<1>1. ASSUME UNCHANGED run PROVE LeaseFollowsGeneration'
  BY <1>1 DEF Consistent, LeaseFollowsGeneration
<1>2. run \in Run
  BY DEF Consistent, TypeOK
<1>3. ASSUME NEW s \in submissions, MarkSubmitted(s) \/ MarkSubmissionFailed(s)
      PROVE  LeaseFollowsGeneration'
  BY <1>2, <1>3 DEF MarkSubmitted, MarkSubmissionFailed, Consistent, LeaseFollowsGeneration, Run
<1>4. ASSUME NEW w \in Workers, Claim(w) PROVE LeaseFollowsGeneration'
  <2>1. worker[w].generation # Nobody /\ worker[w].generation = run.generation
    BY <1>4 DEF Consistent, WorkersHoldAttempts, Claim, Superseded, Generations, Nobody
  <2> QED
    BY <1>2, <1>4, <2>1 DEF Claim, LeaseFollowsGeneration, Run
<1>5. ASSUME NEW w \in Workers, RenewLease(w) \/ ReleaseLease(w) PROVE LeaseFollowsGeneration'
  <2>1. SUFFICES ASSUME run' # run PROVE LeaseFollowsGeneration'
    BY <1>1
  <2>2. \/ run' = [run EXCEPT !.leased = TRUE, !.age = 0]
        \/ run' = [run EXCEPT !.leaseOwner = Nobody, !.leased = FALSE]
    BY <1>5, <2>1 DEF RenewLease, ReleaseLease
  <2>3. run.leased
    BY <1>5, <2>1, LeaseWriterIsCurrent
  <2> QED
    BY <1>2, <2>2, <2>3 DEF Consistent, LeaseFollowsGeneration, Run
<1>6. ASSUME NEW w \in Workers, Finalize(w) PROVE LeaseFollowsGeneration'
  BY <1>2, <1>6 DEF Finalize, LeaseFollowsGeneration, Run
<1>7. ASSUME NEW g \in failures, FailRun(g) PROVE LeaseFollowsGeneration'
  BY <1>1, <1>2, <1>7 DEF FailRun, rows, LeaseFollowsGeneration, Run
<1>8. CASE Recover
  BY <1>2, <1>8 DEF Recover, LeaseFollowsGeneration, Run
<1>9. CASE Retry
  BY <1>9 DEF Retry, LeaseFollowsGeneration
<1>10. CASE TimePasses
  BY <1>2, <1>10 DEF TimePasses, Consistent, LeaseFollowsGeneration, Run
<1>11. ASSUME NEW w \in Workers, RecordPayslip(w) \/ MarkAttempt(w) PROVE LeaseFollowsGeneration'
  BY <1>1, <1>11 DEF RecordPayslip, MarkAttempt, rows
<1> QED
  BY <1>1, <1>3, <1>4, <1>5, <1>6, <1>7, <1>8, <1>9, <1>10, <1>11, Writers DEF database, rows

(* The run, its payouts and its payslips complete together.                *)
LEMMA CompletionStep ==
  ASSUME Consistent, [Next]_vars
  PROVE  CompletionIsWhole'
<1>1. ASSUME UNCHANGED <<run, payout, payslip, recorded>> PROVE CompletionIsWhole'
  BY <1>1 DEF Consistent, CompletionIsWhole, Released
<1>2. run \in Run
  BY DEF Consistent, TypeOK
<1>3. ASSUME UNCHANGED <<payout, payslip, recorded>>, run'.status = run.status,
             run.status # "completed"
      PROVE  CompletionIsWhole'
  BY <1>3 DEF Consistent, CompletionIsWhole
<1>4. ASSUME NEW s \in submissions, MarkSubmitted(s) \/ MarkSubmissionFailed(s)
      PROVE  CompletionIsWhole'
  BY <1>1, <1>2, <1>3, <1>4 DEF MarkSubmitted, MarkSubmissionFailed, RunFrozen, Run
<1>5. ASSUME NEW w \in Workers, Claim(w) PROVE CompletionIsWhole'
  BY <1>2, <1>5 DEF Claim, Consistent, CompletionIsWhole, Run
<1>6. ASSUME NEW w \in Workers, RecordPayslip(w) PROVE CompletionIsWhole'
  BY <1>1, <1>6 DEF RecordPayslip, PayslipsFrozen, rows, Consistent, CompletionIsWhole
<1>7. ASSUME NEW w \in Workers, RenewLease(w) \/ ReleaseLease(w) PROVE CompletionIsWhole'
  <2>1. UNCHANGED <<payout, payslip, recorded>> /\ run'.status = run.status
    BY <1>2, <1>7 DEF RenewLease, ReleaseLease, Run
  <2> QED
    BY <1>1, <1>3, <1>7, <2>1, LeaseWriterIsCurrent
<1>8. ASSUME NEW w \in Workers, Finalize(w) PROVE CompletionIsWhole'
  <2>1. /\ run'.status = "completed" /\ run'.leaseOwner = Nobody /\ ~run'.leased
        /\ payout' = "finalized" /\ payslip'.status = "generated" /\ payslip'.immutable
    BY <1>2, <1>8 DEF Finalize, Run
  <2>2. \A p \in Payslips : recorded'[p] # None
    BY <1>8 DEF Finalize, MayFinalize
  <2> QED
    BY <2>1, <2>2 DEF CompletionIsWhole, Released
<1>9. ASSUME NEW g \in failures, FailRun(g) PROVE CompletionIsWhole'
  <2>1. CASE run.status # "completed" /\ run.generation = g
    BY <1>2, <1>9, <2>1 DEF FailRun, CompletionIsWhole, Run, Consistent, TypeOK
  <2>2. CASE ~(run.status # "completed" /\ run.generation = g)
    BY <1>1, <1>9, <2>2 DEF FailRun, rows
  <2> QED
    BY <2>1, <2>2
<1>10. CASE Recover
  BY <1>2, <1>10 DEF Recover, CompletionIsWhole, Run, Consistent, TypeOK
<1>11. CASE Retry
  BY <1>11 DEF Retry, CompletionIsWhole
<1>12. CASE TimePasses
  BY <1>2, <1>3, <1>12 DEF TimePasses, Run
<1>13. ASSUME NEW w \in Workers, MarkAttempt(w) PROVE CompletionIsWhole'
  BY <1>1, <1>13 DEF MarkAttempt, rows
<1> QED
  BY <1>1, <1>4, <1>5, <1>6, <1>7, <1>8, <1>9, <1>10, <1>11, <1>12, <1>13, Writers
     DEF database, rows

(* One attempt at most succeeds.                                           *)
LEMMA OneSuccessStep ==
  ASSUME Consistent, [Next]_vars
  PROVE  OneSuccess'
<1>1. ASSUME NEW w \in Workers, Finalize(w) PROVE OneSuccess'
  <2>1. \A a \in Attempts : attempts[a] # "succeeded"
    BY <1>1, FinalizerHoldsLease DEF Consistent, OneSuccess
  <2>2. worker[w].attempt \in Attempts /\ worker[w].attempt[1] = run.generation
    BY <1>1, FinalizerHoldsLease
  <2>3. \A a \in Attempts : attempts'[a] = "succeeded" => a = worker[w].attempt
    BY <1>1, <2>1 DEF Finalize, Consistent, TypeOK
  <2>4. run'.status = "completed" /\ run'.generation = run.generation
    BY <1>1 DEF Finalize, Consistent, TypeOK, Run
  <2> QED
    BY <2>2, <2>3, <2>4 DEF OneSuccess
<1>2. ASSUME \A a \in Attempts : attempts'[a] = "succeeded" => attempts[a] = "succeeded",
             run.status = "completed" =>
               run'.status = "completed" /\ run'.generation = run.generation
      PROVE  OneSuccess'
  BY <1>2 DEF Consistent, OneSuccess
<1>3. run \in Run /\ attempts \in [Attempts -> Outcomes]
  BY DEF Consistent, TypeOK
<1>4. ASSUME UNCHANGED attempts, run.status # "completed" \/ UNCHANGED run PROVE OneSuccess'
  BY <1>2, <1>4
<1>5. ASSUME NEW s \in submissions, MarkSubmitted(s) \/ MarkSubmissionFailed(s) PROVE OneSuccess'
  BY <1>4, <1>5 DEF MarkSubmitted, MarkSubmissionFailed, RunFrozen
<1>6. ASSUME NEW w \in Workers, Claim(w) PROVE OneSuccess'
  <2>1. \A a \in Attempts : attempts'[a] = "succeeded" => attempts[a] = "succeeded"
    BY <1>3, <1>6 DEF Claim
  <2> QED
    BY <1>2, <1>6, <2>1 DEF Claim
<1>7. ASSUME NEW w \in Workers, RenewLease(w) \/ ReleaseLease(w) PROVE OneSuccess'
  <2>1. UNCHANGED attempts
    BY <1>7 DEF RenewLease, ReleaseLease
  <2> QED
    BY <1>4, <1>7, <2>1, LeaseWriterIsCurrent
<1>8. ASSUME NEW w \in Workers, MarkAttempt(w) PROVE OneSuccess'
  <2>1. \A a \in Attempts : attempts'[a] = "succeeded" => attempts[a] = "succeeded"
    BY <1>3, <1>8 DEF MarkAttempt
  <2> QED
    BY <1>2, <1>8, <2>1 DEF MarkAttempt, rows
<1>9. ASSUME NEW w \in Workers, RecordPayslip(w) PROVE OneSuccess'
  BY <1>4, <1>9 DEF RecordPayslip, rows
<1>10. ASSUME NEW g \in failures, FailRun(g) PROVE OneSuccess'
  <2>1. \A a \in Attempts : attempts'[a] = "succeeded" => attempts[a] = "succeeded"
    BY <1>3, <1>10 DEF FailRun
  <2>2. run.status # "completed" \/ UNCHANGED run
    BY <1>10 DEF FailRun, rows
  <2> QED
    BY <1>2, <2>1, <2>2
<1>11. CASE Recover \/ Retry \/ TimePasses
  BY <1>4, <1>11 DEF Recover, RecoveryEligible, Retry, TimePasses
<1>12. CASE UNCHANGED database
  BY <1>4, <1>12 DEF database, rows
<1> QED
  BY <1>1, <1>5, <1>6, <1>7, <1>8, <1>9, <1>10, <1>11, <1>12, Writers

-----------------------------------------------------------------------------
(***************************************************************************)
(* The theorems.                                                           *)
(***************************************************************************)
(* Consistent is an inductive invariant.                                   *)
THEOREM ConsistentInit == Init => Consistent
<1> SUFFICES ASSUME Init PROVE Consistent
  OBVIOUS
<1>1. TypeOK
  BY TypeInit
<1>2. CallsAreLeft
  BY DEF Init, CallsAreLeft
<1>3. WorkersHoldAttempts
  BY DEF Init, Idle, WorkersHoldAttempts, Claimed
<1>4. LeaseFollowsGeneration
  BY DEF Init, LeaseFollowsGeneration
<1>5. CompletionIsWhole
  BY DEF Init, CompletionIsWhole
<1>6. OneSuccess
  BY DEF Init, OneSuccess
<1> QED
  BY <1>1, <1>2, <1>3, <1>4, <1>5, <1>6 DEF Consistent

(* No step breaks Consistent, whatever the process and whatever fails.     *)
THEOREM ConsistentStep == Consistent /\ [Next]_vars => Consistent'
<1> SUFFICES ASSUME Consistent, [Next]_vars PROVE Consistent'
  OBVIOUS
<1>1. TypeOK /\ CallsAreLeft /\ WorkersHoldAttempts
  BY DEF Consistent
<1>2. TypeOK' /\ CallsAreLeft' /\ WorkersHoldAttempts'
  BY <1>1, TypeStep, CallsStep, HoldAttemptsStep
<1> QED
  BY <1>2, LeaseStep, CompletionStep, OneSuccessStep DEF Consistent

(* Leases, attempts and terminal states agree in every reachable state of  *)
(* claimRun, finalizeRun, failPayrollRun, recovery and retry.              *)
THEOREM AlwaysConsistent == Spec => []Consistent
BY ConsistentInit, ConsistentStep, PTL DEF Spec

(* The state keeps its type.                                               *)
THEOREM TypeCorrect == Spec => []TypeOK
<1>1. Consistent => TypeOK
  BY DEF Consistent
<1> QED
  BY <1>1, AlwaysConsistent, PTL

(* Completion is all or nothing, and no lease outlives it (finalizeRun).   *)
THEOREM AlwaysWhole == Spec => []CompletionIsWhole
<1>1. Consistent => CompletionIsWhole
  BY DEF Consistent
<1> QED
  BY <1>1, AlwaysConsistent, PTL

(* The lease is always of the current generation of a run in processing.   *)
THEOREM LeaseAlwaysFollows == Spec => []LeaseFollowsGeneration
<1>1. Consistent => LeaseFollowsGeneration
  BY DEF Consistent
<1> QED
  BY <1>1, AlwaysConsistent, PTL

(* A run is finalized by one attempt, of its last generation.              *)
THEOREM AlwaysOneSuccess == Spec => []OneSuccess
<1>1. Consistent => OneSuccess
  BY DEF Consistent
<1> QED
  BY <1>1, AlwaysConsistent, PTL

-----------------------------------------------------------------------------
(***************************************************************************)
(* Action properties.                                                      *)
(***************************************************************************)
(* No step changes a completed run, its payouts, payslips or documents.    *)
LEMMA CompletedUnchanged ==
  ASSUME Consistent, [Next]_vars, run.status = "completed"
  PROVE  UNCHANGED <<run, payout, payslip, recorded>>
<1>1. payslip.status = "generated"
  BY DEF Consistent, CompletionIsWhole
<1>2. ASSUME NEW s \in submissions, MarkSubmitted(s) \/ MarkSubmissionFailed(s)
      PROVE  UNCHANGED <<run, payout, payslip, recorded>>
  BY <1>2 DEF MarkSubmitted, MarkSubmissionFailed, RunFrozen
<1>3. ASSUME NEW w \in Workers, Claim(w) \/ Finalize(w) PROVE FALSE
  BY <1>3, FinalizerHoldsLease DEF Claim
<1>4. ASSUME NEW w \in Workers, RecordPayslip(w) \/ MarkAttempt(w)
      PROVE  UNCHANGED <<run, payout, payslip, recorded>>
  BY <1>1, <1>4 DEF RecordPayslip, MarkAttempt, PayslipsFrozen, rows
<1>5. ASSUME NEW w \in Workers, RenewLease(w) \/ ReleaseLease(w)
      PROVE  UNCHANGED <<run, payout, payslip, recorded>>
  <2>1. UNCHANGED run
    BY <1>5, LeaseWriterIsCurrent
  <2> QED
    BY <1>5, <2>1 DEF RenewLease, ReleaseLease
<1>6. ASSUME NEW g \in failures, FailRun(g)
      PROVE  UNCHANGED <<run, payout, payslip, recorded>>
  BY <1>6 DEF FailRun, rows
<1>7. ~(Recover \/ Retry \/ TimePasses)
  BY DEF Recover, RecoveryEligible, Retry, TimePasses
<1> QED
  BY <1>2, <1>3, <1>4, <1>5, <1>6, <1>7, Writers DEF database, rows

(* Completed runs, finalized payouts and generated payslips are immutable. *)
THEOREM CompletedStaysFinal == Spec => CompletedIsFinal
<1>1. Consistent /\ [Next]_vars
        => [run.status = "completed" => UNCHANGED <<run, payout, payslip, recorded>>]_vars
  BY CompletedUnchanged
<1> QED
  BY <1>1, AlwaysConsistent, PTL DEF Spec, CompletedIsFinal

(* What a step may do to a failed run: its queue status, or a retry.       *)
LEMMA FailedStep ==
  ASSUME Consistent, [Next]_vars, run.status = "failed"
  PROVE  \/ run' = [run EXCEPT !.queueStatus = run'.queueStatus]
         \/ run'.status = "queued" /\ run'.generation = run.generation + 1
<1>1. run \in Run
  BY DEF Consistent, TypeOK
<1>2. ASSUME UNCHANGED run PROVE run' = [run EXCEPT !.queueStatus = run'.queueStatus]
  BY <1>1, <1>2 DEF Run
<1>3. ASSUME NEW s \in submissions, MarkSubmitted(s) \/ MarkSubmissionFailed(s)
      PROVE  run' = [run EXCEPT !.queueStatus = run'.queueStatus]
  BY <1>1, <1>2, <1>3 DEF MarkSubmitted, MarkSubmissionFailed, Run
<1>4. ASSUME NEW w \in Workers, Claim(w) \/ Finalize(w) PROVE FALSE
  BY <1>4, FinalizerHoldsLease DEF Claim
<1>5. ASSUME NEW w \in Workers, RecordPayslip(w) \/ MarkAttempt(w) PROVE UNCHANGED run
  BY <1>5 DEF RecordPayslip, MarkAttempt, rows
<1>6. ASSUME NEW w \in Workers, RenewLease(w) \/ ReleaseLease(w) PROVE UNCHANGED run
  BY <1>6, LeaseWriterIsCurrent
<1>7. ASSUME NEW g \in failures, FailRun(g) PROVE UNCHANGED run
  <2>1. run.leaseOwner = Nobody /\ run.leased = FALSE
    BY DEF Consistent, LeaseFollowsGeneration, TypeOK, Run
  <2>2. run = [run EXCEPT !.status = "failed", !.leaseOwner = Nobody, !.leased = run.leased]
    BY <1>1, <2>1 DEF Run
  <2> QED
    BY <1>7, <2>1, <2>2 DEF FailRun, rows
<1>8. CASE Retry
  BY <1>8 DEF Retry
<1>9. ~(Recover \/ TimePasses)
  BY DEF Recover, RecoveryEligible, TimePasses
<1> QED
  BY <1>2, <1>3, <1>4, <1>5, <1>6, <1>7, <1>8, <1>9, Writers DEF database, rows

(* A failed generation is left only by retryPayrollAction.                 *)
THEOREM FailedStaysFailed == Spec => FailedOnlyRetried
<1>1. Consistent /\ [Next]_vars
        => [run.status = "failed" =>
              \/ run' = [run EXCEPT !.queueStatus = run'.queueStatus]
              \/ run'.status = "queued" /\ run'.generation = run.generation + 1]_vars
  BY FailedStep
<1> QED
  BY <1>1, AlwaysConsistent, PTL DEF Spec, FailedOnlyRetried

(* An execution of another generation does not write the run's rows.       *)
LEMMA StaleStep ==
  ASSUME Consistent, [Next]_vars, NEW w \in Workers,
         worker'[w] # worker[w], worker[w].generation # run.generation
  PROVE  UNCHANGED <<run, payout, payslip>>
<1>1. ASSUME UNCHANGED worker PROVE FALSE
  BY <1>1
<1>2. ASSUME NEW v \in Workers,
             Claim(v) \/ RenewLease(v) \/ Finalize(v) \/ ReleaseLease(v)
      PROVE  v = w
  BY <1>2 DEF Claim, RenewLease, Finalize, ReleaseLease, Step, Consistent, TypeOK
<1>3. ASSUME NEW v \in Workers, Claim(v) \/ Finalize(v) PROVE FALSE
  BY <1>2, <1>3, FinalizerHoldsLease DEF Claim, Superseded
<1>4. ASSUME NEW v \in Workers, RenewLease(v) \/ ReleaseLease(v)
      PROVE  UNCHANGED <<run, payout, payslip>>
  <2>1. UNCHANGED run
    BY <1>2, <1>4, LeaseWriterIsCurrent
  <2> QED
    BY <1>4, <2>1 DEF RenewLease, ReleaseLease
<1>5. ASSUME NEW v \in Workers, RecordPayslip(v) \/ MarkAttempt(v)
      PROVE  UNCHANGED <<run, payout, payslip>>
  BY <1>5 DEF RecordPayslip, MarkAttempt, rows
<1>6. ASSUME \/ \E s \in submissions : MarkSubmitted(s) \/ MarkSubmissionFailed(s)
             \/ \E g \in failures : FailRun(g)
             \/ Recover \/ Retry \/ TimePasses
      PROVE  FALSE
  BY <1>1, <1>6 DEF MarkSubmitted, MarkSubmissionFailed, FailRun, Recover, Retry, TimePasses
<1> QED
  BY <1>3, <1>4, <1>5, <1>6, Writers DEF database, rows

(* Executions of a superseded generation are harmless to the run's rows.   *)
THEOREM StaleWorkersHarmless == Spec => StaleWorkerHarmless
<1>1. Consistent /\ [Next]_vars
        => [\A w \in Workers :
              (worker'[w] # worker[w] /\ worker[w].generation # run.generation)
                => UNCHANGED <<run, payout, payslip>>]_vars
  BY StaleStep
<1> QED
  BY <1>1, AlwaysConsistent, PTL DEF Spec, StaleWorkerHarmless

-----------------------------------------------------------------------------
(***************************************************************************)
(* Refinement: the processing implements the life cycle.                   *)
(***************************************************************************)
(* Only a retry, of a failed run, opens another generation.                *)
LEMMA GenerationKept ==
  ASSUME Consistent, [Next]_vars, run.status # "failed"
  PROVE  run'.generation = run.generation
<1>1. run \in Run
  BY DEF Consistent, TypeOK
<1>2. ASSUME NEW s \in submissions, MarkSubmitted(s) \/ MarkSubmissionFailed(s)
      PROVE  run'.generation = run.generation
  BY <1>1, <1>2 DEF MarkSubmitted, MarkSubmissionFailed, Run
<1>3. ASSUME NEW w \in Workers,
             \/ Claim(w) \/ RecordPayslip(w) \/ RenewLease(w)
             \/ Finalize(w) \/ MarkAttempt(w) \/ ReleaseLease(w)
      PROVE  run'.generation = run.generation
  BY <1>1, <1>3 DEF Claim, RecordPayslip, RenewLease, Finalize, MarkAttempt, ReleaseLease,
                    rows, Run
<1>4. ASSUME NEW g \in failures, FailRun(g) PROVE run'.generation = run.generation
  BY <1>1, <1>4 DEF FailRun, rows, Run
<1>5. CASE Recover \/ TimePasses
  BY <1>1, <1>5 DEF Recover, TimePasses, Run
<1>6. ~Retry
  BY DEF Retry
<1> QED
  BY <1>2, <1>3, <1>4, <1>5, <1>6, Writers DEF database, rows

(* Nothing is published by a run that is not completed, everything is by   *)
(* one that is.                                                            *)
PublishedTogether ==
  /\ run.status # "completed" => Published = [p \in Payslips |-> None]
  /\ run.status = "completed" => Published \in [Payslips -> Attempts]

(* A consistent state publishes all or nothing.                            *)
LEMMA WhatIsPublished == Consistent => PublishedTogether
<1> SUFFICES ASSUME Consistent PROVE PublishedTogether
  OBVIOUS
<1> USE DEF PublishedTogether
<1>1. CASE run.status # "completed"
  BY <1>1 DEF Published, Released
<1>2. CASE run.status = "completed"
  <2>1. \A p \in Payslips : Released(p) /\ recorded[p] # None
    BY <1>2 DEF Consistent, CompletionIsWhole, Released
  <2>2. \A p \in Payslips : recorded[p] \in Attempts
    BY <2>1 DEF Consistent, TypeOK
  <2> QED
    BY <1>2, <2>1, <2>2 DEF Published
<1> QED
  BY <1>1, <1>2

(* The same, of the state after a step.                                    *)
LEMMA WhatIsPublishedNext == Consistent' => PublishedTogether'
BY WhatIsPublished, PTL

(* The initial states map to initial states.                               *)
LEMMA LifecycleInit == Init => Lifecycle!Init
<1> SUFFICES ASSUME Init PROVE Lifecycle!Init
  OBVIOUS
<1>1. run.status = "queued" /\ run.generation = 1
  BY DEF Init
<1>2. LifecycleState = "open"
  BY <1>1 DEF LifecycleState
<1>3. Published = [p \in Payslips |-> None]
  BY <1>1 DEF Published, Released
<1> QED
  BY <1>1, <1>2, <1>3 DEF Lifecycle!Init, LifecycleState, Published

(* Every step maps to a step of the life cycle or to a stutter.            *)
LEMMA LifecycleStep ==
  Consistent /\ [Next]_vars /\ Consistent' => [Lifecycle!Next]_(Lifecycle!vars)
<1> SUFFICES ASSUME Consistent, [Next]_vars, Consistent'
             PROVE  [Lifecycle!Next]_(Lifecycle!vars)
  OBVIOUS
<1>1. run.status \in RunStatus /\ run'.status \in RunStatus
  BY DEF Consistent, TypeOK, Run
<1>2. /\ run.status # "completed" => Published = [p \in Payslips |-> None]
      /\ run'.status # "completed" => Published' = [p \in Payslips |-> None]
      /\ run'.status = "completed" => Published' \in [Payslips -> Attempts]
  BY WhatIsPublished, WhatIsPublishedNext DEF PublishedTogether
<1>3. CASE run.status = "completed"
  <2>1. UNCHANGED <<run, Published, LifecycleState>>
    BY <1>3, CompletedUnchanged DEF Published, LifecycleState, Released
  <2> QED
    BY <2>1 DEF Lifecycle!vars, Published, LifecycleState
<1>4. CASE run.status = "failed"
  <2>1. CASE run' = [run EXCEPT !.queueStatus = run'.queueStatus]
    <3>1. run'.status = "failed" /\ run'.generation = run.generation
      BY <1>4, <2>1 DEF Consistent, TypeOK, Run
    <3>2. LifecycleState' = LifecycleState /\ Published' = Published
      BY <1>2, <1>4, <3>1 DEF LifecycleState
    <3> QED
      BY <3>1, <3>2 DEF Lifecycle!vars, LifecycleState, Published
  <2>2. CASE run'.status = "queued" /\ run'.generation = run.generation + 1
    <3>1. LifecycleState = "failed" /\ LifecycleState' = "open" /\ Published' = Published
      BY <1>2, <1>4, <2>2 DEF LifecycleState
    <3>2. Lifecycle!Retry
      BY <2>2, <3>1 DEF Lifecycle!Retry, LifecycleState, Published
    <3> QED
      BY <3>2 DEF Lifecycle!Next
  <2> QED
    BY <1>4, <2>1, <2>2, FailedStep
<1>5. CASE run.status \in {"queued", "processing"}
  <2>1. run'.generation = run.generation /\ LifecycleState = "open"
    BY <1>5, GenerationKept DEF LifecycleState
  <2>2. CASE run'.status = "completed"
    <3>1. LifecycleState' = "completed" /\ Published' \in [Payslips -> Attempts]
      BY <1>2, <2>2 DEF LifecycleState
    <3>2. Lifecycle!Complete
      BY <2>1, <3>1 DEF Lifecycle!Complete, LifecycleState, Published
    <3> QED
      BY <3>2 DEF Lifecycle!Next
  <2>3. CASE run'.status = "failed"
    <3>1. LifecycleState' = "failed" /\ Published' = Published
      BY <1>2, <1>5, <2>3 DEF LifecycleState
    <3>2. Lifecycle!Fail
      BY <2>1, <3>1 DEF Lifecycle!Fail, LifecycleState, Published
    <3> QED
      BY <3>2 DEF Lifecycle!Next
  <2>4. CASE run'.status \in {"queued", "processing"}
    <3>1. LifecycleState' = LifecycleState /\ Published' = Published
      BY <1>2, <1>5, <2>4 DEF LifecycleState
    <3> QED
      BY <2>1, <3>1 DEF Lifecycle!vars, LifecycleState, Published
  <2> QED
    BY <1>1, <2>2, <2>3, <2>4 DEF RunStatus
<1> QED
  BY <1>1, <1>3, <1>4, <1>5 DEF RunStatus

(* The processing of a run implements the life cycle it promises.          *)
THEOREM LifecycleImplemented == Spec => ImplementsLifecycle
BY LifecycleInit, LifecycleStep, AlwaysConsistent, PTL
   DEF Spec, ImplementsLifecycle, Lifecycle!Spec

-----------------------------------------------------------------------------
(***************************************************************************)
(* The documents of a completed run, as long as executions do not overlap. *)
(*                                                                         *)
(* An execution that works on the rows has recorded and stored its own     *)
(* documents for all rows before the one it is at.  No other takes them    *)
(* away, and the run is not completed while it works; so when it finalizes *)
(* the run, every row and every object are of its attempt.                 *)
(***************************************************************************)
(* Executions do not overlap.                                              *)
Serial == \A v, w \in Workers : worker[v].step # "idle" /\ worker[w].step # "idle" => v = w

(* The steps between the claim and the end of finalizeRun.                 *)
Working == {"read", "upload", "verify", "record", "discard", "renew", "finalize"}
Done(w, p) == recorded[p] = worker[w].attempt /\ object[p] = worker[w].attempt
Progress(w) ==
  /\ worker[w].step \in Working => run.status # "completed"
  /\ worker[w].step \in {"upload", "verify", "record"} =>
       \A p \in Payslips : p < worker[w].row => Done(w, p)
  /\ worker[w].step = "record" => object[worker[w].row] = worker[w].attempt
  /\ worker[w].step = "renew" => \A p \in Payslips : p <= worker[w].row => Done(w, p)
  /\ worker[w].step = "finalize" => \A p \in Payslips : Done(w, p)
SerialInv ==
  /\ \A w \in Workers : Progress(w)
  /\ CompletedPayslipsIntact
  /\ CompletedPayslipsOfOneAttempt

(* Only finalizeRun completes a run.                                       *)
LEMMA OnlyFinalizeCompletes ==
  ASSUME Consistent, [Next]_vars, run.status # "completed", run'.status = "completed"
  PROVE  \E w \in Workers : Finalize(w)
<1>1. run \in Run
  BY DEF Consistent, TypeOK
<1>2. UNCHANGED database => run' = run
  BY DEF database, rows
<1>3. ASSUME NEW s \in submissions, MarkSubmitted(s) \/ MarkSubmissionFailed(s) PROVE FALSE
  BY <1>1, <1>3 DEF MarkSubmitted, MarkSubmissionFailed, Run
<1>4. ASSUME NEW w \in Workers, Claim(w) \/ RecordPayslip(w) \/ MarkAttempt(w) PROVE FALSE
  BY <1>1, <1>4 DEF Claim, RecordPayslip, MarkAttempt, rows, Run
<1>5. ASSUME NEW w \in Workers, RenewLease(w) \/ ReleaseLease(w) PROVE FALSE
  <2>1. \/ run' = run
        \/ run' = [run EXCEPT !.leased = TRUE, !.age = 0]
        \/ run' = [run EXCEPT !.leaseOwner = Nobody, !.leased = FALSE]
    BY <1>5 DEF RenewLease, ReleaseLease
  <2> QED BY <1>1, <2>1 DEF Run
<1>6. ASSUME NEW g \in failures, FailRun(g) PROVE FALSE
  BY <1>1, <1>6 DEF FailRun, rows, Run
<1>7. ~Recover /\ ~Retry
  <2>1. ~Recover
    BY <1>1 DEF Recover, Run
  <2>2. ~Retry
    <3>1. Retry => run'.status = "queued"
      BY DEF Retry
    <3> QED BY <3>1
  <2> QED BY <2>1, <2>2
<1>8. ~TimePasses
  BY <1>1 DEF TimePasses, Run
<1> QED
  BY <1>2, <1>3, <1>4, <1>5, <1>6, <1>7, <1>8, Writers

(* A completed run stays as it is as long as its objects do.               *)
LEMMA CompletedRests ==
  ASSUME Consistent, SerialInv, [Next]_vars, UNCHANGED <<recorded, object>>,
         \A w \in Workers : ~Finalize(w)
  PROVE  CompletedPayslipsIntact' /\ CompletedPayslipsOfOneAttempt'
<1>1. run'.status = "completed" => run.status = "completed" /\ run' = run
  BY OnlyFinalizeCompletes, CompletedUnchanged
<1> QED
  BY <1>1 DEF SerialInv, CompletedPayslipsIntact, CompletedPayslipsOfOneAttempt

(* An execution stays where it is, or leaves the rows alone from now on.   *)
LEMMA ProgressRests ==
  ASSUME Consistent, SerialInv, [Next]_vars, UNCHANGED <<recorded, object>>,
         \A w \in Workers : ~Finalize(w), NEW v \in Workers,
         \/ worker'[v].step \notin Working
         \/ /\ worker'[v].step = worker[v].step /\ worker'[v].attempt = worker[v].attempt
            /\ worker'[v].row = worker[v].row
  PROVE  Progress(v)'
<1>1. run'.status = "completed" => run.status = "completed"
  BY OnlyFinalizeCompletes
<1>2. CASE worker'[v].step \notin Working
  BY <1>2 DEF Progress, Working
<1>3. CASE /\ worker'[v].step = worker[v].step /\ worker'[v].attempt = worker[v].attempt
           /\ worker'[v].row = worker[v].row
  <2>1. Progress(v)
    BY DEF SerialInv
  <2> QED BY <1>1, <1>3, <2>1 DEF Progress, Done
<1> QED BY <1>2, <1>3

(* A step that does not move an execution on along the rows.               *)
LEMMA SerialRests ==
  ASSUME Consistent, SerialInv, [Next]_vars, UNCHANGED <<recorded, object>>,
         \A w \in Workers : ~Finalize(w),
         \A v \in Workers :
           \/ worker'[v].step \notin Working
           \/ /\ worker'[v].step = worker[v].step /\ worker'[v].attempt = worker[v].attempt
              /\ worker'[v].row = worker[v].row
  PROVE  SerialInv'
<1>1. \A v \in Workers : Progress(v)'
  BY ProgressRests
<1> QED BY <1>1, CompletedRests DEF SerialInv

(* A step of the only execution: the others are idle, and the run is not   *)
(* completed.                                                              *)
LEMMA AloneAtWork ==
  ASSUME Consistent, Serial, NEW w \in Workers, worker[w].step # "idle",
         \A v \in Workers : v # w => worker'[v] = worker[v],
         Progress(w)', run'.status # "completed"
  PROVE  SerialInv'
<1>1. ASSUME NEW v \in Workers, v # w PROVE Progress(v)'
  <2>1. worker'[v].step = "idle"
    BY <1>1 DEF Serial
  <2> QED BY <2>1 DEF Progress, Working
<1> QED
  BY <1>1 DEF SerialInv, CompletedPayslipsIntact, CompletedPayslipsOfOneAttempt

(* A worker that is moved on, and the others that are not.                 *)
LEMMA Moves ==
  ASSUME worker \in [Workers -> Worker], NEW w \in Workers, NEW from, NEW to, Step(w, from, to)
  PROVE  /\ worker[w].step = from /\ worker'[w].step = to
         /\ worker'[w].attempt = worker[w].attempt /\ worker'[w].row = worker[w].row
         /\ \A v \in Workers : v # w => worker'[v] = worker[v]
  BY DEF Step, Worker

(* A step that ends or interrupts the work of an execution.                *)
LEMMA Interrupts ==
  ASSUME Consistent, NEW w \in Workers,
         \/ CallWorker(w) \/ WorkerCrashes(w) \/ ClaimIgnored(w) \/ ClaimRefused(w)
         \/ ReadFails(w) \/ FinalizeRefused(w) \/ MarkAttempt(w) \/ ReleaseLease(w) \/ Answer(w)
  PROVE  /\ UNCHANGED <<recorded, object>> /\ worker'[w].step \notin Working
         /\ \A v \in Workers : v # w => worker'[v] = worker[v]
<1>1. worker \in [Workers -> Worker]
  BY DEF Consistent, TypeOK
<1>2. ASSUME NEW from, NEW to \in {"markAttempt", "release", "return", "throw"}, Step(w, from, to)
      PROVE  /\ worker'[w].step \notin Working
             /\ \A v \in Workers : v # w => worker'[v] = worker[v]
  BY <1>1, <1>2, Moves DEF Working
<1>3. CASE ClaimIgnored(w) \/ ClaimRefused(w) \/ ReadFails(w) \/ FinalizeRefused(w)
  BY <1>2, <1>3 DEF ClaimIgnored, ClaimRefused, ReadFails, FinalizeRefused, database
<1>4. CASE MarkAttempt(w) \/ ReleaseLease(w)
  BY <1>2, <1>4 DEF MarkAttempt, ReleaseLease
<1>5. CASE WorkerCrashes(w) \/ Answer(w)
  <2>1. worker' = [worker EXCEPT ![w] = Idle] /\ UNCHANGED <<recorded, object>>
    BY <1>5 DEF WorkerCrashes, Answer, database
  <2> QED BY <1>1, <2>1 DEF Idle, Working
<1>6. CASE CallWorker(w)
  <2>1. /\ worker'[w].step = "claim" /\ UNCHANGED <<recorded, object>>
        /\ \A v \in Workers : v # w => worker'[v] = worker[v]
    BY <1>1, <1>6 DEF CallWorker, database, Idle
  <2> QED BY <2>1 DEF Working
<1> QED BY <1>3, <1>4, <1>5, <1>6

(* The steps along the rows.                                               *)
LEMMA SerialWork ==
  ASSUME Consistent, Serial, SerialInv, [Next]_vars, NEW w \in Workers,
         ReadRows(w) \/ Upload(w) \/ VerifyUpload(w) \/ RecordPayslip(w) \/ Discard(w)
  PROVE  SerialInv'
<1>1. /\ worker \in [Workers -> Worker] /\ recorded \in [Payslips -> Attempts \cup {None}]
      /\ object \in [Payslips -> Attempts \cup {None}] /\ worker[w].row \in Payslips
      /\ worker[w].attempt \in Attempts \cup {None}
      /\ NumPayslips \in Nat \ {0}
  BY ConstantsAssumption DEF Consistent, TypeOK, Worker
<1>2. Progress(w)
  BY DEF SerialInv
<1>3. worker[w].step \in Working /\ worker[w].step # "idle"
  BY DEF ReadRows, Upload, VerifyUpload, RecordPayslip, Discard, Step, Working
<1>4. run.status # "completed" /\ run' = run
  BY <1>2, <1>3 DEF Progress, ReadRows, Upload, VerifyUpload, RecordPayslip, Discard, database, rows
<1>5. payslip.status # "generated"
  BY <1>4 DEF Consistent, CompletionIsWhole
<1>6. \A p \in Payslips : p \in Nat /\ 1 <= p
  BY DEF Payslips
<1>7. CASE ReadRows(w)
  <2>1. /\ worker'[w].step = "upload" /\ worker'[w].row = 1
        /\ \A v \in Workers : v # w => worker'[v] = worker[v]
    BY <1>1, <1>5, <1>7 DEF ReadRows, PayslipsFrozen, Worker
  <2>2. Progress(w)'
    BY <1>4, <1>6, <2>1 DEF Progress
  <2> QED BY <1>3, <1>4, <2>1, <2>2, AloneAtWork
<1>8. CASE Upload(w)
  <2>1. /\ worker[w].step = "upload" /\ worker'[w].step \in {"verify", "discard"}
        /\ worker'[w].attempt = worker[w].attempt /\ worker'[w].row = worker[w].row
        /\ \A v \in Workers : v # w => worker'[v] = worker[v]
    BY <1>1, <1>8, Moves DEF Upload
  <2>2. recorded' = recorded /\ \A p \in Payslips : p # worker[w].row => object'[p] = object[p]
    BY <1>1, <1>8 DEF Upload, database
  <2>3. Progress(w)'
    BY <1>1, <1>2, <1>4, <1>6, <2>1, <2>2 DEF Progress, Done
  <2> QED BY <1>3, <1>4, <2>1, <2>3, AloneAtWork
<1>9. CASE VerifyUpload(w)
  <2>1. /\ worker[w].step = "verify" /\ worker'[w].step \in {"record", "discard"}
        /\ worker'[w].attempt = worker[w].attempt /\ worker'[w].row = worker[w].row
        /\ \A v \in Workers : v # w => worker'[v] = worker[v]
        /\ worker'[w].step = "record" => object[worker[w].row] = worker[w].attempt
    BY <1>1, <1>9, Moves DEF VerifyUpload
  <2>2. recorded' = recorded /\ object' = object
    BY <1>9 DEF VerifyUpload, database
  <2>3. Progress(w)'
    BY <1>2, <1>4, <2>1, <2>2 DEF Progress, Done
  <2> QED BY <1>3, <1>4, <2>1, <2>3, AloneAtWork
<1>10. CASE RecordPayslip(w)
  <2> DEFINE p == worker[w].row
  <2>0. worker[w].step = "record"
    BY <1>10 DEF RecordPayslip
  <2>1. CASE /\ recorded' = [recorded EXCEPT ![p] = worker[w].attempt]
             /\ \/ /\ worker' = [worker EXCEPT ![w].step = "renew", ![w].row = p]
                \/ /\ p # NumPayslips
                   /\ worker' = [worker EXCEPT ![w].step = "upload", ![w].row = p + 1]
    <3>1. object' = object
      BY <1>10 DEF RecordPayslip
    <3>2. \A q \in Payslips :
            q <= p => recorded'[q] = worker[w].attempt /\ object'[q] = worker[w].attempt
      BY <1>1, <1>2, <1>6, <2>0, <2>1, <3>1 DEF Progress, Done
    <3>3. /\ worker'[w].attempt = worker[w].attempt
          /\ \/ worker'[w].step = "renew" /\ worker'[w].row = p
             \/ worker'[w].step = "upload" /\ worker'[w].row = p + 1
          /\ \A v \in Workers : v # w => worker'[v] = worker[v]
      BY <1>1, <2>1 DEF Worker
    <3>4. Progress(w)'
      BY <1>1, <1>4, <1>6, <3>2, <3>3 DEF Progress, Done
    <3> QED BY <1>3, <1>4, <3>3, <3>4, AloneAtWork
  <2>2. CASE worker' = [worker EXCEPT ![w].step = "discard"]
    <3>1. /\ worker'[w].step = "discard" /\ \A v \in Workers : v # w => worker'[v] = worker[v]
      BY <1>1, <2>2 DEF Worker
    <3>2. Progress(w)'
      BY <1>4, <3>1 DEF Progress
    <3> QED BY <1>3, <1>4, <3>1, <3>2, AloneAtWork
  <2> QED BY <1>5, <1>10, <2>1, <2>2 DEF RecordPayslip, PayslipsFrozen
<1>11. CASE Discard(w)
  <2>1. /\ worker'[w].step = "markAttempt" /\ \A v \in Workers : v # w => worker'[v] = worker[v]
    BY <1>1, <1>11, Moves DEF Discard
  <2>2. Progress(w)'
    BY <2>1 DEF Progress, Working
  <2> QED BY <1>3, <1>4, <2>1, <2>2, AloneAtWork
<1> QED BY <1>7, <1>8, <1>9, <1>10, <1>11

(* The renewal between batches, after which the next row or finalizeRun    *)
(* comes.                                                                  *)
LEMMA SerialRenew ==
  ASSUME Consistent, Serial, SerialInv, [Next]_vars, NEW w \in Workers, RenewLease(w)
  PROVE  SerialInv'
<1>1. /\ worker \in [Workers -> Worker] /\ worker[w].row \in Payslips /\ run \in Run
      /\ NumPayslips \in Nat \ {0}
  BY ConstantsAssumption DEF Consistent, TypeOK, Worker
<1>2. Progress(w) /\ worker[w].step = "renew"
  BY DEF SerialInv, RenewLease
<1>3. recorded' = recorded /\ object' = object
  BY DEF RenewLease
<1>4. run'.status # "completed"
  <2>1. run' = run \/ run' = [run EXCEPT !.leased = TRUE, !.age = 0]
    BY DEF RenewLease
  <2> QED BY <1>1, <1>2, <2>1 DEF Progress, Working, Run
<1>5. \A p \in Payslips : p \in Nat /\ 1 <= p /\ p <= NumPayslips
  BY <1>1 DEF Payslips
<1>6. CASE worker[w].row = NumPayslips /\
           worker' = [worker EXCEPT ![w].step = "finalize", ![w].row = worker[w].row]
  <2>1. /\ worker'[w].step = "finalize" /\ worker'[w].attempt = worker[w].attempt
        /\ \A v \in Workers : v # w => worker'[v] = worker[v]
    BY <1>1, <1>6 DEF Worker
  <2>2. Progress(w)'
    BY <1>2, <1>3, <1>4, <1>5, <1>6, <2>1 DEF Progress, Done
  <2> QED BY <1>2, <1>4, <2>1, <2>2, AloneAtWork
<1>7. CASE worker' = [worker EXCEPT ![w].step = "upload", ![w].row = worker[w].row + 1]
  <2>1. /\ worker'[w].step = "upload" /\ worker'[w].attempt = worker[w].attempt
        /\ worker'[w].row = worker[w].row + 1
        /\ \A v \in Workers : v # w => worker'[v] = worker[v]
    BY <1>1, <1>7 DEF Worker
  <2>2. Progress(w)'
    BY <1>1, <1>2, <1>3, <1>4, <1>5, <2>1 DEF Progress, Done
  <2> QED BY <1>2, <1>4, <2>1, <2>2, AloneAtWork
<1>8. CASE worker' = [worker EXCEPT ![w].step = "markAttempt"]
  <2>1. worker'[w].step = "markAttempt" /\ \A v \in Workers : v # w => worker'[v] = worker[v]
    BY <1>1, <1>8 DEF Worker
  <2>2. Progress(w)'
    BY <2>1 DEF Progress, Working
  <2> QED BY <1>2, <1>4, <2>1, <2>2, AloneAtWork
<1> QED BY <1>6, <1>7, <1>8 DEF RenewLease

(* The claim makes it a run in processing.                                 *)
LEMMA SerialClaim ==
  ASSUME Consistent, Serial, SerialInv, [Next]_vars, NEW w \in Workers, Claim(w)
  PROVE  SerialInv'
<1>1. worker \in [Workers -> Worker] /\ run \in Run
  BY DEF Consistent, TypeOK
<1>2. run'.status = "processing"
  BY <1>1 DEF Claim, Run
<1>3. /\ worker'[w].step \in {"read", "throw"} /\ worker[w].step = "claim"
      /\ \A v \in Workers : v # w => worker'[v] = worker[v]
  BY <1>1 DEF Claim, Worker
<1>4. Progress(w)'
  BY <1>2, <1>3 DEF Progress
<1> QED BY <1>2, <1>3, <1>4, AloneAtWork
(* When the run is finalized, all its rows are of this attempt.            *)
LEMMA SerialFinalize ==
  ASSUME Consistent, Serial, SerialInv, [Next]_vars, NEW w \in Workers, Finalize(w)
  PROVE  SerialInv'
<1>1. worker \in [Workers -> Worker] /\ run \in Run /\ 1 \in Payslips
  BY ConstantsAssumption DEF Consistent, TypeOK, Payslips
<1>2. \A p \in Payslips : recorded[p] = worker[w].attempt /\ object[p] = worker[w].attempt
  BY DEF SerialInv, Progress, Done, Finalize
<1>3. recorded' = recorded /\ object' = object
  BY DEF Finalize
<1>4. worker[w].attempt[1] = run.generation /\ run'.generation = run.generation
  BY <1>1, FinalizerHoldsLease DEF Finalize, Run
<1>5. CompletedPayslipsIntact' /\ CompletedPayslipsOfOneAttempt'
  BY <1>1, <1>2, <1>3, <1>4 DEF CompletedPayslipsIntact, CompletedPayslipsOfOneAttempt
<1>6. /\ worker'[w].step \in {"return", "markAttempt"} /\ worker[w].step = "finalize"
      /\ \A v \in Workers : v # w => worker'[v] = worker[v]
  BY <1>1 DEF Finalize, Worker
<1>7. ASSUME NEW v \in Workers PROVE worker'[v].step \notin Working
  BY <1>6 DEF Serial, Working
<1>8. \A v \in Workers : Progress(v)'
  BY <1>7 DEF Progress, Working
<1> QED BY <1>5, <1>8 DEF SerialInv

(* Every step of executions that do not overlap keeps it.                  *)
LEMMA SerialStep == Consistent /\ Serial /\ SerialInv /\ [Next]_vars => SerialInv'
<1> SUFFICES ASSUME Consistent, Serial, SerialInv, [Next]_vars PROVE SerialInv'
  OBVIOUS
<1>1. CASE \E w \in Workers : Finalize(w)
  BY <1>1, SerialFinalize
<1>2. ASSUME \A w \in Workers : ~Finalize(w), UNCHANGED <<recorded, object>>,
             \A v \in Workers :
               \/ worker'[v].step \notin Working
               \/ /\ worker'[v].step = worker[v].step /\ worker'[v].attempt = worker[v].attempt
                  /\ worker'[v].row = worker[v].row
      PROVE  SerialInv'
  BY <1>2, SerialRests
<1>3. CASE \A w \in Workers : ~Finalize(w)
  <2>1. ASSUME UNCHANGED <<recorded, object, worker>> PROVE SerialInv'
    BY <1>2, <1>3, <2>1
  <2>2. ASSUME NEW w \in Workers,
               \/ CallWorker(w) \/ WorkerCrashes(w) \/ ClaimIgnored(w) \/ ClaimRefused(w)
               \/ ReadFails(w) \/ FinalizeRefused(w) \/ MarkAttempt(w) \/ ReleaseLease(w)
               \/ Answer(w)
        PROVE  SerialInv'
    <3>1. /\ UNCHANGED <<recorded, object>> /\ worker'[w].step \notin Working
          /\ \A v \in Workers : v # w => worker'[v] = worker[v]
      BY <2>2, Interrupts
    <3>2. \A v \in Workers :
            \/ worker'[v].step \notin Working
            \/ /\ worker'[v].step = worker[v].step /\ worker'[v].attempt = worker[v].attempt
               /\ worker'[v].row = worker[v].row
      BY <3>1
    <3> QED BY <1>2, <1>3, <3>1, <3>2
  <2>3. CASE \E w \in Workers : CallWorker(w) \/ WorkerStep(w) \/ WorkerCrashes(w)
    BY <1>3, <2>2, <2>3, SerialWork, SerialRenew, SerialClaim DEF WorkerStep
  <2>4. CASE \E s \in submissions : SubmissionStep(s) \/ SubmitterCrashes(s)
    BY <2>1, <2>4 DEF SubmissionStep, SubmitterCrashes, Send, MarkSubmitted,
                      MarkSubmissionFailed, database
  <2>5. CASE \E g \in failures : FailRun(g) \/ GiveUpFailing(g)
    BY <2>1, <2>5 DEF FailRun, GiveUpFailing, database
  <2>6. CASE CallTimesOut
    <3>1. UNCHANGED <<recorded, object>>
      BY <2>6 DEF CallTimesOut, database
    <3>2. worker \in [Workers -> Worker]
      BY DEF Consistent, TypeOK
    <3>3. \A v \in Workers : /\ worker'[v].step = worker[v].step
                             /\ worker'[v].attempt = worker[v].attempt
                             /\ worker'[v].row = worker[v].row
      BY <2>6, <3>2 DEF CallTimesOut, Worker
    <3> QED BY <1>2, <1>3, <3>1, <3>3
  <2>7. CASE Resubmit \/ Recover \/ Retry \/ TimePasses \/ OrganizationToggles
    BY <2>1, <2>7 DEF Resubmit, Recover, Retry, TimePasses, OrganizationToggles, database
  <2>8. CASE UNCHANGED vars
    BY <2>1, <2>8 DEF vars
  <2> QED BY <2>3, <2>4, <2>5, <2>6, <2>7, <2>8 DEF Next
<1> QED BY <1>1, <1>3

(* At the start nothing is at work, and nothing is completed.              *)
LEMMA SerialInit == Init => SerialInv
  BY DEF Init, SerialInv, Progress, Working, Idle, CompletedPayslipsIntact,
         CompletedPayslipsOfOneAttempt

(* As long as executions do not overlap, the bucket holds for every        *)
(* payslip of a completed run the bytes whose hash was recorded, whatever  *)
(* else crashes, times out or fails.                                       *)
THEOREM SerialIntact == Spec /\ []Serial => []CompletedPayslipsIntact
<1>1. SerialInv => CompletedPayslipsIntact
  BY DEF SerialInv
<1> QED
  BY <1>1, SerialInit, SerialStep, AlwaysConsistent, PTL DEF Spec

(* And all of them come from one attempt, of the generation that           *)
(* completed.                                                              *)
THEOREM SerialOfOneAttempt == Spec /\ []Serial => []CompletedPayslipsOfOneAttempt
<1>1. SerialInv => CompletedPayslipsOfOneAttempt
  BY DEF SerialInv
<1> QED
  BY <1>1, SerialInit, SerialStep, AlwaysConsistent, PTL DEF Spec

(* So none of them is taken away again: what violates                      *)
(* CompletedPayslipsStored is an overlap of two executions.                *)
THEOREM SerialStored == Spec /\ []Serial => []CompletedPayslipsStored
<1>1. CompletionIsWhole /\ CompletedPayslipsIntact => CompletedPayslipsStored
  BY DEF CompletionIsWhole, CompletedPayslipsIntact, CompletedPayslipsStored, Released
<1> QED
  BY <1>1, AlwaysWhole, SerialIntact, PTL

(* When Inngest gives up on no call whose execution is alive, executions   *)
(* do not overlap: it waits for each until it has answered or is dead.     *)
Attended ==
  /\ Serial
  /\ \A w \in Workers :
       worker[w].step # "idle" => worker[w].awaited /\ job.phase = "calling"

(* Any statement of an execution leaves it attended, and the others alone. *)
LEMMA AttendedWork ==
  ASSUME TypeOK, Attended, NEW w \in Workers, WorkerStep(w) \/ WorkerCrashes(w)
  PROVE  Attended'
<1>1. worker \in [Workers -> Worker] /\ worker[w].step # "idle"
  BY DEF TypeOK, WorkerStep, WorkerCrashes, ClaimIgnored, ClaimRefused, Claim, ReadRows,
         ReadFails, Upload, VerifyUpload, RecordPayslip, Discard, RenewLease, Finalize,
         FinalizeRefused, MarkAttempt, ReleaseLease, Answer, Step
<1>2. \A v \in Workers \ {w} : worker[v].step = "idle"
  BY <1>1 DEF Attended, Serial
<1>3. \A v \in Workers \ {w} : worker'[v] = worker[v]
  BY <1>1 DEF WorkerStep, WorkerCrashes, ClaimIgnored, ClaimRefused, Claim, ReadRows,
         ReadFails, Upload, VerifyUpload, RecordPayslip, Discard, RenewLease, Finalize,
         FinalizeRefused, MarkAttempt, ReleaseLease, Answer, Step
<1>4. \/ worker'[w] = Idle
      \/ worker'[w].awaited = worker[w].awaited /\ job' = job
  <2>1. CASE Answer(w) \/ WorkerCrashes(w)
    BY <1>1, <2>1 DEF Answer, WorkerCrashes
  <2>2. CASE ClaimIgnored(w) \/ ClaimRefused(w) \/ ReadRows(w) \/ ReadFails(w)
    BY <1>1, <2>2 DEF ClaimIgnored, ClaimRefused, ReadRows, ReadFails, Step, inngest, Worker
  <2>5. CASE Claim(w)
    <3>1. /\ job' = job
          /\ \/ worker' = [worker EXCEPT ![w].step = "throw"]
             \/ \E a : worker' = [worker EXCEPT ![w].step = "read", ![w].attempt = a]
      BY <2>5 DEF Claim, inngest
    <3> QED
      BY <1>1, <3>1 DEF Worker
  <2>3. CASE Upload(w) \/ VerifyUpload(w) \/ RecordPayslip(w) \/ Discard(w)
    BY <1>1, <2>3 DEF Upload, VerifyUpload, RecordPayslip, Discard, Step, inngest, Worker
  <2>4. CASE \/ RenewLease(w) \/ Finalize(w) \/ FinalizeRefused(w)
             \/ MarkAttempt(w) \/ ReleaseLease(w)
    BY <1>1, <2>4 DEF RenewLease, Finalize, FinalizeRefused, MarkAttempt, ReleaseLease, Step,
                      inngest, Worker
  <2> QED
    BY <2>1, <2>2, <2>3, <2>4, <2>5 DEF WorkerStep
<1> QED
  BY <1>1, <1>2, <1>3, <1>4 DEF Attended, Serial, Idle

(* No step starts a second execution beside one that Inngest waits for.    *)
LEMMA AttendedStep ==
  ASSUME "timeout" \notin Faults, TypeOK, Attended, [Next]_vars
  PROVE  Attended'
<1>1. worker \in [Workers -> Worker]
  BY DEF TypeOK
<1>2. CASE \E w \in Workers : CallWorker(w)
  BY <1>1, <1>2 DEF CallWorker, Attended, Serial, Idle
<1>3. CASE \E w \in Workers : WorkerStep(w) \/ WorkerCrashes(w)
  BY <1>3, AttendedWork
<1>4. CASE CallTimesOut
  <2>1. \A w \in Workers : worker[w].step = "idle"
    BY <1>4 DEF CallTimesOut, Attended
  <2>2. \A w \in Workers : worker'[w].step = "idle"
    BY <1>1, <1>4, <2>1 DEF CallTimesOut, Worker
  <2> QED
    BY <2>2 DEF Attended, Serial
<1>5. CASE \E s \in submissions : SubmissionStep(s) \/ SubmitterCrashes(s)
  <2>1. worker' = worker /\ (job' = job \/ job.phase = "inactive")
    BY <1>5 DEF SubmissionStep, SubmitterCrashes, Send, Deliver, MarkSubmitted,
                MarkSubmissionFailed, inngest
  <2> QED
    BY <2>1 DEF Attended, Serial
<1>6. ASSUME worker' = worker, job' = job PROVE Attended'
  BY <1>6 DEF Attended, Serial
<1>7. CASE \E g \in failures : FailRun(g) \/ GiveUpFailing(g)
  BY <1>6, <1>7 DEF FailRun, GiveUpFailing
<1>8. CASE Resubmit \/ Recover \/ Retry \/ TimePasses \/ OrganizationToggles
  BY <1>6, <1>8 DEF Resubmit, Recover, Retry, TimePasses, OrganizationToggles, inngest
<1>9. CASE UNCHANGED vars
  BY <1>6, <1>9 DEF vars
<1> QED
  BY <1>2, <1>3, <1>4, <1>5, <1>7, <1>8, <1>9 DEF Next

(* So what endangers the documents of a completed run is a call given up   *)
(* while its execution lives, and nothing else: crashes, redelivered       *)
(* events, lost answers and failures of storage and database do not.       *)
THEOREM NoTimeoutIntact ==
  ASSUME "timeout" \notin Faults
  PROVE  Spec => [](CompletedPayslipsIntact /\ CompletedPayslipsOfOneAttempt)
<1>1. Init => Attended
  BY DEF Init, Attended, Serial, Idle
<1>2. TypeOK /\ Attended /\ [Next]_vars => Attended'
  BY AttendedStep
<1>3. Attended => Serial
  BY DEF Attended
<1> QED
  BY <1>1, <1>2, <1>3, TypeCorrect, SerialIntact, SerialOfOneAttempt, PTL DEF Spec

(* With one execution of the worker at a time there is no overlap.         *)
THEOREM OneWorkerIntact ==
  ASSUME NEW w, Workers = {w}
  PROVE  Spec => [](CompletedPayslipsIntact /\ CompletedPayslipsOfOneAttempt)
<1>1. Serial
  BY DEF Serial
<1> QED
  BY <1>1, SerialIntact, SerialOfOneAttempt, PTL
-----------------------------------------------------------------------------
(***************************************************************************)
(* Runs that are abandoned.                                                *)
(***************************************************************************)
(* A retry waits until nothing of the failed generation is under way: the  *)
(* function run of the organization has ended, and so has every submission. *)
RetriesAlone ==
  run'.generation # run.generation => job.phase = "inactive" /\ submissions = {}

Open == run.status \in {"queued", "processing"}
Busy == job.phase # "inactive"

(* Nothing but the generations of the run has been submitted.              *)
SubmissionsFollow ==
  /\ \A g \in sent : g <= run.generation
  /\ \A s \in submissions : /\ s.generation = run.generation
                            /\ s.step = "mark" => s.generation \in sent
  /\ run.queueStatus = "submitted" => run.generation \in sent
  /\ run.status = "processing" => run.generation \in sent
  /\ \A w \in Workers : worker[w].step # "idle" => worker[w].generation \in sent

(* An open generation that was sent is the function run's, or its failure  *)
(* handler's.                                                              *)
JobFollows ==
  /\ Busy => job.generation = run.generation /\ job.generation \in sent
  /\ Open /\ run.generation \in sent => Busy \/ run.generation \in failures

(* An execution that Inngest waits for is the one of the function run, and *)
(* only ends well when the run is settled.                                 *)
AnswersFollow ==
  \A w \in Workers : worker[w].awaited =>
    /\ worker[w].step # "idle" /\ job.phase = "calling"
    /\ worker[w].generation = job.generation
    /\ worker[w].step = "return" => ~Open
    /\ \A v \in Workers : worker[v].awaited => v = w

RunIsFollowed == SubmissionsFollow /\ JobFollows /\ AnswersFollow

(* It holds at first. *)
LEMMA FollowedInit == Init => RunIsFollowed
BY DEF Init, Idle, RunIsFollowed, SubmissionsFollow, JobFollows, AnswersFollow, Open, Busy

(* An execution that Inngest waits for is ignored only by a settled run.   *)
LEMMA AwaitedIgnored ==
  ASSUME Consistent, RunIsFollowed, NEW w \in Workers, ClaimIgnored(w), worker[w].awaited
  PROVE  ~Open
<1>1. worker[w].generation = run.generation
  BY DEF RunIsFollowed, AnswersFollow, JobFollows, Busy
<1>2. ~HeldByAnother(w)
  BY <1>1 DEF HeldByAnother, LeaseLive, Consistent, LeaseFollowsGeneration
<1> QED
  BY <1>1, <1>2 DEF ClaimIgnored, Superseded, Open

(* What a statement of an execution does to the run and to itself.         *)
Works(w) ==
  /\ UNCHANGED <<submissions, sent, job, failures>>
  /\ \A v \in Workers \ {w} : worker'[v] = worker[v]
  /\ worker[w].step # "idle" /\ worker'[w].step # "idle"
  /\ worker'[w].generation = worker[w].generation
  /\ worker'[w].awaited = worker[w].awaited
  /\ run'.generation = run.generation /\ run'.queueStatus = run.queueStatus
  /\ Open' => Open
  /\ run'.status = "processing" =>
        run.status = "processing" \/ run.generation = worker[w].generation
  /\ worker[w].awaited /\ worker'[w].step = "return" => ~Open'

(* Every statement of the worker but its answer is of that kind.           *)
LEMMA ExecutionWorks ==
  ASSUME Consistent, RunIsFollowed, NEW w \in Workers, WorkerStep(w), ~Answer(w)
  PROVE  Works(w)
<1>0. worker \in [Workers -> Worker] /\ run \in Run
  BY DEF Consistent, TypeOK
<1>1. CASE ClaimIgnored(w)
  BY <1>0, <1>1, AwaitedIgnored
     DEF ClaimIgnored, Step, Works, database, rows, inngest, Worker, Open
<1>2. CASE ClaimRefused(w) \/ ReadRows(w) \/ ReadFails(w)
  BY <1>0, <1>2 DEF ClaimRefused, ReadRows, ReadFails, Step, Works, database, rows, inngest,
                    Worker, Open
<1>3. CASE Claim(w)
  <2>1. /\ UNCHANGED <<submissions, sent, job, failures>>
        /\ worker[w].step = "claim" /\ run.generation = worker[w].generation /\ Open
        /\ run' = [run EXCEPT !.status = "processing", !.leaseOwner = worker[w].generation,
                              !.leased = TRUE, !.age = 0]
        /\ \/ worker' = [worker EXCEPT ![w].step = "throw"]
           \/ \E a : worker' = [worker EXCEPT ![w].step = "read", ![w].attempt = a]
    BY <1>3 DEF Claim, Superseded, Open, inngest
  <2>2. /\ \A v \in Workers \ {w} : worker'[v] = worker[v]
        /\ worker'[w].step \in {"throw", "read"}
        /\ worker'[w].generation = worker[w].generation
        /\ worker'[w].awaited = worker[w].awaited
    BY <1>0, <2>1 DEF Worker
  <2>3. run'.generation = run.generation /\ run'.queueStatus = run.queueStatus
    BY <1>0, <2>1 DEF Run
  <2> QED
    BY <2>1, <2>2, <2>3 DEF Works
<1>4. CASE Upload(w) \/ VerifyUpload(w) \/ RecordPayslip(w) \/ Discard(w)
  BY <1>0, <1>4 DEF Upload, VerifyUpload, RecordPayslip, Discard, Step, Works, database, rows,
                    inngest, Worker, Open
<1>5. CASE RenewLease(w)
  <2>1. /\ UNCHANGED <<submissions, sent, job, failures>>
        /\ worker[w].step = "renew"
        /\ run' = run \/ run' = [run EXCEPT !.leased = TRUE, !.age = 0]
    BY <1>5 DEF RenewLease, inngest
  <2>2. /\ \A v \in Workers \ {w} : worker'[v] = worker[v]
        /\ worker'[w].step \in {"finalize", "upload", "markAttempt"}
        /\ worker'[w].generation = worker[w].generation
        /\ worker'[w].awaited = worker[w].awaited
    BY <1>0, <1>5 DEF RenewLease, Worker
  <2>3. /\ run'.generation = run.generation /\ run'.queueStatus = run.queueStatus
        /\ run'.status = run.status
    BY <1>0, <2>1 DEF Run
  <2> QED
    BY <2>1, <2>2, <2>3 DEF Works, Open
<1>6. CASE Finalize(w)
  <2>1. /\ UNCHANGED <<submissions, sent, job, failures>>
        /\ worker[w].step = "finalize"
        /\ run' = [run EXCEPT !.status = "completed", !.leaseOwner = Nobody,
                              !.leased = FALSE, !.age = 0]
    BY <1>6 DEF Finalize, inngest
  <2>2. /\ \A v \in Workers \ {w} : worker'[v] = worker[v]
        /\ worker'[w].step \in {"return", "markAttempt"}
        /\ worker'[w].generation = worker[w].generation
        /\ worker'[w].awaited = worker[w].awaited
    BY <1>0, <1>6 DEF Finalize, Worker
  <2>3. /\ run'.generation = run.generation /\ run'.queueStatus = run.queueStatus
        /\ run'.status = "completed"
    BY <1>0, <2>1 DEF Run
  <2> QED
    BY <2>1, <2>2, <2>3 DEF Works, Open
<1>7. CASE FinalizeRefused(w) \/ MarkAttempt(w)
  BY <1>0, <1>7 DEF FinalizeRefused, MarkAttempt, Step, Works, database, rows, inngest,
                    Worker, Open
<1>8. CASE ReleaseLease(w)
  <2>1. /\ UNCHANGED <<submissions, sent, job, failures>>
        /\ Step(w, "release", "throw")
        /\ run' = run \/ run' = [run EXCEPT !.leaseOwner = Nobody, !.leased = FALSE]
    BY <1>8 DEF ReleaseLease, inngest
  <2>2. /\ \A v \in Workers \ {w} : worker'[v] = worker[v]
        /\ worker[w].step # "idle" /\ worker'[w].step = "throw"
        /\ worker'[w].generation = worker[w].generation
        /\ worker'[w].awaited = worker[w].awaited
    BY <1>0, <2>1 DEF Step, Worker
  <2>3. /\ run'.generation = run.generation /\ run'.queueStatus = run.queueStatus
        /\ run'.status = run.status
    BY <1>0, <2>1 DEF Run
  <2> QED
    BY <2>1, <2>2, <2>3 DEF Works, Open
<1> QED
  BY <1>1, <1>2, <1>3, <1>4, <1>5, <1>6, <1>7, <1>8 DEF WorkerStep

(* Such a statement leaves the run followed.                               *)
LEMMA WorkFollows ==
  ASSUME RunIsFollowed, NEW w \in Workers, Works(w)
  PROVE  RunIsFollowed'
<1>1. SubmissionsFollow'
  BY DEF RunIsFollowed, SubmissionsFollow, Works
<1>2. JobFollows'
  BY DEF RunIsFollowed, JobFollows, Works, Busy
<1>3. AnswersFollow'
  BY DEF RunIsFollowed, AnswersFollow, Works
<1> QED
  BY <1>1, <1>2, <1>3 DEF RunIsFollowed

(* A submission delivers the run's generation, and notes that it has.      *)
LEMMA SubmissionFollows ==
  ASSUME TypeOK, RunIsFollowed, NEW s \in submissions, SubmissionStep(s) \/ SubmitterCrashes(s)
  PROVE  RunIsFollowed'
<1>0. /\ run \in Run /\ submissions \subseteq Submission
      /\ s.generation = run.generation /\ run.generation \in Int
  BY DEF TypeOK, RunIsFollowed, SubmissionsFollow, Run, Generations
<1>1. CASE Send(s)
  <2>1. \/ Deliver(run.generation) /\ MoveSubmission(s, "mark")
        \/ Deliver(run.generation) /\ MoveSubmission(s, "markFailed")
        \/ UNCHANGED inngest /\ MoveSubmission(s, "markFailed")
    BY <1>0, <1>1 DEF Send
  <2>2. run' = run /\ worker' = worker
    BY <1>1 DEF Send, database, rows
  <2>3. /\ failures' = failures /\ sent \subseteq sent'
        /\ sent' \subseteq sent \cup {run.generation}
        /\ job' = job \/ /\ job.phase = "inactive" /\ job'.phase = "ready"
                         /\ job'.generation = run.generation /\ run.generation \in sent'
        /\ run.generation \in sent' =>
              run.generation \in sent \/ job'.phase # "inactive"
    BY <2>1 DEF Deliver, inngest
  <2>4. \A x \in submissions' : \/ x \in submissions
                                \/ /\ x.generation = run.generation
                                   /\ x.step = "mark" => run.generation \in sent'
    BY <1>0, <2>1 DEF MoveSubmission, Deliver, Submission
  <2>5. SubmissionsFollow'
    BY <1>0, <2>2, <2>3, <2>4 DEF RunIsFollowed, SubmissionsFollow
  <2>6. JobFollows'
    BY <2>2, <2>3 DEF RunIsFollowed, JobFollows, Open, Busy
  <2>7. AnswersFollow'
    BY <2>2, <2>3 DEF RunIsFollowed, AnswersFollow, Open
  <2> QED
    BY <2>5, <2>6, <2>7 DEF RunIsFollowed
<1>2. CASE MarkSubmitted(s) \/ MarkSubmissionFailed(s) \/ SubmitterCrashes(s)
  <2>1. UNCHANGED <<sent, job, failures, worker>>
    BY <1>2 DEF MarkSubmitted, MarkSubmissionFailed, SubmitterCrashes, inngest
  <2>2. /\ run'.generation = run.generation /\ run'.status = run.status
        /\ run'.queueStatus = "submitted" =>
              run.queueStatus = "submitted" \/ s.step = "mark"
    BY <1>0, <1>2 DEF MarkSubmitted, MarkSubmissionFailed, SubmitterCrashes, database, rows, Run
  <2>3. \A x \in submissions' : \/ x \in submissions
                                \/ x.generation = run.generation /\ x.step # "mark"
    BY <1>0, <1>2 DEF MarkSubmitted, MarkSubmissionFailed, SubmitterCrashes, MoveSubmission,
                      Submission
  <2>4. SubmissionsFollow'
    BY <1>0, <2>1, <2>2, <2>3 DEF RunIsFollowed, SubmissionsFollow
  <2>5. JobFollows' /\ AnswersFollow'
    BY <2>1, <2>2 DEF RunIsFollowed, JobFollows, AnswersFollow, Open, Busy
  <2> QED
    BY <2>4, <2>5 DEF RunIsFollowed
<1> QED
  BY <1>1, <1>2 DEF SubmissionStep

(* When a call fails another one is made, or the failure handler.          *)
LEMMA FailedCallFollows ==
  ASSUME TypeOK, JobFollows, Busy, CallFailed, UNCHANGED <<run, sent>>
  PROVE  JobFollows'
BY DEF TypeOK, JobFollows, Busy, Open, CallFailed

(* Calls, answers, timeouts and dead executions.                           *)
LEMMA CallFollows ==
  ASSUME TypeOK, RunIsFollowed,
         \/ CallTimesOut
         \/ \E w \in Workers : CallWorker(w) \/ Answer(w) \/ WorkerCrashes(w)
  PROVE  RunIsFollowed'
<1>0. worker \in [Workers -> Worker]
  BY DEF TypeOK
<1>1. UNCHANGED <<run, sent, submissions>>
  BY DEF CallTimesOut, CallWorker, Answer, WorkerCrashes, database, rows, inngest
<1>2. CASE CallTimesOut
  <2>1. \A w \in Workers : /\ ~worker'[w].awaited /\ worker'[w].step = worker[w].step
                           /\ worker'[w].generation = worker[w].generation
    BY <1>0, <1>2 DEF CallTimesOut, Worker
  <2>2. JobFollows'
    BY <1>1, <1>2, FailedCallFollows DEF CallTimesOut, RunIsFollowed, Busy
  <2> QED
    BY <1>1, <2>1, <2>2 DEF RunIsFollowed, SubmissionsFollow, AnswersFollow
<1>3. ASSUME NEW w \in Workers, CallWorker(w) PROVE RunIsFollowed'
  <2>1. /\ \A v \in Workers \ {w} : worker'[v] = worker[v]
        /\ worker'[w].step = "claim" /\ worker'[w].generation = job.generation
        /\ job.phase = "ready" /\ job'.phase = "calling"
        /\ job'.generation = job.generation /\ failures' = failures
    BY <1>0, <1>3 DEF CallWorker, Idle, TypeOK
  <2>2. \A v \in Workers : ~worker[v].awaited
    BY <2>1 DEF RunIsFollowed, AnswersFollow
  <2>3. SubmissionsFollow'
    BY <1>1, <2>1 DEF RunIsFollowed, SubmissionsFollow, JobFollows, Busy
  <2>4. JobFollows'
    BY <1>1, <2>1 DEF RunIsFollowed, JobFollows, Busy, Open
  <2>5. AnswersFollow'
    BY <2>1, <2>2 DEF AnswersFollow
  <2> QED
    BY <2>3, <2>4, <2>5 DEF RunIsFollowed
<1>4. ASSUME NEW w \in Workers, Answer(w) \/ WorkerCrashes(w) PROVE RunIsFollowed'
  <2>1. /\ \A v \in Workers \ {w} : worker'[v] = worker[v]
        /\ worker'[w].step = "idle" /\ ~worker'[w].awaited
    BY <1>0, <1>4 DEF Answer, WorkerCrashes, Idle
  <2>2. SubmissionsFollow'
    BY <1>1, <2>1 DEF RunIsFollowed, SubmissionsFollow
  <2>3. CASE UNCHANGED <<job, failures>>
    BY <1>1, <2>1, <2>2, <2>3 DEF RunIsFollowed, JobFollows, AnswersFollow, Open, Busy
  <2>4. CASE Answer(w) /\ worker[w].awaited
    <3>1. Busy /\ \A v \in Workers : ~worker'[v].awaited
      BY <2>1, <2>4 DEF RunIsFollowed, AnswersFollow, Busy
    <3>2. JobFollows'
      <4>1. CASE worker[w].step = "return"
        <5>1. ~Open /\ job'.phase = "inactive"
          BY <2>4, <4>1 DEF Answer, RunIsFollowed, AnswersFollow, TypeOK
        <5> QED
          BY <1>1, <5>1 DEF JobFollows, Open, Busy
      <4>2. CASE worker[w].step = "throw"
        BY <1>1, <2>4, <3>1, <4>2, FailedCallFollows DEF Answer, RunIsFollowed
      <4> QED
        BY <2>4, <4>1, <4>2 DEF Answer
    <3> QED
      BY <2>2, <3>1, <3>2 DEF RunIsFollowed, AnswersFollow
  <2> QED
    BY <1>4, <2>3, <2>4 DEF Answer, WorkerCrashes, inngest
<1> QED
  BY <1>2, <1>3, <1>4

(* The failure handler settles the generation before it is gone.           *)
LEMMA FailureFollows ==
  ASSUME TypeOK, RunIsFollowed, NEW g \in failures, FailRun(g)
  PROVE  RunIsFollowed'
<1>1. /\ UNCHANGED <<submissions, sent, job, worker>>
      /\ failures \ {g} \subseteq failures'
      /\ run'.generation = run.generation /\ run'.queueStatus = run.queueStatus
      /\ run'.status # run.status => run'.status = "failed"
      /\ g = run.generation => run'.status \in {"failed", "completed"}
  BY DEF FailRun, TypeOK, Run, rows
<1>2. SubmissionsFollow'
  BY <1>1 DEF RunIsFollowed, SubmissionsFollow
<1>3. JobFollows'
  BY <1>1 DEF RunIsFollowed, JobFollows, Open, Busy
<1>4. AnswersFollow'
  BY <1>1 DEF RunIsFollowed, AnswersFollow, Open
<1> QED
  BY <1>2, <1>3, <1>4 DEF RunIsFollowed

(* An administrator retries alone; the rest touches nothing but the run.   *)
LEMMA ControlFollows ==
  ASSUME TypeOK, RunIsFollowed, RetriesAlone,
         Resubmit \/ Recover \/ Retry \/ TimePasses \/ OrganizationToggles
  PROVE  RunIsFollowed'
<1>0. run \in Run /\ run.generation \in Int
  BY DEF TypeOK, Run, Generations
<1>1. UNCHANGED <<sent, job, failures, worker>>
  BY DEF Resubmit, Recover, Retry, TimePasses, OrganizationToggles, inngest
<1>2. CASE Resubmit
  <2>1. run' = run /\ submissions' =
                        submissions \cup {[generation |-> run.generation, step |-> "send"]}
    BY <1>2 DEF Resubmit, BeginSubmission, database, rows
  <2> QED
    BY <1>1, <2>1 DEF RunIsFollowed, SubmissionsFollow, JobFollows, AnswersFollow, Open, Busy
<1>3. CASE Recover \/ TimePasses \/ OrganizationToggles
  <2>1. /\ submissions' = submissions
        /\ run'.generation = run.generation /\ run'.queueStatus = run.queueStatus
        /\ run'.status # run.status => run'.status = "failed"
    BY <1>0, <1>3 DEF Recover, TimePasses, OrganizationToggles, database, rows, Run
  <2> QED
    BY <1>1, <2>1 DEF RunIsFollowed, SubmissionsFollow, JobFollows, AnswersFollow, Open, Busy
<1>4. CASE Retry
  <2>1. /\ run' = [status |-> "queued", generation |-> run.generation + 1,
                   leaseOwner |-> Nobody, leased |-> FALSE, age |-> 0,
                   queueStatus |-> "pending"]
        /\ submissions' = submissions \cup
                            {[generation |-> run.generation + 1, step |-> "send"]}
    BY <1>4 DEF Retry, BeginSubmission
  <2>2. run'.generation = run.generation + 1 /\ run'.generation \notin sent
    BY <1>0, <2>1 DEF RunIsFollowed, SubmissionsFollow
  <2>3. ~Busy /\ submissions = {}
    BY <1>0, <2>2 DEF RetriesAlone, Busy
  <2>4. SubmissionsFollow'
    <3>1. \A h \in sent : h <= run.generation + 1
      <4>1. sent \subseteq Int
        BY DEF TypeOK, Generations
      <4> QED
        BY <1>0, <4>1 DEF RunIsFollowed, SubmissionsFollow
    <3> QED
      BY <1>1, <2>1, <2>2, <2>3, <3>1 DEF RunIsFollowed, SubmissionsFollow
  <2>5. JobFollows' /\ AnswersFollow'
    BY <1>1, <2>2, <2>3 DEF RunIsFollowed, JobFollows, AnswersFollow, Busy
  <2> QED
    BY <2>4, <2>5 DEF RunIsFollowed
<1> QED
  BY <1>2, <1>3, <1>4

(* Every step leaves the run followed.                                     *)
LEMMA FollowedStep ==
  ASSUME "onFailure" \notin Faults, Consistent, RunIsFollowed, [Next]_vars,
         [RetriesAlone]_vars
  PROVE  RunIsFollowed'
<1>0. TypeOK
  BY DEF Consistent
<1>1. CASE UNCHANGED vars
  BY <1>1 DEF vars, RunIsFollowed, SubmissionsFollow, JobFollows, AnswersFollow, Open, Busy
<1>2. CASE RetriesAlone
  <2>1. CASE \E s \in submissions : SubmissionStep(s) \/ SubmitterCrashes(s)
    BY <1>0, <2>1, SubmissionFollows
  <2>2. ASSUME NEW w \in Workers, WorkerStep(w), ~Answer(w) PROVE RunIsFollowed'
    BY <2>2, ExecutionWorks, WorkFollows
  <2>3. CASE \/ CallTimesOut
             \/ \E w \in Workers : CallWorker(w) \/ Answer(w) \/ WorkerCrashes(w)
    BY <1>0, <2>3, CallFollows
  <2>4. CASE \E g \in failures : FailRun(g) \/ GiveUpFailing(g)
    BY <1>0, <2>4, FailureFollows DEF GiveUpFailing
  <2>5. CASE Resubmit \/ Recover \/ Retry \/ TimePasses \/ OrganizationToggles
    BY <1>0, <1>2, <2>5, ControlFollows
  <2> QED
    BY <1>1, <2>1, <2>2, <2>3, <2>4, <2>5 DEF Next
<1> QED
  BY <1>1, <1>2

(* A run is abandoned without a way out only when the failure handler of   *)
(* its generation has been lost, or when it was retried while something of *)
(* the generation before was still under way: otherwise it is queued,      *)
(* Inngest has not seen its event, and the page offers to resubmit it.     *)
THEOREM OnlyALostFailureOrAnEarlyRetryStrands ==
  ASSUME "onFailure" \notin Faults
  PROVE  Spec /\ [][RetriesAlone]_vars => []AbandonedIsRecoverable
<1>1. Consistent /\ RunIsFollowed => AbandonedIsRecoverable
  BY DEF RunIsFollowed, SubmissionsFollow, JobFollows, Open, Busy,
         AbandonedIsRecoverable, Abandoned, ResubmitOffered
<1>2. Consistent /\ RunIsFollowed /\ [Next]_vars /\ [RetriesAlone]_vars => RunIsFollowed'
  BY FollowedStep
<1> QED
  BY <1>1, <1>2, FollowedInit, AlwaysConsistent, PTL DEF Spec
=============================================================================
