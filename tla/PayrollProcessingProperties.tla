-------------------- MODULE PayrollProcessingProperties --------------------
(***************************************************************************)
(* What the processing of a payroll run must guarantee, and the abstract   *)
(* life cycle it implements.                                               *)
(***************************************************************************)
EXTENDS PayrollProcessing

(* The release contract of the download route: what it takes for a payslip *)
(* to be handed out (its row, its payout and its run all in final state).  *)
Released(p) ==
  /\ run.status = "completed" /\ payout = "finalized"
  /\ payslip.status = "generated" /\ payslip.immutable
  /\ recorded[p] # None

(* SAFETY.  Completion is all or nothing: the run is completed exactly     *)
(* when its payouts are finalized, exactly when its payslips are generated *)
(* and immutable; then every payslip is released and no lease is held.     *)
(* (finalizeRun against failPayrollRun, recover, retry and stale claims.)  *)
CompletionIsWhole ==
  /\ (run.status = "completed") = (payout = "finalized")
  /\ (run.status = "completed") = (payslip.status = "generated")
  /\ run.status = "completed" =>
       /\ \A p \in Payslips : Released(p)
       /\ run.leaseOwner = Nobody /\ ~run.leased

(* SAFETY.  Whoever holds the lease works for the current generation of a  *)
(* run in processing: recovery and retry leave no lease behind, and a late *)
(* claim or renewal of an older generation never takes it.                 *)
LeaseFollowsGeneration ==
  /\ run.leased = (run.leaseOwner # Nobody)
  /\ run.leased => run.status = "processing" /\ run.leaseOwner = run.generation

(* SAFETY.  At most one attempt of one generation ever succeeds, it is of  *)
(* the generation the run ended with, and only a completed run has one:    *)
(* a run is not finalized twice by overlapping or superseded workers.      *)
OneSuccess ==
  \A a \in Attempts : attempts[a] = "succeeded" =>
    /\ run.status = "completed" /\ a[1] = run.generation
    /\ \A b \in Attempts : attempts[b] = "succeeded" => b = a

(* SAFETY.  The payslips of a completed run can be downloaded: the bucket  *)
(* holds, for each of them, the very bytes whose hash was recorded.        *)
(* verifyPayslipObject refuses the download otherwise.  It holds as long   *)
(* as executions do not overlap, whatever else fails.                      *)
CompletedPayslipsIntact ==
  run.status = "completed" => \A p \in Payslips : object[p] = recorded[p]

(* SAFETY.  Weaker: nobody has taken the object of a completed payslip     *)
(* away.  "Completed runs, finalized payouts, and generated payslips are   *)
(* immutable" (docs/developer-guide/domain-guide.md), but the object store *)
(* has no trigger: an overlapping execution whose UPDATE the trigger       *)
(* rejects removes the object at the path all executions share.            *)
CompletedPayslipsStored ==
  run.status = "completed" => \A p \in Payslips : object[p] # None

(* SAFETY.  All payslips of a completed run come from one attempt, of the  *)
(* generation that completed, not from leftovers of earlier ones.          *)
CompletedPayslipsOfOneAttempt ==
  run.status = "completed" =>
    /\ recorded[1][1] = run.generation
    /\ \A p \in Payslips : recorded[p] = recorded[1]

-----------------------------------------------------------------------------
(* ACTION PROPERTY.  Completed runs, finalized payouts and generated       *)
(* payslips are immutable: no late submission, stale worker, failure       *)
(* handler or administrator changes them or the recorded documents.        *)
CompletedIsFinal ==
  [][run.status = "completed" => UNCHANGED <<run, payout, payslip, recorded>>]_vars

(* ACTION PROPERTY.  A failed generation stays failed: the only way out is *)
(* a retry under the next generation, so a worker or an event of the       *)
(* failed one cannot bring it back.                                        *)
FailedOnlyRetried ==
  [][run.status = "failed" =>
       \/ run' = [run EXCEPT !.queueStatus = run'.queueStatus]
       \/ run'.status = "queued" /\ run'.generation = run.generation + 1]_vars

(* ACTION PROPERTY.  A step of an execution of a superseded generation     *)
(* leaves the run, its payouts and the status of its payslips alone.       *)
StaleWorkerHarmless ==
  [][\A w \in Workers :
       (worker'[w] # worker[w] /\ worker[w].generation # run.generation)
         => UNCHANGED <<run, payout, payslip>>]_vars

-----------------------------------------------------------------------------
(***************************************************************************)
(* Recovery.                                                               *)
(***************************************************************************)
(* Nothing under way will ever move the run: no execution, no function     *)
(* run, no failure handler, no submission.                                 *)
Abandoned ==
  /\ run.status \in {"queued", "processing"}
  /\ \A w \in Workers : worker[w].step = "idle"
  /\ job.phase = "inactive" /\ failures = {} /\ submissions = {}

(* What the run page offers an administrator. *)
ResubmitOffered == run.status = "queued" /\ run.queueStatus # "submitted"

(* SAFETY.  An administrator can recover an abandoned run once it is       *)
(* delayed: the page offers to resubmit, or to recover, the run.           *)
AbandonedIsRecoverable == Abandoned /\ (run.status = "processing" => Delayed)
                            => ResubmitOffered \/ RecoveryEligible

-----------------------------------------------------------------------------
(***************************************************************************)
(* Fairness.  Processes that are alive take their next step, Inngest keeps *)
(* calling, notices dead calls, and calls the failure handler until it     *)
(* returns.  Nothing is assumed of administrators, faults, or time.        *)
(***************************************************************************)
FairSpec ==
  /\ Spec
  /\ \A w \in Workers : WF_vars(WorkerStep(w)) /\ WF_vars(CallWorker(w))
  /\ WF_vars(CallTimesOut)
  /\ \A g \in Generations : WF_vars(FailRun(g) /\ failures' # failures)

(* LIVENESS.  Once Inngest has taken up the event of the run's generation, *)
(* the generation is settled: the run becomes completed or failed.         *)
GenerationSettles ==
  (job.phase # "inactive" /\ job.generation = run.generation
     /\ run.status \in {"queued", "processing"})
  ~> (run.status \in {"completed", "failed"})

(* The abstract life cycle: a run is open while queued or processing, and  *)
(* a payslip is published when the download route would hand it out.       *)
LifecycleState ==
  IF run.status \in {"queued", "processing"} THEN "open" ELSE run.status

Published == [p \in Payslips |-> IF Released(p) THEN recorded[p] ELSE None]

Lifecycle == INSTANCE PayrollRunLifecycle WITH
  Documents <- Attempts,
  Unpublished <- None,
  generation <- run.generation,
  state <- LifecycleState,
  published <- Published

(* REFINEMENT.  Every behaviour of the processing is one of the life       *)
(* cycle: generations settle once, payslips are published together.        *)
ImplementsLifecycle == Lifecycle!Spec
=============================================================================
