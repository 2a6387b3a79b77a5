------------------------ MODULE PayrollRunLifecycle ------------------------
(***************************************************************************)
(* What a payroll run promises to everyone who reads it, whatever happens  *)
(* in the queue, the worker, the database connection or the object store:  *)
(*                                                                         *)
(*   - a run is processed generation by generation, a new generation is    *)
(*     opened only when the current one has failed;                        *)
(*   - a generation is settled at most once, as completed or as failed;    *)
(*   - the payslips of a run are published all together, in the step that  *)
(*     completes it, and are never touched again.                          *)
(*                                                                         *)
(* PayrollProcessing implements this specification (see its Lifecycle).    *)
(***************************************************************************)
EXTENDS Naturals

CONSTANTS
  Payslips,       \* the payslips of the run
  Documents,      \* what a published payslip can refer to
  Unpublished     \* a payslip that nobody may download; not a document

VARIABLES
  generation,     \* payroll_runs.processing_generation
  state,          \* "open" (queued or processing), "failed" or "completed"
  published       \* for each payslip, the document a reader is given

vars == <<generation, state, published>>

Init ==
  /\ generation = 1
  /\ state = "open"
  /\ published = [p \in Payslips |-> Unpublished]

(* The open generation fails: nothing has been published. *)
Fail ==
  /\ state = "open"
  /\ state' = "failed"
  /\ UNCHANGED <<generation, published>>

(* The open generation completes, and every payslip is published with it. *)
Complete ==
  /\ state = "open"
  /\ state' = "completed"
  /\ published' \in [Payslips -> Documents]
  /\ UNCHANGED generation

(* An administrator retries a failed generation: the next one is opened. *)
Retry ==
  /\ state = "failed"
  /\ state' = "open"
  /\ generation' = generation + 1
  /\ UNCHANGED published

Next == Fail \/ Complete \/ Retry

Spec == Init /\ [][Next]_vars
=============================================================================
