------------------------ MODULE MCPayrollProcessing ------------------------
(***************************************************************************)
(* Small instances of PayrollProcessing for TLC.                           *)
(***************************************************************************)
EXTENDS PayrollProcessingProperties, TLC

CONSTANTS w1, w2

OneWorker == {w1}
TwoWorkers == {w1, w2}

(* Executions are interchangeable; not used in runs with liveness.         *)
WorkerSymmetry == Permutations(Workers)
=============================================================================
