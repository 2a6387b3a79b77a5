\* The controls an administrator is offered for an abandoned run.
SPECIFICATION Spec
CONSTANTS
  w1 = w1
  w2 = w2
  Workers <- OneWorker
  NumPayslips = 2
  BatchSize = 1
  MaxCalls = 1
  MaxGeneration = 1
  MaxAttempts = 2
  MaxSubmissions = 1
  Faults = {"storage", "onFailure"}
INVARIANT AbandonedIsRecoverable
CHECK_DEADLOCK FALSE
