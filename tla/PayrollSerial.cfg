\* One execution at a time: attempts and generations follow one another,
\* statements, object store calls and their answers fail.
SPECIFICATION Spec
CONSTANTS
  w1 = w1
  w2 = w2
  Workers <- OneWorker
  NumPayslips = 2
  BatchSize = 1
  MaxCalls = 2
  MaxGeneration = 2
  MaxAttempts = 2
  MaxSubmissions = 1
  Faults = {"storage", "database", "queue", "onFailure"}
INVARIANTS
  CompletedPayslipsIntact
  CompletedPayslipsOfOneAttempt
CHECK_DEADLOCK FALSE
