\* Two executions that overlap, within a generation and across a retry:
\* calls time out while their execution lives on, events are delivered again.
SPECIFICATION Spec
CONSTANTS
  w1 = w1
  w2 = w2
  Workers <- TwoWorkers
  NumPayslips = 1
  BatchSize = 1
  MaxCalls = 2
  MaxGeneration = 2
  MaxAttempts = 2
  MaxSubmissions = 1
  Faults = {"timeout", "window"}
INVARIANTS
  TypeOK
  CompletionIsWhole
  LeaseFollowsGeneration
  OneSuccess
PROPERTIES
  CompletedIsFinal
  FailedOnlyRetried
  StaleWorkerHarmless
  ImplementsLifecycle
SYMMETRY WorkerSymmetry
CHECK_DEADLOCK FALSE
