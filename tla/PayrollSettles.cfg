\* Liveness: executions crash and time out, the organization comes and goes.
SPECIFICATION FairSpec
CONSTANTS
  w1 = w1
  w2 = w2
  Workers <- TwoWorkers
  NumPayslips = 1
  BatchSize = 1
  MaxCalls = 2
  MaxGeneration = 1
  MaxAttempts = 2
  MaxSubmissions = 1
  Faults = {"crash", "timeout", "organization"}
PROPERTY GenerationSettles
CHECK_DEADLOCK FALSE
