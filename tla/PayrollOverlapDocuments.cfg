\* The download of a completed payslip, with two overlapping executions.
SPECIFICATION Spec
CONSTANTS
  w1 = w1
  w2 = w2
  Workers <- TwoWorkers
  NumPayslips = 1
  BatchSize = 1
  MaxCalls = 2
  MaxGeneration = 2
  MaxAttempts = 2
  MaxSubmissions = 1
  Faults = {"timeout"}
INVARIANT CompletedPayslipsStored
CHECK_DEADLOCK FALSE
