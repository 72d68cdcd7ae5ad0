SPECIFICATION LiveSpec
CONSTANTS
  NumRuns = 2
  MaxAttempts = 1
  MaxClaims = 2
  Services = {s1, s2}
  Matrices = {m1}
  Training = training
  LogMayFail = FALSE
  ProbeMayFail = FALSE
CHECK_DEADLOCK FALSE
PROPERTY StaleInterrupted
