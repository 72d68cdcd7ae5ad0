SPECIFICATION LiveSpec
CONSTANTS
  NumRuns = 2
  MaxAttempts = 2
  MaxClaims = 4
  Services = {s1}
  Matrices = {}
  Training = training
  LogMayFail = FALSE
  ProbeMayFail = FALSE
CHECK_DEADLOCK FALSE
PROPERTIES CancelHonoured PendingServed FencedReleased
