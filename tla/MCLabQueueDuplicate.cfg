SPECIFICATION Spec
CONSTANTS
  NumRuns = 2
  MaxAttempts = 2
  MaxClaims = 3
  Services = {s1}
  Matrices = {m1}
  Training = training
  LogMayFail = FALSE
  ProbeMayFail = FALSE
CONSTRAINT FewClaims
CHECK_DEADLOCK FALSE
INVARIANT OneEvaluationPerMatrix
