SPECIFICATION Spec
CONSTANTS
  NumRuns = 1
  MaxAttempts = 2
  MaxClaims = 2
  Services = {s1}
  Matrices = {m1}
  Training = training
  LogMayFail = TRUE
  ProbeMayFail = FALSE
CONSTRAINT FewClaims
CHECK_DEADLOCK FALSE
PROPERTY FreshOrphanKeepsClaim
