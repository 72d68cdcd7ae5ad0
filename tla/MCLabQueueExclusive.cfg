SPECIFICATION Spec
CONSTANTS
  NumRuns = 2
  MaxAttempts = 2
  MaxClaims = 2
  Services = {s1, s2}
  Matrices = {}
  Training = training
  LogMayFail = FALSE
  ProbeMayFail = TRUE
CONSTRAINT FewClaims
CHECK_DEADLOCK FALSE
SYMMETRY ServiceSymmetry
INVARIANTS OneExecutor
PROPERTIES FreshOrphanKeepsClaim ImplementsSlot
