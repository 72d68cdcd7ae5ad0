SPECIFICATION Spec
CONSTANTS
  NumRuns = 2
  MaxAttempts = 2
  MaxClaims = 3
  Services = {s1}
  Matrices = {m1}
  Training = training
  LogMayFail = TRUE
  ProbeMayFail = TRUE
CONSTRAINT FewClaims
VIEW Shown
CHECK_DEADLOCK FALSE
INVARIANTS TypeOK SingleSlot RowConsistent CompletionHasProduct ResumeLineage
PROPERTIES CompletedIsFinal
