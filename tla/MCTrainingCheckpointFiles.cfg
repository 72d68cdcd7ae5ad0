SPECIFICATION Spec

CONSTANTS
    Totals <- SomeTotals
    Percentages <- ProtocolPercentages
    Rollout = 2
    Epochs = 2
    MaxAttempts = 3

INVARIANTS
    TypeOK
    ExactResume
    CandidateUsable
    LineageComplete
    MissingOnlyIfCut

PROPERTIES
    LatestForward
    SnapshotImmutable
    AttemptEnds

\* A run that is completed, or down with no attempt left, stops.
CHECK_DEADLOCK FALSE
