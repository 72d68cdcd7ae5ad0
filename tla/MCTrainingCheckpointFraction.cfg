SPECIFICATION Spec

CONSTANTS
    Totals <- OneTotal
    Percentages <- ProtocolPercentages
    Rollout = 2
    Epochs = 2
    MaxAttempts = 3

INVARIANT
    AllFractionsSaved

\* A run that is completed, or down with no attempt left, stops.
CHECK_DEADLOCK FALSE
