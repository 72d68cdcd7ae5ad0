SPECIFICATION StudiesSpec

CONSTANTS
    h1 = h1
    h2 = h2
    p1 = p1
    p2 = p2
    Runs <- TwoRuns
    Handlers = {h1, h2}
    Root <- TwoThreads
    Picks = {p1, p2}
    None = None
    Torn = Torn
    MaxJobs = 1
    ScriptRoot <- ThreadAndScript
    Checkpoints <- ThreeCheckpoints
    Transitions <- SomeTransitions
    Rates <- SomeRates
    Spans <- SomeSpans
    CompletionMin = 95
    FailureMin = 85
    RatioMax = 115
    GainMin = 5
    ReductionMin = 20
    FailureGainMin = 10
    DeltaMin <- MinusTwo

SYMMETRY Alike

INVARIANTS
    CopiesAgree
    EvidenceKept
    HeldoutHasEvidence

PROPERTIES
    EvidenceMonotone

\* All requests and jobs may be over.
CHECK_DEADLOCK FALSE
