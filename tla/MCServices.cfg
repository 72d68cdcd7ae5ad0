SPECIFICATION ServicesSpec

CONSTANTS
    Runs = {1, 2}
    MaxAttempts = 2
    MaxRequests = 2
    Steps <- TwoThenOne
    Platforms <- AllPlatforms
    Users <- TwoUsers
    MaxProgress = 1
    MaxFaults = 1
    Objects <- ThreeObjects
    Colour <- RedRedBlue
    Stations <- TwoStations
    Tasks <- SomeTasks
    MaxCycles = 3
    MaxRetries = 2
    Kinds <- AllKinds
    Seeds <- ThreeSeeds
    Expected <- TwoSeeds
    Baselines <- ABaseline
    Policies <- TwoPolicies

INVARIANTS
    WorkSound
    RecordsFaithful

PROPERTIES
    ServicesEnd

\* Jobs, tasks, commands and reconciliations come to an end.
CHECK_DEADLOCK FALSE
