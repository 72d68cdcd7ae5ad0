SPECIFICATION Spec

CONSTANTS
    Robots <- Crew
    Modules <- House
    Deps <- HouseDeps
    TeamSize <- HouseTeam
    Mass <- HouseMass
    Payload <- CrewPayload
    Battery <- CrewBattery
    HomeCell <- CrewHome
    StagingCell <- Yard
    TargetCell <- Spots
    Aisles = {"aisle"}
    Durations = {2, 3}
    Energies = {1, 2}
    Scenarios <- SomeScenarios
    MaxDecisions = 5
    MaxTime = 9
    Never = 99

INVARIANTS
    CrewConsistent
    NothingOverdue
    OutOfService
    ObstaclesHeeded
    ControllersServed

PROPERTIES
    ImplementsBuildOrder

\* An episode that is over may be the last one.
CHECK_DEADLOCK FALSE
