SPECIFICATION BuildersSpec

CONSTANTS
    Crew <- FourRobots
    CrewPayload <- TwoPayloads
    Speed <- FourSpeeds
    Houses <- SomeHouses
    Kinds <- SomeKinds
    Sizes <- TwoOrThree
    PickupTime = 4
    FrameInterval = 2
    Delays <- SomeDelays
    SolverSize = 2
    SolverStarts <- SomeStarts
    Agents <- ThreeAgents
    Width = 3
    Height = 2
    Blockings <- MaybeColumn
    Starts <- TopRow
    Goals <- SomeGoals
    MaxLength = 7
    Robots <- ThreeAgents
    Payload <- ThreePayloads
    Modules <- FourModules
    Deps <- WallsAndRoof
    TeamSize <- TeamSizes
    Mass <- Masses
    MaxDecisions = 5
    Controllers <- AnyOrScripted
    Drivers <- ThreeAgents
    DriveModules <- ThreeModules
    DriveDeps <- OneOnAnother
    DriveTeams <- PairAndSingles
    PathLength = 1
    MaxSteps = 2
    Size = 4
    Sites <- SomeSites
    Physics <- EitherPhysics
    Budget = 4
    RecoveryLimit = 1
    N = 2

INVARIANTS
    ScheduleSound
    RoutesDisjoint
    CrewsSound
    SiteSound
    SiteAgrees

PROPERTIES
    BuildsInOrder
    BuildsEnd

\* Schedules, routes, drives and refused sites come to an end.
CHECK_DEADLOCK FALSE
