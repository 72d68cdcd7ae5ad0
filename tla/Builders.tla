------------------------------ MODULE Builders ------------------------------
(***************************************************************************)
(* Six components that plan and build, each in a world of its own: a house *)
(* that is scheduled and played back, robots that are routed, bids for     *)
(* modules, a build driven in a simulator, the assembly environment, and   *)
(* the simulator scene that mirrors it.  They share no state here; every   *)
(* behaviour is one of them.                                               *)
(***************************************************************************)
EXTENDS RouteTable, FiniteSets

CONSTANTS
    Crew, CrewPayload, Speed, Houses, Kinds, Sizes, PickupTime, FrameInterval, Delays,
    SolverSize, SolverStarts,                                       \* of BuildSchedule
    Robots, Payload, Modules, Deps, TeamSize, Mass, MaxDecisions, Controllers,
                                                                    \* of CoordinationEnv
    Drivers, DriveModules, DriveDeps, DriveTeams, PathLength, MaxSteps,
                                                                    \* of DynamicExecutor
    Size, Sites, Physics, Budget, RecoveryLimit,                    \* of AssemblyEnv
    N                                                               \* of CoppeliaBackend

VARIABLES
    world,
    plan, phase, controller, pending, free, now, jobs, makespan, idleSeconds, disrupted,
    frame, installed,
    agents, completed, decisionCount, intended, assignments,
    logical, pc, assigned, waypoint, steps, driven, attachments,
    site, order, env, attached, run,
    shownFrame, ready, objects, scene, atStart, sim, shown

House == INSTANCE BuildSchedule WITH Robots <- Crew, Payload <- CrewPayload
Bidding == INSTANCE CoordinationEnv
Drive == INSTANCE DynamicExecutor WITH
    Robots <- Drivers, Modules <- DriveModules, Deps <- DriveDeps, TeamSize <- DriveTeams
Mirror == INSTANCE CoppeliaBackend WITH frame <- shownFrame
Site == INSTANCE AssemblyEnv

-----------------------------------------------------------------------------
(* What the code takes for granted of its inputs, or has checked before.   *)

\* Agents, robots and modules are numbered.
Numbered(S) == IsFiniteSet(S) /\ S = 1..Cardinality(S)

\* Requests name cells of the floor.
RouteNumbers ==
    /\ Width \in Nat /\ Height \in Nat /\ MaxLength \in Nat
    /\ Numbered(Agents) /\ Starts \subseteq Cells /\ Goals \subseteq Cells

\* Robots move, every module takes somebody, and picking up takes no shorter than the
\* time between two frames.
KindsOfModule == [team : Nat \ {0}, mass : Nat, work : Nat, distance : Nat]
HouseNumbers ==
    /\ Numbered(Crew)
    /\ CrewPayload \in [Crew -> Nat] /\ Speed \in [Crew -> Nat \ {0}]
    /\ Houses \subseteq Nat \X Nat \X Nat /\ Sizes \subseteq Nat \ {0} /\ Kinds \subseteq KindsOfModule
    /\ PickupTime \in Nat /\ FrameInterval \in Nat \ {0} /\ FrameInterval <= PickupTime
    /\ Delays \subseteq Nat /\ SolverStarts \subseteq Nat

\* A plan that validate_plan accepts, and an episode of at least one decision.
BidNumbers ==
    /\ Numbered(Modules) /\ Modules # {} /\ Numbered(Robots)
    /\ Payload \in [Robots -> Nat] /\ TeamSize \in [Modules -> Nat \ {0}]
    /\ Deps \in [Modules -> SUBSET Modules]
    /\ \A S \in SUBSET Modules : S # {} => \E m \in S : Deps[m] \cap S = {}
    /\ \A m \in Modules : Bidding!Capable(m, Bidding!Strongest(TeamSize[m], Robots))
    /\ MaxDecisions \in Nat \ {0}

\* Every site has a part, and its episodes a step; a scenario puts its robots on two cells
\* of the grid and its parts in places of their own, and says nothing of what rests on what.
Point == Int \X Int
Spots == Point \X Point
SiteNumbers ==
    /\ Size \in Nat
    /\ \A s \in Sites :
        /\ {"kind", "controller", "needs", "starts", "pickup", "assembly", "obstacles", "fails",
            "maxSteps"} \subseteq DOMAIN s
        /\ s.kind \in {"blueprint", "scenario"}
        /\ Numbered(DOMAIN s.needs) /\ DOMAIN s.needs # {}
        /\ s.starts \in Spots /\ s.maxSteps \in Nat \ {0}
        /\ s.pickup \in [DOMAIN s.needs -> Spots] /\ s.assembly \in [DOMAIN s.needs -> Spots]
        /\ s.kind = "scenario" =>
            /\ s.starts \in Site!Grid \X Site!Grid /\ s.starts[1] # s.starts[2]
            /\ \A p \in DOMAIN s.needs : s.needs[p] = {}
            /\ \A p, q \in DOMAIN s.needs :
                p # q => {s.assembly[p][1], s.assembly[p][2]} # {s.assembly[q][1], s.assembly[q][2]}

ASSUME RouteAssumption == RouteNumbers
ASSUME HouseAssumption == HouseNumbers
ASSUME BidAssumption == BidNumbers
ASSUME SiteAssumption == SiteNumbers

-----------------------------------------------------------------------------
\* Two worlds each use the variables installed and controller.
houseVars == <<plan, phase, pending, free, now, jobs, makespan, idleSeconds, disrupted, frame>>
bidVars   == <<agents, completed, decisionCount, intended, assignments>>
driveVars == <<logical, pc, assigned, waypoint, steps, driven, attachments>>
siteVars  == <<site, order, env, attached, run>>
sceneVars == <<shownFrame, ready, objects, scene, atStart, sim, shown>>
sharedVars == <<controller, installed>>
allVars   == <<world, vars, houseVars, bidVars, driveVars, siteVars, sceneVars, sharedVars>>

None == 0
NoHouse == /\ plan = None /\ phase = None /\ pending = None /\ free = None /\ now = None
           /\ jobs = None /\ makespan = None /\ idleSeconds = None /\ disrupted = None /\ frame = None
NoFloor == /\ obstacles = None /\ start = None /\ goal = None /\ next = None /\ paths = None
           /\ vertexReservations = None /\ edgeReservations = None /\ outcome = "none"
NoBids  == /\ agents = None /\ completed = None /\ decisionCount = None /\ intended = None
           /\ assignments = None
NoDrive == /\ logical = None /\ pc = "over" /\ assigned = None /\ waypoint = None /\ steps = None
           /\ driven = None /\ attachments = None
NoScene == /\ shownFrame = None /\ ready = None /\ objects = None /\ scene = None
           /\ atStart = None /\ sim = None /\ shown = None
NoSite  == /\ site = None /\ order = None /\ env = None /\ attached = None
           /\ run = [phase |-> "over"]

InitHouse ==
    /\ world = "house" /\ House!Init /\ NoFloor /\ NoBids /\ NoDrive /\ NoScene /\ NoSite
InitFloor ==
    /\ world = "floor" /\ Init /\ NoHouse /\ NoBids /\ NoDrive /\ NoScene /\ NoSite
    /\ controller = None /\ installed = None
InitBids ==
    /\ world = "bids" /\ Bidding!Init /\ NoHouse /\ NoFloor /\ NoDrive /\ NoScene /\ NoSite
    /\ installed = None
InitDrive ==
    /\ world = "drive" /\ Drive!Init /\ NoHouse /\ NoFloor /\ NoBids /\ NoScene /\ NoSite
    /\ controller = None
InitScene ==
    /\ world = "scene" /\ Mirror!Init /\ NoHouse /\ NoFloor /\ NoBids /\ NoDrive /\ NoSite
    /\ controller = None /\ installed = None
InitSite ==
    /\ world = "site" /\ Site!Init /\ NoHouse /\ NoFloor /\ NoBids /\ NoDrive /\ NoScene
    /\ controller = None /\ installed = None

BuildersInit == InitHouse \/ InitFloor \/ InitBids \/ InitDrive \/ InitScene \/ InitSite

HouseStep ==
    /\ world = "house" /\ House!Next
    /\ UNCHANGED <<world, vars, bidVars, driveVars, sceneVars, siteVars>>
FloorStep ==
    /\ world = "floor" /\ Next
    /\ UNCHANGED <<world, houseVars, bidVars, driveVars, sceneVars, sharedVars, siteVars>>
BidStep ==
    /\ world = "bids" /\ Bidding!Next
    /\ UNCHANGED <<world, houseVars, vars, driveVars, sceneVars, installed, siteVars>>
DriveStep ==
    /\ world = "drive" /\ Drive!Next
    /\ UNCHANGED <<world, houseVars, vars, bidVars, sceneVars, controller, siteVars>>
SceneStep ==
    /\ world = "scene" /\ Mirror!Next
    /\ UNCHANGED <<world, houseVars, vars, bidVars, driveVars, sharedVars, siteVars>>
SiteStep ==
    /\ world = "site" /\ Site!Next
    /\ UNCHANGED <<world, houseVars, vars, bidVars, driveVars, sceneVars, sharedVars>>

BuildersNext == HouseStep \/ FloorStep \/ BidStep \/ DriveStep \/ SceneStep \/ SiteStep

\* The fairness of DynamicExecutor and of AssemblyEnv.
BuildersFairness ==
    /\ WF_allVars(DriveStep)
    /\ []<>(world # "site" \/ Site!Idle) \/ []<><<SiteStep>>_allVars

BuildersSpec == BuildersInit /\ [][BuildersNext]_allVars /\ BuildersFairness

-----------------------------------------------------------------------------
\* What can be scheduled is, and can be carried out: of BuildSchedule.
ScheduleSound  == world = "house" => House!ScheduleSound

\* Teams are separate and get what they were sent for, in bids and on the road: of
\* CoordinationEnv and of DynamicExecutor.
CrewsSound ==
    /\ world = "bids" => Bidding!TeamsSound
    /\ world = "drive" => Drive!DrivenSound

\* Two robots build without harm and keep their books: of AssemblyEnv.
SiteSound      == world = "site" => Site!AssemblySound

\* Planners agree with each other, and the scene with what it shows: of AssemblyEnv and
\* of CoppeliaBackend.
SiteAgrees ==
    /\ world = "site" => Site!PlannersAgree
    /\ world = "scene" => Mirror!SceneMirrors

\* Episodes and drives come to an end: of AssemblyEnv and of DynamicExecutor.
BuildsEnd == Site!EpisodeEnds /\ Drive!RoutesEnd

\* A build that is played back, bid for, driven or carried out is in order.
PlannedParts ==
    CASE world = "house" -> House!Mods [] world = "bids" -> Modules
      [] world = "drive" -> DriveModules [] world = "site" -> Site!Parts(site) [] OTHER -> {}
PlannedNeeds ==
    CASE world = "house" -> plan.deps [] world = "bids" -> Deps
      [] world = "drive" -> DriveDeps [] world = "site" -> site.needs [] OTHER -> None
BuiltParts ==
    CASE world \in {"house", "drive"} -> installed [] world = "bids" -> completed
      [] world = "site" -> Site!Built [] OTHER -> {}

Order == INSTANCE BuildOrder WITH
    parts <- PlannedParts, needs <- PlannedNeeds, installed <- BuiltParts
BuildsInOrder == Order!Spec
=============================================================================
