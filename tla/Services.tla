------------------------------ MODULE Services ------------------------------
(***************************************************************************)
(* Seven processes that run, watch, record or stop the work of others, in  *)
(* worlds of their own: the executor of a matrix next to the API, the      *)
(* driver of the phase-3 verification, the reaper of stale workers, the    *)
(* events of an inline job and a client that follows them, the grid of an  *)
(* evaluation, a task carried out by skills, and a copilot command.  Every *)
(* behaviour is one of them.                                               *)
(***************************************************************************)
EXTENDS MatrixExecutor, Sequences

CONSTANTS
    Steps,                                                  \* of Phase3Verification
    Platforms,                                              \* of WorkerReaper
    Users, MaxProgress, MaxFaults,                          \* of LabEvents
    Objects, Colour, Stations, Tasks, MaxCycles, MaxRetries, \* of SkillExecutor
    Kinds,                                                  \* of CopilotRunner
    Seeds, Expected, Baselines, Policies                    \* of EvidenceGrid

VARIABLES
    world,
    row, disk, log, worker, stray, dispatcher, driver,
    platform, process, handle, pc, verdict, mistaken, harmed,
    kind, status, cancelRequested, saved, events, mirror, cut, thread, stream, owed, faults,
    task, robot, object, loop,
    command, client, directory, registered, artifacts,
    request, episodes, outcome

Phase == INSTANCE Phase3Verification
Reaper == INSTANCE WorkerReaper
Log == INSTANCE LabEvents
Skill == INSTANCE SkillExecutor
Copilot == INSTANCE CopilotRunner WITH row <- registered
Evaluation == INSTANCE EvidenceGrid

-----------------------------------------------------------------------------
(* What the code takes for granted of its inputs, or has checked before.   *)

\* Objects and stations have an order; the target of a tabletop task is in the scene.
SkillNumbers ==
    /\ IsFiniteSet(Objects) /\ Objects = 1..Cardinality(Objects)
    /\ IsFiniteSet(Stations) /\ Stations = 1..Cardinality(Stations)
    /\ \A t \in Tasks :
        /\ t \in [kind : {"collection", "tabletop"}, targets : SUBSET Int,
                  drop : Stations \cup {Skill!DropZone, Skill!Unknown}, sight : {"oracle", "camera"}]
        /\ t.kind = "tabletop" => Skill!Min(t.targets) \in Objects

\* Scenario seeds are numbers; an entry has a controller, a variant and a training seed.
Evaluated(field) == {e[field] : e \in Evaluation!Entries}
EntryLists ==
    Seq([controller : Evaluated("controller"), variant : Evaluated("variant"),
         training : Evaluated("training")])
GridNumbers ==
    /\ IsFiniteSet(Expected) /\ Expected \subseteq Int
    /\ Baselines \in EntryLists /\ Policies \in EntryLists

ASSUME UsersAssumption == IsFiniteSet(Users)
ASSUME SkillAssumption == SkillNumbers
ASSUME GridAssumption == GridNumbers

-----------------------------------------------------------------------------
driverVars  == <<row, disk, log, worker, stray, dispatcher, driver>>
reaperVars  == <<platform, process, handle, pc, verdict, mistaken, harmed>>
logVars     == <<kind, status, cancelRequested, saved, events, mirror, cut, thread, stream, owed, faults>>
taskVars    == <<task, robot, object, loop>>
copilotVars == <<command, client, directory, registered, artifacts>>
gridVars    == <<request, episodes, outcome>>
allVars     == <<world, vars, driverVars, reaperVars, logVars, taskVars, copilotVars, gridVars>>

None == 0
NoMatrix  == /\ run = [r \in Runs |-> NoRow] /\ requests = None /\ apiResumes = None
             /\ executor = [pc |-> "select"]
NoDriver  == /\ row = None /\ disk = None /\ log = None /\ worker = None /\ stray = None
             /\ dispatcher = None /\ driver = [pc |-> "done"]
NoReaper  == /\ platform = None /\ process = None /\ handle = None /\ pc = None
             /\ verdict = None /\ mistaken = None /\ harmed = None
NoLog     == /\ kind = None /\ status = None /\ cancelRequested = None /\ saved = None
             /\ events = None /\ mirror = None /\ cut = None /\ thread = None /\ stream = None
             /\ owed = None /\ faults = None
NoTask    == task = None /\ robot = None /\ object = None /\ loop = [pc |-> "over"]
NoCommand == /\ command = None /\ client = None /\ directory = None /\ registered = None
             /\ artifacts = None
NoGrid    == request = None /\ episodes = None /\ outcome = None

InitMatrix ==
    /\ world = "matrix" /\ Init
    /\ NoDriver /\ NoReaper /\ NoLog /\ NoTask /\ NoCommand /\ NoGrid
InitPhase ==
    /\ world = "phase 3" /\ Phase!Init
    /\ NoMatrix /\ NoReaper /\ NoLog /\ NoTask /\ NoCommand /\ NoGrid
InitReaper ==
    /\ world = "reaper" /\ Reaper!Init
    /\ NoMatrix /\ NoDriver /\ NoLog /\ NoTask /\ NoCommand /\ NoGrid
InitLog ==
    /\ world = "log" /\ Log!Init
    /\ NoMatrix /\ NoDriver /\ NoReaper /\ NoTask /\ NoCommand /\ NoGrid
InitTask ==
    /\ world = "task" /\ Skill!Init
    /\ NoMatrix /\ NoDriver /\ NoReaper /\ NoLog /\ NoCommand /\ NoGrid
InitCopilot ==
    /\ world = "copilot" /\ Copilot!Init
    /\ NoMatrix /\ NoDriver /\ NoReaper /\ NoLog /\ NoTask /\ NoGrid
InitGrid ==
    /\ world = "grid" /\ Evaluation!Init
    /\ NoMatrix /\ NoDriver /\ NoReaper /\ NoLog /\ NoTask /\ NoCommand

ServicesInit ==
    \/ InitMatrix \/ InitPhase \/ InitReaper \/ InitLog \/ InitTask \/ InitCopilot \/ InitGrid

InMatrix(A) ==
    /\ world = "matrix" /\ A
    /\ UNCHANGED <<world, driverVars, reaperVars, logVars, taskVars, copilotVars, gridVars>>
InPhase(A) ==
    /\ world = "phase 3" /\ A
    /\ UNCHANGED <<world, vars, reaperVars, logVars, taskVars, copilotVars, gridVars>>
ReaperStep ==
    /\ world = "reaper" /\ Reaper!Next
    /\ UNCHANGED <<world, vars, driverVars, logVars, taskVars, copilotVars, gridVars>>
LogStep ==
    /\ world = "log" /\ Log!Next
    /\ UNCHANGED <<world, vars, driverVars, reaperVars, taskVars, copilotVars, gridVars>>
TaskStep ==
    /\ world = "task" /\ Skill!Next
    /\ UNCHANGED <<world, vars, driverVars, reaperVars, logVars, copilotVars, gridVars>>
CopilotStep ==
    /\ world = "copilot" /\ Copilot!Next
    /\ UNCHANGED <<world, vars, driverVars, reaperVars, logVars, taskVars, gridVars>>
GridStep ==
    /\ world = "grid" /\ Evaluation!Next
    /\ UNCHANGED <<world, vars, driverVars, reaperVars, logVars, taskVars, copilotVars>>

ServicesNext ==
    \/ InMatrix(Next) \/ InPhase(Phase!Next)
    \/ ReaperStep \/ LogStep \/ TaskStep \/ CopilotStep \/ GridStep

\* The fairness of MatrixExecutor, Phase3Verification and SkillExecutor.
ServicesFairness ==
    /\ WF_allVars(InMatrix(Execute)) /\ WF_allVars(TaskStep)
    /\ WF_allVars(InPhase(Phase!Drive)) /\ WF_allVars(InPhase(Phase!Dispatch))
    /\ \A r \in Runs : SF_allVars(InMatrix(Claim(r))) /\ SF_allVars(InMatrix(EndRun(r)))

ServicesSpec == ServicesInit /\ [][ServicesNext]_allVars /\ ServicesFairness

-----------------------------------------------------------------------------
\* Work is attempted, run, stopped and carried out as it should be: of MatrixExecutor,
\* Phase3Verification, WorkerReaper and SkillExecutor.
WorkSound ==
    /\ world = "matrix" => AttemptsBounded
    /\ world = "phase 3" => Phase!Phase3Sound
    /\ world = "reaper" => Reaper!ReaperSound
    /\ world = "task" => Skill!TasksSound

\* What is recorded is what was done: of LabEvents, CopilotRunner and EvidenceGrid.
RecordsFaithful ==
    /\ world = "log" => Log!EventsFaithful
    /\ world = "copilot" => Copilot!RecordsKept
    /\ world = "grid" => Evaluation!GridFaithful

\* Whatever is begun comes to an end: of MatrixExecutor, Phase3Verification and SkillExecutor.
ServicesEnd == ExecutorEnds /\ Phase!Phase3Ends /\ Skill!TaskEnds
=============================================================================
