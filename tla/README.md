# A verification development for the Embodied Skill Composer

The repository trains and evaluates multi-robot construction policies. Its
Python package (`src/embodied_skill_composer/`, paths below are relative to it
unless they start with `docs/`) holds a *construction lab*: a REST service that
queues training runs and evaluations, detached worker processes that execute
them, and the environments, schedulers and planners that the jobs exercise.
This directory holds TLA+ models of the parts whose correctness depends on
interleavings, crashes, restarts and boundary values, TLC configurations that
check them on small instances, and TLAPS proofs for all instances.

`PROJECT.json` indexes everything: components, runs, the source lines each
definition stands for, hazards, findings and theorems.

## Inventory

### Durable run queue (`construction/lab_registry.py`, `lab_service.py`, `lab_worker.py`)

*State.* SQLite tables `runs` (status, attempt, claim token, pid, process
identity, heartbeat, cancel flag, latest checkpoint, resume provenance),
`policies`, `evaluations`, `run_events`; one dispatcher thread per
`LabService`; one worker subprocess per claim; a JSONL mirror of the events.
*Operations.* `create_run`, `create_matrix_evaluation_run`,
`request_cancel`, `request_resume`, `claim_next_durable_job`, `update_run`,
`append_event`, `record_resume_provenance`, `finalize_run`,
`reconcile_stale_runs`; the dispatcher loop `_dispatch_durable_jobs`;
`lab_worker.main` with its heartbeat thread.
*Interaction.* Services, workers and users share nothing but the database;
every claim-bound statement names the claim token, and a statement that matches
no row raises `LostRunClaimError`. Popen and `poll()` link a dispatcher with
its worker, pid plus process identity link a reaper with it.
*Hard behaviour.* Two services on one registry, workers that outlive their
service, heartbeats that expire while the worker lives, a fence that races with
a late worker, exceptions after a commit.
*Correct when* at most one run is active and at most one worker is at work,
apart from one that a failed call about its process made a reaper take for gone
and that never gets its claim back; a fenced worker can commit nothing; a completed
run stays completed and has its product; a cancelled, stale or pending run is
eventually dealt with.

### Training loop and checkpoints (`construction/training.py`, `policy.py`)

*State.* Counters, weights and lineage in memory; `latest.pt`, one snapshot and
one policy file per configured fraction, `policy.pt`.
*Operations.* Start, resume, behaviour cloning epochs, rollout and update,
`persist_checkpoint`, export, final artifacts.
*Interaction.* Called by the worker, polls for cancellation, reports each
checkpoint to the registry; the policy selection loads the policy files.
*Hard behaviour.* The attempt can end between any two files; rounding of
targets and decisions.
*Correct when* a resumed run trains exactly what an uninterrupted one would
have; each candidate was taken at its fraction, is immutable, complete and
listed; `latest.pt` never goes back.

### Run event log (`lab_registry.py`, `api.py`)

Events get a sequence number in a transaction and are mirrored to a JSONL file
after the commit; websocket clients follow the table. *Hard:* a status and its
event are often two transactions, and the mirror a third step, so other threads
come in between, the write may fail and the process may die. *Correct when* every
change of status has one event, the file holds no event twice and lacks only those
whose one write failed or was cut off, and a client sees them once and in order.

### Inline training and evaluation (`lab_service.py`)

When a service is given its own runner it executes jobs in a thread pool, with
status updates that name no token. *Hard:* cancellation while queued for a pool
thread, or at the end of the job. *Correct when* the log tells what happened.

### Experiment matrix and policy selection (`experiment_execution.py`, `experiment_protocol.py`, `scripts/run_construction_experiment.py`)

Expands a protocol into runs, executes and resumes them, evaluates five
checkpoints per finished run, freezes one selection per run, exports evidence
files, evaluates held-out scenarios and decides. *Hard:* evidence written before
the freeze it belongs to, requests in parallel threads, a loop that decides on
rows it read earlier, rules with thresholds and a division. *Correct when* the
held-out evaluation only uses frozen selections, a frozen selection keeps its
evidence unless another evaluation opens the file, attempts are bounded, and better
evidence never costs a verdict.

### Evaluation and phase-3 verification (`evaluation.py`, `phase3_verification.py`)

An evaluation runs controllers over a grid of scenarios, checks the grid and
aggregates it. The phase-3 driver runs a whole small matrix through real
dispatchers, kills one worker on purpose and has its run resumed, selects,
evaluates, and audits the files. *Hard:* a worker that completes or dies between
a poll and the reconciliation; clean-up after any failure; audits that count
instead of comparing. *Correct when* a verification that succeeds has shown what
it says, one that fails leaves nothing to be started, and an accepted grid has
every cell once.

### Construction environments (`marl_env.py`, `marl_env_v1.py`)

Per episode: modules with dependencies, robots with batteries and jobs,
outages, obstacles. *Hard:* failure during a carried job, a battery running out
during an outage, jobs of a shared route plan. *Correct when* a module is
installed once, after its dependencies, and a robot holds at most one job.

### Compiler, scheduler, routing, recovery (`compiler.py`, `scheduler.py`, `routing.py`, `recovery.py`, `trace.py`)

Algorithms: house to plan, topological order, sequential, greedy and optimized
schedules, reservation-table A*, a disruption of a schedule, its playback.
*Correct when* a plan is refused only if it cannot be built, a schedule respects
precedence and robots before and after a disruption, and routes do not collide.

### Multi-robot assembly (`assembly/`)

Two robots carry parts on a grid, by joint actions or by options that run for
several steps; a brain, a script or a trained policy chooses. MuJoCo may fail a
grasp; CoppeliaSim shows a scene through remote calls that may fail. *Hard:*
options that take no step, books of retries, a scene half synchronized. *Correct
when* robots never share a cell, the planners agree with each other and end, the
physics holds what the logic carries, and the scene shows the logical state.

### Skills, copilot, simulator drive (`core/`, `pipelines/`, `copilot/`, `coppelia_dynamic.py`)

A task executor with retries over a warehouse that keeps what earlier cycles
left; commands that are registered, run, filed and reported; robots driven to
their modules in a simulator. *Hard:* partial failure: a plan that ends with an
object in the gripper, a row without its report, wheels that still turn.
*Correct when* what is recorded and what is the case agree.

### How they interact

Users and scripts reach the lab through the API or the registry; services and
workers share the registry's tables; the selection reads the files a training
left and the registry's rows; the driver and the executor are clients of the
same queue. Environments are called in the worker's thread. The back ends of
the assembly follow its logical environment step by step. Components without
changing state (data classes, geometry, reports, the browser) are listed in
`PROJECT.json` with the reason why they are left out.

## Modules

| Module | Models | Depends on |
|---|---|---|
| `LabQueue` | the durable queue: rows, dispatchers, workers, reapers, users, clock | |
| `SlotLease` | what the queue promises: one slot, granted ticket by ticket | |
| `MCLabQueue` | bound and symmetry for TLC | `LabQueue` |
| `LabQueueProofs` | all safety properties of the queue, and that it implements `SlotLease` | `LabQueue` |
| `TrainingCheckpoint` | the training loop and its files over several attempts | |
| `MCTrainingCheckpoint` | run lengths for TLC | `TrainingCheckpoint` |
| `TrainingCheckpointProofs` | all safety properties of the checkpoint files | `TrainingCheckpoint` |
| `PolicySelection` | selection, evidence, freeze, collection, held-out evaluation | |
| `ResearchRules` | the rules that select, accept and decide | |
| `Studies` | both next to each other, with what they take for granted of the protocol | `PolicySelection`, `ResearchRules` |
| `PolicySelectionProofs` | the safety properties of both | `Studies` |
| `MCPolicySelection` | values for TLC | `Studies` |
| `BuildOrder` | what every executor of a plan promises | |
| `ConstructionEnv` | an episode of construction_coordination_v1 | `BuildOrder` |
| `FoldTheorems` | lemmas about numbers, finite sets, folds and sequences | |
| `ConstructionEnvProofs` | its safety properties, and that it implements `BuildOrder` | `ConstructionEnv`, `FoldTheorems` |
| `MCConstructionEnv` | a crew, a house and four scenarios | `ConstructionEnv` |
| `CoordinationEnv` | the first construction environment | |
| `BuildSchedule` | compiler, plan validation, schedulers, disruption, trace | `BuildOrder` |
| `RouteTable` | prioritized routing with reservations | |
| `DynamicExecutor` | a build driven in CoppeliaSim | |
| `AssemblyEnv` | the assembly environment, its planners, MuJoCo's part in it | |
| `CoppeliaBackend` | the scene that mirrors the assembly environment | |
| `Builders` | the six builders above, each in a world of its own, and what they take for granted of their constants | all of them, `BuildOrder` |
| `BuilderProofs` | all safety properties of the builders: schedules, routes, teams, drives, sites, planners and scenes; traces, bids, drives and sites that build in order | `Builders`, `FoldTheorems` |
| `MCBuilders` | values for TLC | `Builders` |
| `MatrixExecutor` | the executor of a matrix next to the API | |
| `Phase3Verification` | the driver of the phase-3 verification, its dispatchers and workers | |
| `WorkerReaper` | how the process of a fenced run is stopped | |
| `LabEvents` | an inline job, its events, their mirror, a websocket client | |
| `EvidenceGrid` | grids of episodes, their checks and their groups | |
| `SkillExecutor` | plans of skills, their retries, a collection episode | |
| `CopilotRunner` | one command of the copilot | |
| `Services` | the last seven, each in a world of its own, and what they take for granted of their constants | all of them |
| `MCServices` | values for TLC | `Services` |
| `RecordProofs` | events, commands and grids of episodes are as they were or should be | `Services`, `FoldTheorems` |
| `ComponentProofs` | what executor, reaper, skills and phase-3 driver promise | `Services`, `FoldTheorems` |

### How LabQueue corresponds to the code

A registry method is one `BEGIN IMMEDIATE` transaction or one statement, hence one
action (or the row part of one: `Finalize`, `Heartbeat`). What a thread does
between two transactions is a step of its own: `dpc[s]` is the position of the
dispatcher of service `s` in `_dispatch_durable_jobs`, `proc[l]` the position of
the worker process that was launched for lease `l`, and `reap`, `seen`, `gone`
the local variables of `reconcile_stale_runs` between its fence and its
finalization. Other services, workers and users interleave everywhere.

A claim token is a fresh uuid; the model names it by the run and the attempt it
was made for (a *lease*), and `token[r]` says whether the row holds the worker's
token of the current attempt, a reaper's token, or none. Two reapers that fence
the same run share the token, as in the code, where the second joins the first.
`pid[r]` is the attempt whose process the row names. `fresh[r]` abstracts the
age of the heartbeat: `LeaseExpires` is the passing of sixty seconds. The event
mirror appears where it matters: with `LogMayFail` an `OSError` can follow any
commit made by a dispatcher or a reaper, and the code's handlers (or their
absence) decide what happens next.

With `ProbeMayFail` a reaper may take a living worker for gone (`TakeForGone`):
`_process_alive` answers False when a process cannot be opened or signalled
(`lab_registry.py:1423-1441`), and on POSIX an identity that cannot be read again, or
comes out in another form, differs from the recorded one and counts as another
process (`lab_registry.py:1614`, `1637`, `1651`). The run is then released and may be
claimed again beside its old worker. The history variable `mistaken`, which no step
depends on, remembers those leases; `AtWork` is the registered workers that were not
taken for gone. An answer that the exit could not be verified is `GiveUp`.

Left out: SQLite lock timeouts, pid reuse (the code compares process identities;
`WorkerReaper`), the wording of events and errors, evaluations and training started
inline (`LabEvents`), a worker whose own event mirror fails (for the queue a `Die`).

### How TrainingCheckpoint corresponds to the code

One action per step between two writes of `train_swarm_policy` and
`persist_checkpoint`. Weights are the training they have absorbed, so that "the
counters agree with the weights" can be said; a decision adds `FleetSize` = 4
transitions; the arithmetic of targets (round half up, at least one, shared
targets), of the next stop and of the number of decisions is exact. `latest.pt`
and snapshots are replaced atomically; policy files are written in place and can
be left torn. `Stop` ends an attempt anywhere: a crash, an exception (of torch,
of the disk, of the progress callback), or a cancellation; `CancelClone` is the
one cancellation that saves a checkpoint first. The history variable `cut`
remembers fractions whose files an attempt left unwritten after `latest.pt` had
moved past them.

Left out: fingerprint, digest and schema checks of a checkpoint (they only
refuse), TensorBoard and learning-curve files, the numeric content of rollouts
and losses, fractions that are not whole percentages (their file names may
coincide), the ONNX export (an exception there is a `Stop`).

That attempts of one run never overlap is an assumption of this module. It is a
theorem of `LabQueueProofs` except for a worker that was taken for gone: that one may
still write into its directory until it next turns to the registry. What one such
write leaves for the attempt after it is in `Phase3Verification`.

### How the other modules correspond to the code

*PolicySelection.* A handler is an API thread or the script; one action per
write of a file, a row or a table, and `Quit` between any two. What an
evaluation finds is chosen freely from `Picks`, so two evaluations of one run
may disagree. A file that is being written is `Torn`. The history variable
`contested` names the evidence files that an evaluation opened while another was
writing them, or after the selection they belong to was frozen; the code does both.
*ResearchRules* holds the decision rules as operators; its steps make one piece of
evidence better.

*ConstructionEnv.* One action per method or loop body of `step`; routes, skill
outcomes, durations and energies are free within the constants, and of a route only
the cells matter that an obstacle of this episode has yet to block (`Exposed`). The
approach routes of one decision are one plan that its jobs share, so an obstacle on it
cancels all of them; the ways of the payloads (`carry`) are drawn but not looked at
when an obstacle falls. `obstacles` is part of the plan's grid and outlives the episode. The controllers
come with it: a loop of theirs over sorted modules is a fold of the set of modules
along the last of them, as it is in `CoordinationEnv`.
*CoordinationEnv* has one action per decision. *BuildSchedule* has one action
per job placed by the sequential and greedy controllers and one for the
solver's answer, which may be any feasible schedule with its starts in
`SolverStarts`, or none when it stops at its limit (`scheduler.py:164`; the plan is
then "unsolved"); times are integers. *RouteTable* routes one agent per step and
takes any path of least duration, since A* with a consistent heuristic returns
one of them.

*AssemblyEnv.* One action per primitive step, option or joint action; what
`execute_team_option` does within one call is `ChooseMove` followed by
`Primitive` steps, or `ChooseAtOnce`. `Compile` and `Load` are the two ways to a
site. Every controller of the repository is one: `scripted`, `brain`, `learned`
(any option the mask allows), `joint` (`scripted_joint_policy`) and `free` (any
joint action). MuJoCo appears where it feeds back: `Checked` may queue a failure,
`Attachment` is its equality constraint. *CoppeliaBackend* takes that environment
as the frames it can show; each remote call may raise and leave the rest undone.
*DynamicExecutor* has one action per control step of `follow_routes`; who has
arrived and who is in the safety zone is free.

*MatrixExecutor* and *Phase3Verification* see the queue as clients do: rows,
claims and ends of runs. Each poll, each branch on what it saw and each request
is a step of its own, so that rows may change in between. In *Phase3Verification* a
worker keeps in `own` the transitions it has itself trained, and one that was taken
for gone becomes `stray`: it may still write the checkpoint it trains for.
*WorkerReaper* has one action per system call; exit, `waitpid` and reuse of the pid
come in anywhere. Every call for the liveness of a process may fail, which counts as
its absence, and on POSIX its identity may also come out as another one; `mistaken`
says which answer about a living worker was believed.
*LabEvents* separates each transaction from the next and from the append to the
mirror. That append may raise (`LoseRecord`) and the process may die between any two
steps (`Die`): the records that are then lost are `cut`, for nothing writes them later.
A report of progress need not name a checkpoint. *EvidenceGrid* runs one episode per step. *SkillExecutor* has one action
per attempt of a skill; whether a grasp succeeds and what is seen is free.
*CopilotRunner* has one action per file or row, and `Stop` between any two.

`Builders`, `Services` and `Studies` put several modules next to each other so
that one run can check them: a variable `world` says which module's behaviour this
is, the variables of the others are constant, and each property is read in its
world. The modules share no state in the code either, or only through a queue that
each of them abstracts. What the modules take for granted of their constants stands
in these three modules as named assumptions, which TLC evaluates on every run of theirs.

## Runs

| Run | Question | Instance | Distinct states |
|---|---|---|---|
| `queue_faults` | Are rows consistent, the slot single, products and lineage right when the event mirror and calls about processes may fail, workers and services die, leases expire, users cancel and resume? | 2 runs, 2 attempts each, 3 claims in all, 1 service, 1 matrix | 4.9 million |
| `queue_exclusive` | Do two services keep one worker at work, respect live workers, implement `SlotLease`, but for workers that a failed call made them take for gone? | 2 training runs, 2 claims in all, 2 services (symmetric), reliable mirror, failing calls about processes | 727 thousand |
| `queue_liveness` | Are cancellations honoured, pending runs served, fenced leases released? | 2 training runs, 2 attempts each, 1 service, reliable calls | 61 thousand |
| `queue_duplicate_evaluation` | Is a matrix evaluation the only one? *(violated)* | 2 runs, 1 service | |
| `queue_orphan_claim` | Does a live worker keep its claim when the mirror may fail? *(violated)* | 1 run, 1 service | |
| `queue_stranded_run` | Does a service that stays up always reap stale runs? *(violated)* | 2 runs, 1 attempt each, 2 services | |
| `checkpoint_files` | Do the files allow an exact resume, are candidates right and immutable, does an attempt end? | totals 4, 13, 40, 43; five fractions; rollouts of 2 decisions; 2 epochs; 3 attempts | 24 thousand |
| `checkpoint_lost_fraction` | Does every run save every fraction? *(violated)* | total 40 | |
| `policy_selection` | Do evidence, registry and held-out evaluation agree, do frozen selections keep their evidence, are the rules monotone? | 2 runs, 2 handlers (two API threads, or one and the script), 1 held-out job; 3 checkpoints, 4 rates | 6.6 million |
| `construction_episode` | Do robots and jobs agree, is nothing overdue, is the order kept, under every bid and four scenarios of failures? | 3 robots, 4 modules, 5 decisions, time 9 | 135 thousand |
| `builders` | Are schedules, routes, crews, sites and scenes right, and do the loops end? | below | 451 thousand |
| `services` | Is the work of executor, driver, reaper, skills bounded and ended, are records faithful? | below | 1.1 million |

### Bounds

`NumRuns`, `MaxAttempts` and `MaxClaims` bound the queue. Two runs are what the
slot can be disputed by; a run needs two attempts for a late worker of the first
to meet the second. `queue_faults` has a third claim, which lets another run
come in between; `queue_exclusive` has two claims, which two services may make
in any order. Two
services give two dispatchers and two reapers; a third would only repeat the
role of one of them, since no step involves more than one service. It has no matrix,
which only adds a job that stores another product. The
liveness run uses one service, because the other may stop for ever anyway, and
is unconstrained: its finite bounds sit in the guards, not in a state constraint.
`queue_faults` distinguishes states by `Shown`, all variables but the history
`mistaken`, which no step and none of its other properties depends on. In
`queue_liveness` calls about processes are reliable, because with failing ones its
instance has ten times as many states. A failed call only lets a reaper go on where it
would have waited; with failing calls the three properties also hold of one run with
two attempts and of two runs with one, which is `ProbeMayFail = TRUE` in its configuration.

The four totals of `checkpoint_files` give targets that are distinct and on the
grid of decisions (40), off the grid with fractions that round up (43), two
targets crossed by one decision (13), and shared targets, one of which would
round to zero (4). Three attempts allow a cut attempt to follow a resumed one.

`policy_selection` has two of everything that can disagree. `construction_episode`
has a team of two, a weak robot and a battery of one; its scenarios put an outage
inside another, an obstacle on a route and under a target, and a drop on a load.
`builders`: two compiled houses and every plan of two or three modules of four
kinds, so that chains, forks, joins and cycles occur, for a crew of two strong and
two weak robots; solver starts are bounded to five and solved plans to two modules.
Three agents on three by two cells, with or without a column, meet head on. Four
modules for three robots; three modules, routes of one waypoint and two control steps for the drive; a
scene of two elements. Sites of four by four cells: parts in declared and in
dependency order, a cycle, an overlap, obstacles, failing manipulations, a part
one column before the last one (`Close`), and every joint action on a small one.
`services`: two runs with two attempts and two requests; the driver's two runs and
held-out evaluation with two checkpoints after the first for one run and one for the
other (so that a stray worker meets an attempt that has already trained), three attempts;
all platforms; an inline job with two API threads, one report and one fault, which is a
failing write or the death of the process; three objects, two
stations, targets that do not exist, three cycles, two retries; every kind of
command; grids of up to three entries, two seeds and a foreign one, and candidate
files with up to one episode too many. For a stray worker to put an older checkpoint
over a newer one a run needs three checkpoints after the first: that is covered by the
proof, which is for any number.

### Fairness

`LiveSpec` assumes weak fairness of the dispatcher thread and of its
reconciliation while they are alive (the loop never blocks: every wait has a
timeout), of the steps of a live worker between polls, and of the clock for a
lease that nobody renews. It does not assume that jobs end, that users act, or
that a service is ever restarted; where a property needs a service that stays
up with a living dispatcher (`Served`) or jobs that end (`JobsEnd`), it says so
in its hypothesis. `TrainingCheckpoint` assumes weak fairness of the loop's own
steps, each of which is a bounded computation or a write.

`MatrixExecutor` assumes weak fairness of the executor's loop and strong fairness
of claim and end for each run, which is `PendingServed` and a job that ends;
`Phase3Verification` of the driver and the dispatcher, which are running threads
that wait with timeouts; nothing of workers, since every wait of the driver has a
deadline. `SkillExecutor`, `DynamicExecutor` and `ConstructionEnv` are loops that
never block, with weak fairness of their steps. The fairness of `AssemblyEnv` is
weak fairness of `Next` with the disabled states written out (`Idle`): an option
may be over where it begins, and then the loop goes round without a change of
state, which `ENABLED` of a changing step cannot express cheaply.

### Seeded faults

Definitions whose comment starts with "Seeded fault" are not part of a
specification. Each is a definition of the model with one plausible bug: a
dropped guard, a counter that is not restored, two writes swapped. Replacing the
original by the fault must make TLC report the property that is listed with it
in `PROJECT.json` ("mutants"); this shows for every property of a passing run
that the run is able to notice.

## Findings

1. **A fraction can be lost for good** (`checkpoint_lost_fraction`).
   `persist_checkpoint` moves `latest.pt` past a target before the snapshot and
   the policy file of that fraction exist; a resumed attempt takes the fraction
   for saved. The run completes, and the checkpoint selection later refuses it.
   `MissingOnlyIfCut` is the converse, checked by `checkpoint_files` and proved:
   apart from a fraction that shares its target with a larger one, this is the
   only way to lose one.
2. **A live worker can be declared failed** (`queue_orphan_claim`). The
   `except OSError` of the launch also covers the event mirror and the
   reconciliation loop after it.
3. **A dispatcher thread can die of a lost claim** (`queue_stranded_run`).
   `LostRunClaimError` from its own registry calls is not caught; its service
   stays up and never reconciles again.
4. **Two evaluations of one matrix** (`queue_duplicate_evaluation`). Only
   creation looks for duplicates; resuming a cancelled evaluation does not.

Behaviour that the properties name because the code has it, without a line of
the repository that says otherwise:

* The executor polls for ever for a run that was interrupted before its first
  checkpoint or out of attempts, or cancelled with a checkpoint and attempts left
  (`Overlooked` in `MatrixExecutor`).
* Moving aside after an installation takes no step when the next part lies one
  column before the last one; a script repeats it for ever, and the brain gives
  up only after all its decisions (`Stalled` in `AssemblyEnv`).
* A reaper takes a failed call for the liveness of a worker for its absence, and on
  POSIX an identity it cannot read again, or reads in another form, for a reused pid:
  it releases a run whose worker lives. Without pidfd the signal can reach a
  stranger (`ReaperSound`). Another worker may then be at work beside the old one,
  which has lost its claim for good (`OneExecutor`, `OneWorker` in `Phase3Verification`).
* A record whose one write into the JSONL file failed, or whose process died before it,
  is never written later; a failing write also ends an inline job that has just been
  started, and fails one that reports its progress (`EventsFaithful`).
* An evaluation that is repeated after a freeze is refused only by the freeze: by then it
  has overwritten the evidence of the frozen selection (`EvidenceKept`).
* Obstacles stop approaches only. A payload goes on over a cell, or to a target, that
  was blocked after its job began; an obstacle on the approach of one robot cancels
  every job of that decision; and it stays in the plan's grid for all later episodes
  (`ObstaclesHeeded`).
* The optimizing controller gives up on a plan that can be built if the solver reaches
  its limit of deterministic time without a schedule (`ScheduleSound`).
* In the phase-3 driver a worker that completes before the reconciliation, or
  whose identity cannot be read, fails the verification; in the second case its
  run stays fenced and is never released (`Phase3Verification`).
* Elements of the CoppeliaSim scene keep the orientation of their installation
  for ever (`SceneMirrors`), and a scene that could be built only in part is
  ready all the same.
* A collection reports a failure without a failing step when perception missed a
  target, and an unknown drop zone keeps the object in the gripper (`TasksSound`).
* A copilot run stays "running" for ever if the copilot is stopped (`RecordsKept`).
* Two agents that start in the same cell are routed in conflict, and that is the
  only conflict of a plan (`RoutesDisjoint`).
* `run_evaluation_suite` evaluates a whole grid before it refuses a repeated seed
  or controller (`EvidenceGrid`).

## Proofs

TLC looks at one small instance; a theorem holds for every value of the constants
that their named assumptions admit:

* `QueueAssumption`: bounds are natural numbers, training is not a matrix,
  `LogMayFail` and `ProbeMayFail` are Boolean. `TrainingAssumption`: all are natural numbers, 100
  percent is a fraction. `ExecutorAssumption` (also that of the phase-3 driver):
  runs are 1..n, not none, and attempts are limited.
* `SelectionAssumption`: runs are 1..n, a handler is an API thread or the script,
  and "nothing", a torn file and a whole one are told apart and are no selection.
* `ProtocolAssumption` (`ProtocolNumbers`): thresholds are numbers,
  rates and the least reduction percentages, as the fields of `experiment_protocol.py`
  demand, and later checkpoints have seen no fewer transitions.
* In `Builders`: `RouteAssumption` (agents are 1..n, width, height and `max_length`
  are natural numbers, requests name cells of the floor), `HouseAssumption` (what
  `models.py` checks of its fields, and that picking up takes no shorter than the time
  between two frames of a trace), `BidAssumption` (what `validate_plan` accepts of a
  fleet and a plan), `SiteAssumption` (a site has a part and an episode a step; a scenario
  puts its robots on two cells of the grid and its parts in places of their own).
  `ModularBlueprint` demands the step (`max_steps`, at least one); `AssemblyScenarioConfig` does
  not, nor does it compare starts or places, but the scenarios in `configs/` and those
  that `scenario_generation.py` makes are so. With two parts in one place a slot would
  count as complete before its part is installed.
* In `Services`: `UsersAssumption` (finitely many threads), `SkillAssumption` (positions
  and stations have an order, a tabletop task names an object of the scene),
  `GridAssumption` (seeds are integers, those of a split finitely many).
* `FleetAssumption`, `ClockAssumption`: finite fleets and plans, teams of one or two
  (the code has no others), a job takes time, and the failures of a scenario are
  sorted by time, as the environment sorts them.

`DynamicExecutor` and `WorkerReaper` are proved without any assumption.

### Durable queue

All in `LabQueueProofs`.

* `TypeCorrect`, `SlotIsSingle`, `RowsAreConsistent`, `CompletionIsFinal`, with or without a reliable mirror. The inductive invariant
  `RowInv` adds to the three state properties that rows not yet created are blank,
  that an active run was claimed, and that a dispatcher following a claim knows its
  lease. Its key lemma `RowCases` reduces the thirty actions to six effects on
  the columns the slot depends on: none, a user's, a renewed heartbeat, a
  finalization of an active run, a claim, a fence.
* `MutualExclusion` and `OrphanKeepsClaim` assume
  `LogReliable`; without it the second is false (finding 2), and so is the
  argument for the first. Nothing is assumed of calls about processes: the first says
  that of two registered workers one was taken for gone, and has lost its claim for
  good. `SingleSlot` alone does not give exclusion: a worker may
  survive its claim. The inductive invariant `ExclusionInv` adds five facts.
  `LeaseOrder`: leases are numbered in order, one dispatcher each, at most one
  process each. `WorkerGone`: a dispatcher closes a lease only when its process
  is gone or never was. `WorkerCurrent`: a registered worker holds the current
  attempt of an active run that names it. `ReaperKnows`: what a reaper read of
  a fenced lease stays true, so when it finalizes nobody is at work whom it has not
  taken for gone. `MistakenLost`: such a worker holds a lease that is fenced or
  superseded, and no step gives it back.
  `WorkerCurrent` implies the theorem together with `SingleSlot`; the others are
  what keeps it through finalizations by dispatchers and reapers.
* `CompletionIsBacked` and `LineageIsRecorded`, with or without
  a reliable mirror: neither needs exclusion. `ProductInv` adds to `RowInv` and
  `LeaseOrder` what a worker has stored at each point of its job (`RowStored`,
  `LinkRecorded`), and why a second attempt has something to continue: a run is
  resumed for training only from a checkpoint, and the first checkpoint is reported
  by a worker that has started (`ResumedFromCheckpoint`, `CheckpointAfterStart`).
  `MildStep` disposes of the steps that touch neither; what is left is seven.
* `SlotImplemented`, from `ExclusionInv`: every step
  of every actor is a step of `SlotLease` or a stutter under the mapping at the
  end of `LabQueue`, in which a worker that is taken for gone leaves work.

### Training and selection

* `TypeCorrect`, `ResumesExactly`, `CandidatesUsable`, `LineageKept`,
  `CompletedRunPublishes`, `LatestNeverBack` and `FractionsWrittenOnce`
  (`TrainingCheckpointProofs`): every safety property that `checkpoint_files`
  checks. They are consequences of one inductive invariant, `TrainInv`, because
  each needs the others: that files are written once follows from what counts as
  saved, which follows from `latest.pt` never passing a target that is due.
  `Schedule` says that the targets passed so far are exactly the saved and the
  due ones; `LatestInv` places `latest.pt` on the near side of every due target
  until it is saved; `SnapshotInv` and `PolicyInv` tie each file to its target
  and to the step of `persist_checkpoint` that wrote it; `PublishInv` gives
  every saved fraction its policy file or its place in `cut`; `CloneFirst` and
  `FinalInv` say where the epochs and the final policy stand. The numeric lemmas
  (`TargetRange`, `TargetFacts`, `DecisionFacts`) bound the rounded targets and
  show that a rollout is never empty and overshoots its stop by less than one
  decision.
* `EvidenceIsKept`, `CopiesAreOfFrozen` and `HeldoutIsBacked`
  (`PolicySelectionProofs`), for any number of runs, handlers and held-out jobs.
  A copy of the selections is taken only where all of them are frozen, and from
  there on none of them changes; so `SelectionInv` follows each copy: what a
  handler holds at each point (`HandlerHolds`: its own choice until it has
  registered it, then the part of the table it has checked, then the whole), what
  the job holds (`JobHolds`), and what files and rows hold. `EvidenceInv` follows the
  evidence files: one that is not contested has at most one evaluation between opening
  and freezing it and holds what that one has filled in (`WriterHolds`), and when it
  freezes, nobody is left who would write there (`HasEvidence`); what a request has
  read stays that of the frozen selections (`ReadAgrees`).
* `VerdictsAreMonotone` (`PolicySelectionProofs`): better evidence never costs a
  verdict of `ResearchRules`, rule by rule under the order of improvement of each.
  Fractions are compared by their cross products. The best checkpoint exists because
  its score is a least number, and a worse one is never taken for it.
  `EvidenceOnlyHelps` is the same for the specification of the run.

### Construction

* `CrewsAreConsistent`, `NothingIsOverdue`, `OutagesLast`, `ObstaclesAreHeeded`,
  `ControllersAreServed` and `EpisodeIsBuild` (`ConstructionEnvProofs`): all that
  `construction_episode` checks. `EnvInv` has two halves. `Backed` keeps jobs and
  robots in step: whatever ends or cancels jobs does it to whole teams, and a team
  is formed of idle robots. `ClockInv` says at which points of a step something may
  still be due; the clock moves to the nearest event, so failures strike in their
  order and at their time (`InOrder`), without which `Excused`, the reason why each
  robot is in or out of service, would not survive an outage inside another. `WaysInv`
  is what obstacles need: what has fallen is an obstacle, robots set out from cells on
  the approach of their job or cells no longer to be blocked, and a job began before
  whatever falls during it. On the
  way: the first team in lexicographic order is among the bidders, large and strong
  enough (`FirstTeam`). `EpisodeIsBuild` is a consequence of `Backed`.
  `ControllersAreServed` is about the loops of the controllers: after every module
  whoever bids is in a capable team of idle robots for one of the modules so far
  (`Teamed`), and nobody who is left makes another (`Exhausted`); for the auction,
  whoever bids is in the team that was offered (`Offered`), whatever the order.
  The mask of the environment admits such bids, and its selection among the members
  of a team is that team (`TeamedAreAccepted`).
* `SchedulesAreSound` and `TracesBuildInOrder` (`BuilderProofs`), for every plan and
  fleet, under `HouseNumbers`, which is what `models.py` checks of its fields: a plan
  has a module, a module takes a robot, robots move. What validation compares with is
  right: the strongest robots are a set that is closed upwards (`StrongestAre`), so no
  other team of its size lifts more (`StrongestLiftMost`), and the rounds of the
  topological order reach every module just if no modules wait for each other
  (`AcyclicIsSound`). `HouseInv` then says that the jobs so far fit each other and rest
  on none that waits (`JobsOK`), that each ends within the sum of the longest durations of
  the modules placed (`JobsEnd`; so the greedy controller stays within the horizon of
  the solver, which is that sum for all), and that the clock and the times at which
  robots become free are ends of jobs. `Placing` is the step of both built-in
  controllers, `Choosing` what the solver returns, if anything, `Delaying` the disruption, which
  moves what starts later as a whole. Only the solver may end without a schedule. A greedy controller that waits has a robot to wait for:
  otherwise all jobs would have ended, and some module could start. Idle time is
  never negative because the jobs take up separate cells of robots and seconds
  (`BusyBound`).
* `RoutesAreDisjoint` (`BuilderProofs`), for any floor and any number of agents.
  What a path can reach is a recursive function of the time; that it exists is
  `Recursion`. `PathsAreWays` says what a path is, `WaysKeepApart` that a way past
  the reservations of another path meets or swaps with it at most at its first cell,
  and `RouteInv` that the reservations are those of the paths so far.
* `TeamsAreSound` and `BidsAreBuild` (`BuilderProofs`), for the first environment.
  `BidInv` is `TeamsSound` with the types of the variables. The script is a fold as
  above; that it never decides in vain follows from the plan: of the modules that are
  missing one has its dependencies, and the strongest robots can carry it.
* `SitesAreSound` and `SitesBuildInOrder` (`BuilderProofs`), for any grid, blueprint or
  scenario, controller and physics, under `SiteNumbers`: a site has a part, and a
  scenario, whose starts the code does not compare, puts its robots on two cells of the
  grid. `OrderSorted` shows that each round of the topological order keeps parts apart
  and after what they rest on. A joint action is taken apart the way `step` is: moving
  touches no book (`FreeSteps`, `RigidSteps`, `MovesSound`), an attempt changes each book
  once (`AttemptSound`; `OneMoreAttempt` for the sum), and a failure that the physics
  queues is due in the same step and taken out by it (`ChecksSound`, `StepSound`).
  `SiteInv` adds to `AssemblySound` that a part that is carried was made good if its
  grasp had failed, without which the books of what is built would not survive an
  installation.
* `ScenesMirror` (`BuilderProofs`): each call that returns has synchronized the whole
  scene (`SyncedLooks`), and one that raises promises nothing to be shown.
* `PlannersAlwaysAgree` (`BuilderProofs`), under the same assumptions, for any limit of
  steps, of decisions and of primitive steps. That script and brain choose alike is a
  fact about every state (`PlannersChooseAlike`), the rest is not. `PlansInv` says of a
  loop what its properties come from. *No collisions*: at each decision a script or a
  brain has run into nothing, and an option that goes on suits what the hands hold
  (`Suits`), because only then do the robots move as one piece; for an empty-handed pair
  the search on the grid keeps each robot off the other (`SearchKeepsOut`, by the levels
  of the search; `AloneIsSmooth`, `JointIsSmooth`), and for a carried part both cells of
  the formation are open (`RigidIsSmooth`); a grasp or an installation is only tried
  where it is due. *Complete slots*: no two parts belong to one place (`PlacesApart`),
  for a blueprint because its compiler compares all reserved cells (`PlacesReserved`).
  *Giving up*: every decision takes a step, except where the loop is `Stuck`, so that the
  decisions stay within the steps, and an episode that is not over has steps left; once
  stuck always stuck, for nothing changes any more (`StuckIs`). *Milestones*: none is
  later than the clock, and the second follows a part in hand (`MilestonesOK`).
* `DriveIsSound` and `DriveIsBuild` (`BuilderProofs`), for a driven build.
  `DriveInv` bounds by how much the environment, which is done with a module as
  soon as it has decided, can be ahead of the robots (`Ahead`).
* `SchedulesSound`, `RoutesSound`, `CrewsAreSound`, `BuildingSites`, `SitesAgree` and
  `BuildersBuildInOrder` (`BuilderProofs`) state the properties of the `builders` run of its
  specification. In `BuildersInv` each component keeps the invariant above in its own
  world; a step of the whole is one of the component whose world it is (`BuildersMove`). The
  last of them shows traces, bids, drives and sites to implement `BuildOrder` under one
  mapping.

### Services

* `AttemptsAreBounded` (`ComponentProofs`). The executor acts on rows it has read
  before; `MatrixInv` counts an attempt from the moment it is owed (`Owed`), and
  says that a stopped run has gone on since it was read only as often as the API
  resumed it (`SinceRead`).
* `ReaperIsSound`: `ReaperInv` says what a handle names at each place, for the
  three platforms at once. Of calls that fail nothing is assumed: the theorem says
  which of their answers a released run with a living worker can be put down to.
* `VerificationIsSound`, for any number of runs and of checkpoints. `PhaseInv` has
  four parts: types; `SlotHeld`, who has the slot and lives; `JobSound`, what row,
  events and files of one job say of each other; and `PlaceSound`, what the driver
  may rely on at each place: until it resumes the interrupted run nothing has had a
  second attempt, so a second start in the events is the one it caused; until it
  restarts there is no dispatcher; after the clean-up nothing is left to be claimed.
  What the worker and the dispatcher leave of a job for the driver to rely on is
  `Steady`, so that their steps need not be looked at place by place (`SteadyPlace`);
  the driver's steps change rows in two ways, which `JobsMoved` and
  `ResumptionMoves` cover. Until a worker is taken for gone, the file of a job holds
  what is published of it, and its worker has no less (`Undisturbed`); from then on the
  driver relies on rows and events alone, and the job of the stray worker is active
  only in a later attempt.

* `TasksAreSound` (`ComponentProofs`), for any scene, number of cycles and retries,
  under `SkillNumbers`: positions and stations have an order, and a tabletop task
  names an object of the scene. `SkillInv` reads a collection by its errands, four
  steps each (`Fetches`): while one is on its way the robot holds its object, those
  before it are delivered, and a plan that fails for good does so between errands,
  because with a real drop zone neither the way there nor the delivery can be refused.
  With any other zone nothing is ever delivered, and nothing else is promised.
* `WorkIsSound` (`ComponentProofs`) and `RecordsAreFaithful` (`RecordProofs`) state the two
  invariants of the `services` run of its specification, by `WorkInv` and `RecordInv`, which
  hold what the items above and below keep, each in its world.
* `EventsAreFaithful` (`RecordProofs`), for finitely many threads, failing writes and
  deaths of the process included: `LogInv` follows
  each event from the change that calls for it (`owed`) through the thread that is
  to append it to the table, the mirror and the client; what is counted is a finite
  set of positions, which grows by one with each append.
* `RecordsAreKept` (`RecordProofs`): `CommandInv` says which files and rows there are
  at each place of a command, and what a command cut off there leaves.
* `GridsAreFaithful` (`RecordProofs`), for any baselines, policies and seeds, under
  `GridNumbers`: seeds are integers, those of a split are finitely many, and an entry is
  a record of controller, variant and training seed. The episodes are a beginning of
  the plan (`GridInv`), whose cells are found at their places (`PlanCells`). All rests
  on `Covered` (the episodes have the cells of the grid) and `Apart` (no two have the
  same): both checks come to the two of them (`ValidatesTells`, `CandidateTells`),
  they give every training seed of a group the same scenarios once each
  (`AggregatesWeigh`), and a grid that was asked for properly has them by its plan
  (`SoundPlan`), so that a check that only counts lets it pass (`SoundHeldout`).

### Folds

A fold of the community modules is a function that is chosen by its recursive
equation; nothing follows from it until a function of that kind is known to exist.
`FoldTheorems` proves that: `Recursion` for functions defined from one number to the
next, `Gathering` for those defined from a finite set without its last element to
the whole, by induction on numbers in the form of `LeastNumber`. `OneByOne` then is
induction along the same order, and `LastInOrder` finds the last element. Two facts
about sequences follow: a finite set can be sorted (`CanBeSorted`), and pieces of one
length that `FlattenSeq` strings together are found again at their places, and nothing
else is (`EqualPieces`, `PieceOf`). `Distinct` tells by its cardinality that a list has
no element twice. `Total` is the sum of a function over a finite set: whatever adds its
values up in some order comes to it (`AddedUp`), elements and parts can be taken out of it
(`TotalWithout`, `TotalUnion`), it grows with its terms (`TotalWithin`, `TotalBound`),
renaming the elements leaves it alone (`TotalImage`), and the sizes of disjoint sets add up to
that of their union (`TotalSizes`).

Each inductive invariant was checked by TLC on the instance of the run that checks
its component before it was proved.

### Only model-checked

* All liveness properties (`CancelHonoured`, `PendingServed`, `FencedReleased`,
  `AttemptEnds`, `BuildsEnd`, `ServicesEnd`): out of the prover's reach.

Every invariant and every action property that a run checks is proved; for the queue,
where it depends on it, under `LogReliable`.

## Not modelled

* Numeric content: networks, losses, rewards, observations, bootstrap intervals,
  physics, geometry, poses, energies. No property of the control depends on it;
  where a number decides (a rate, an arrival, a grasp) it is chosen freely.
* Text: reports, logs, tables, artifacts of the evidence bundle
  (`research_evidence.py`), digests and Git checks, which only refuse.
* Data classes, floor plans, asset export and Blender scripts
  (`floorplan.py`, `browser_assets.py`, `blender*.py`): no state that changes.
* Real simulators (PyBullet, MuJoCo, CoppeliaSim): external; their answers are
  free choices.
* The browser workbench, and the two API calls that replace the design in
  memory; its non-atomic replacement is seen by whoever reads at that moment, and
  nothing durable depends on it.
* The websocket that replays a trace, which only paces its frames.

## Plan

1. *Done.* `LabQueue`, `SlotLease`, `TrainingCheckpoint` with their proofs;
   `PolicySelection`, `ResearchRules`, `ConstructionEnv`; the builders and the
   services above.
2. *Done.* Proofs of all safety properties, and of the three refinements
   (`SlotLease`; `BuildOrder` by an episode and by the builders).
3. Composition: `MatrixExecutor` and `Phase3Verification` over `LabQueue` itself
   instead of their view of it.

Modules are written so that they can be proved about: no RECURSIVE operators,
named assumptions on the constants, one action per operation.
