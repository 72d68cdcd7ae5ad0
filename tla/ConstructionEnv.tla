--------------------------- MODULE ConstructionEnv ---------------------------
(***************************************************************************)
(* An episode of construction_coordination_v1 (marl_env_v1.py).  At each   *)
(* decision the robots bid for modules, capable teams start jobs, and the  *)
(* clock jumps to the next event: a job ends, a failure of the scenario    *)
(* strikes, or a robot comes back into service.  A call of step is the     *)
(* sequence Bid, Clock, ApplyFailure*, Recover, Finish*, EndStep, between  *)
(* which nothing else runs; each of them is one method or one loop body.   *)
(*                                                                         *)
(* Time is counted in ticks and cells stand for the grid.  Routes, skill   *)
(* outcomes, durations and energies are chosen freely within the CONSTANTS.*)
(***************************************************************************)
EXTENDS Integers, SequencesExt

CONSTANTS
    Robots,       \* robot ids, in the order of their names
    Modules,      \* module ids, positive and in the order of their names
    Deps, TeamSize, Mass,       \* of each module
    Payload, Battery,           \* of each robot
    HomeCell,                   \* start pose of each robot
    StagingCell, TargetCell,    \* of each module and formation index, 0 the centre
    Aisles,                     \* further cells that routes may cross
    Durations, Energies,        \* of a job; energy is per robot
    Scenarios,    \* sequences of failures, ordered by trigger time and id
    MaxDecisions, MaxTime,      \* max_decisions, max_sim_time_s
    Never         \* math.inf

Cells ==
    {HomeCell[r] : r \in Robots} \cup Aisles
        \cup UNION {{StagingCell[m][i], TargetCell[m][i]} : m \in Modules, i \in 0..2}

Wait == 0   \* the action of a robot that does not bid, and no module at all

Failures == UNION {{s[i] : i \in DOMAIN s} : s \in Scenarios}

ASSUME FleetAssumption ==
    /\ Robots \subseteq Nat /\ IsFiniteSet(Robots)
    /\ Modules \subseteq Nat \ {Wait} /\ IsFiniteSet(Modules)
    /\ Deps \in [Modules -> SUBSET Modules]
    /\ TeamSize \in [Modules -> 1..2]
    /\ Mass \in [Modules -> Nat] /\ Payload \in [Robots -> Nat]
    /\ Battery \in [Robots -> Nat \ {0}]
    /\ StagingCell \in [Modules -> [0..2 -> Cells]]
    /\ TargetCell \in [Modules -> [0..2 -> Cells]]
    /\ HomeCell \in [Robots -> Cells]

ASSUME ClockAssumption ==
    /\ Durations \subseteq Nat \ {0} /\ Energies \subseteq Nat
    /\ MaxDecisions \in Nat \ {0} /\ MaxTime \in Nat \ {0}
    /\ Never \in Nat /\ Never > MaxTime
    /\ \A s \in Scenarios : /\ IsFiniteSet(DOMAIN s) /\ DOMAIN s \subseteq Nat
                            /\ \A i, j \in DOMAIN s : i < j => s[i].at <= s[j].at
    /\ \A f \in Failures :
        /\ f.kind \in {"robot", "obstacle", "drop"}
        /\ f.at \in Nat /\ f.duration \in Nat
        /\ f.kind = "robot" => f.robot \in Robots
        /\ f.kind = "obstacle" => f.cell \in Cells

VARIABLES
    scenario,    \* the failures of the scenario at hand
    phase,       \* the part of step that comes next; "over" without agents
    robot,       \* robot_runtime: status, job, until (available_at_s), battery, at
    jobs,        \* active_jobs; NoJob for a module without one
    completed,
    simTime, decisions,
    pending,     \* pending_failures, as indices into scenario
    obstacles,   \* the obstacle cells of the plan's grid
    routing      \* what the event log says of the last allocation

vars == <<scenario, phase, robot, jobs, completed, simTime, decisions, pending,
          obstacles, routing>>

NoJob == [team |-> {}]
Active == {m \in Modules : jobs[m] # NoJob}
Idle   == {r \in Robots : robot[r].status = "idle"}

Fresh(r) == [status |-> "idle", job |-> Wait, until |-> 0,
             battery |-> Battery[r], at |-> HomeCell[r]]

Init ==
    /\ scenario \in Scenarios
    /\ phase = "decide"
    /\ robot = [r \in Robots |-> Fresh(r)]
    /\ jobs = [m \in Modules |-> NoJob]
    /\ completed = {} /\ simTime = 0 /\ decisions = 0
    /\ pending = DOMAIN scenario
    /\ obstacles = {} /\ routing = "none"

\* A new episode of the same environment: the grid keeps its obstacles.
Reset ==
    /\ phase = "over"
    /\ phase' = "decide"
    /\ robot' = [r \in Robots |-> Fresh(r)]
    /\ jobs' = [m \in Modules |-> NoJob]
    /\ completed' = {} /\ simTime' = 0 /\ decisions' = 0
    /\ pending' = DOMAIN scenario /\ routing' = "none"
    /\ UNCHANGED <<scenario, obstacles>>

-----------------------------------------------------------------------------
(* Teams and bids.                                                         *)

\* Seeded fault: one finished dependency is enough.
ReadyEarly ==
    {m \in Modules \ completed : jobs[m] = NoJob /\ (Deps[m] # {} => Deps[m] \cap completed # {})}

Ready == {m \in Modules \ completed : jobs[m] = NoJob /\ Deps[m] \subseteq completed}

\* action_mask: payload is looked at only where one robot works alone.
Mask(r) ==
    {Wait} \cup {m \in Ready : /\ robot[r].status = "idle"
                               /\ TeamSize[m] = 1 => Payload[r] >= Mass[m]}

Carries(T, m) == MapThenSumSet(LAMBDA r : Payload[r], T) >= Mass[m]

\* combinations() yields teams in lexicographic order.
Precedes(T, U) == T # U /\ Min(SymDiff(T, U)) \in T

CapableTeams(m, candidates) == {T \in kSubset(TeamSize[m], candidates \cap Idle) : Carries(T, m)}

\* _select_capable_team; {} for None.
Team(m, candidates) ==
    LET teams == CapableTeams(m, candidates)
    IN  IF teams = {} THEN {} ELSE CHOOSE T \in teams : \A U \in teams \ {T} : Precedes(T, U)

\* The order in which modules are allocated: larger teams first.
Before(m, n) == TeamSize[m] > TeamSize[n] \/ (TeamSize[m] = TeamSize[n] /\ m < n)
LastOf(modules) == CHOOSE m \in modules : \A k \in modules \ {m} : Before(k, m)

NoBids == [r \in Robots |-> Wait]
BidFor(bids, T, m) == [r \in Robots |-> IF r \in T THEN m ELSE bids[r]]

\* Seeded fault: robots that have bid stay available to the modules that follow.
ScriptedOverbids ==
    LET grab(m, bids) == BidFor(bids, Team(m, Idle), m)
    IN  MapThenFoldSet(grab, NoBids, LAMBDA m : m, LastOf, Ready)

\* A robot that has bid is no longer available to the modules that follow.
Grab(m, bids) == BidFor(bids, Team(m, {r \in Idle : bids[r] = Wait}), m)

\* The two scripted controllers.  Here the last module bids after all others.
ScriptedBids == MapThenFoldSet(Grab, NoBids, LAMBDA m : m, LastOf, Ready)

\* A module whose team is no longer available goes without.
Serve(T, bids, m) == IF \A r \in T : bids[r] = Wait THEN BidFor(bids, T, m) ELSE bids

Served(offer, order) == FoldLeft(LAMBDA bids, m : Serve(offer[m], bids, m), NoBids, order)

\* Every module names its nearest team; the nearest pairs are served first.
AuctionBids ==
    LET biddable == {m \in Ready : CapableTeams(m, Idle) # {}}
        offers == {f \in [biddable -> SUBSET Idle] :
                    \A m \in biddable : f[m] \in CapableTeams(m, Idle)}
    IN  {Served(offer, order) : offer \in offers, order \in SetToSeqs(biddable)}

\* Bids that the mask forbids are counted as invalid and ignored.
Bidders(bids, m) == {r \in Robots : bids[r] = m /\ m \in Mask(r)}

-----------------------------------------------------------------------------
(* _allocate: the first half of step.                                      *)

\* _formation_point: a lone robot stands at the centre.
Slot(r, T) == IF Cardinality(T) = 1 THEN 0 ELSE Cardinality({q \in T : q <= r})

\* Where the approach routes of a batch start and end.
Endpoints(won, team) ==
    UNION {UNION {{robot[r].at, StagingCell[m][Slot(r, team[m])]} : r \in team[m]} : m \in won}

\* Open cells that a failure of this episode has yet to block.
Exposed == {scenario[i].cell : i \in {j \in pending : scenario[j].kind = "obstacle"}} \ obstacles

\* A payload is carried from the centre of the staging place to that of the target.
CarryEnds(m) == {StagingCell[m][0], TargetCell[m][0]}

Job(m, T, work, cells) ==
    [team |-> T, start |-> simTime, end |-> simTime + work.duration,
     energy |-> work.energy, success |-> work.success, approach |-> cells,
     carry |-> work.crossed \cup (Exposed \cap CarryEnds(m))]

\* Of routes only the exposed cells matter.
Works == [duration : Durations, energy : Energies, success : BOOLEAN, crossed : SUBSET Exposed]

Assign(started, team, work, cells) ==
    /\ jobs' = [m \in Modules |-> IF m \in started THEN Job(m, team[m], work[m], cells) ELSE jobs[m]]
    /\ robot' = [r \in Robots |->
                    IF \E m \in started : r \in team[m]
                    THEN [robot[r] EXCEPT !.status = "busy",
                                          !.job = CHOOSE m \in started : r \in team[m]]
                    ELSE robot[r]]

\* The jobs of one batch share its approach routes.  The router may find no
\* path even if no endpoint is blocked; then the whole batch is given up.  A
\* payload without a path only loses its own module.
Allocate(bids) ==
    LET won == {m \in Ready : Team(m, Bidders(bids, m)) # {}}
        team == [m \in won |-> Team(m, Bidders(bids, m))]
        endpoints == Endpoints(won, team)
    IN  \/ /\ won = {} /\ routing' = "none" /\ UNCHANGED <<jobs, robot>>
        \/ /\ won # {} /\ routing' = "blocked" /\ UNCHANGED <<jobs, robot>>
        \/ /\ won # {} /\ endpoints \cap obstacles = {}
           /\ \E lost \in SUBSET won, crossed \in SUBSET (Exposed \ endpoints) :
                LET started == won \ lost IN
                /\ {m \in won : CarryEnds(m) \cap obstacles # {}} \subseteq lost
                /\ \E work \in [started -> Works] :
                    Assign(started, team, work, crossed \cup (Exposed \cap endpoints))
                /\ routing' = IF started = {} THEN "blocked" ELSE "routed"

Bid ==
    /\ phase = "decide"
    /\ decisions' = decisions + 1
    /\ \E bids \in [Robots -> Modules \cup {Wait}] : Allocate(bids)
    /\ phase' = "advance"
    /\ UNCHANGED <<scenario, completed, simTime, pending, obstacles>>

-----------------------------------------------------------------------------
(* _advance_to_next_event: the second half.                                *)

EventTimes ==
    {jobs[m].end : m \in Active}
        \cup {t \in {scenario[i].at : i \in pending} : t >= simTime}
        \cup {t \in {robot[r].until : r \in {q \in Robots : robot[q].status = "unavailable"}} :
                t > simTime}

\* Without any event a tick passes.  The end of an empty battery's outage is an
\* event too, so a fleet that only waits for it jumps to the end of the episode.
Clock ==
    /\ phase = "advance"
    /\ simTime' = Min({MaxTime, IF EventTimes = {} THEN simTime + 1 ELSE Min(EventTimes)})
    /\ phase' = "failures"
    /\ UNCHANGED <<scenario, robot, jobs, completed, decisions, pending, obstacles, routing>>

\* _cancel_job for several jobs: nobody moves and no energy is charged.
Released(r, lost) ==
    IF \E m \in lost : r \in jobs[m].team
    THEN [robot[r] EXCEPT !.job = Wait,
                          !.status = IF @ = "unavailable" THEN @ ELSE "idle"]
    ELSE robot[r]

Without(lost) == [m \in Modules |-> IF m \in lost THEN NoJob ELSE jobs[m]]

\* Seeded fault: the struck robot's teammates are left waiting for it.
OutageOfOne(f) ==
    LET lost == {robot[f.robot].job} \ {Wait} IN
    /\ jobs' = Without(lost)
    /\ robot' = [robot EXCEPT ![f.robot].status = "unavailable", ![f.robot].job = Wait,
                              ![f.robot].until = simTime + f.duration]

\* The end of an outage replaces whatever end there was, an empty battery's too.
Outage(f) ==
    LET lost == {robot[f.robot].job} \ {Wait} IN
    /\ jobs' = Without(lost)
    /\ robot' = [r \in Robots |->
                    IF r = f.robot
                    THEN [Released(r, lost) EXCEPT !.status = "unavailable",
                                                   !.until = simTime + f.duration]
                    ELSE Released(r, lost)]

\* Seeded fault: only the first job whose approach is cut is cancelled.
BlockCellOnce(f) ==
    LET lost == {m \in Active : f.cell \in jobs[m].approach}
        first == IF lost = {} THEN {} ELSE {Min(lost)}
    IN
    /\ obstacles' = obstacles \cup {f.cell}
    /\ jobs' = Without(first) /\ robot' = [r \in Robots |-> Released(r, first)]

\* Only approach routes are looked at, and all jobs of a decision share theirs: a
\* job goes on if what is cut is the way of its module, and is cancelled, even
\* while it carries, if it is the way of a robot of any of their teams.
BlockCell(f) ==
    LET lost == {m \in Active : f.cell \in jobs[m].approach} IN
    /\ obstacles' = obstacles \cup {f.cell}
    /\ jobs' = Without(lost) /\ robot' = [r \in Robots |-> Released(r, lost)]

\* The module named by the failure, or the first one that is being carried.
Drop(f) ==
    LET lost == IF f.module \in Active THEN {f.module}
                ELSE IF Active # {} THEN {Min(Active)} ELSE {}
    IN  /\ jobs' = Without(lost) /\ robot' = [r \in Robots |-> Released(r, lost)]

Due == {i \in pending : scenario[i].at <= simTime}

ApplyFailure ==
    /\ phase = "failures" /\ Due # {}
    /\ LET f == scenario[Min(Due)] IN
        \/ f.kind = "robot" /\ Outage(f) /\ UNCHANGED obstacles
        \/ f.kind = "obstacle" /\ BlockCell(f)
        \/ f.kind = "drop" /\ Drop(f) /\ UNCHANGED obstacles
    /\ pending' = pending \ {Min(Due)}
    /\ UNCHANGED <<scenario, phase, completed, simTime, decisions, routing>>

\* Seeded fault: failures are looked at after the robots that come back.
RecoverFirst ==
    /\ phase = "failures"
    /\ robot' = [r \in Robots |->
                    IF robot[r].status = "unavailable" /\ robot[r].until <= simTime
                    THEN [robot[r] EXCEPT !.status = "idle", !.until = 0] ELSE robot[r]]
    /\ phase' = "finish"
    /\ UNCHANGED <<scenario, jobs, completed, simTime, decisions, pending, obstacles, routing>>

Recover ==
    /\ phase = "failures" /\ Due = {}
    /\ robot' = [r \in Robots |->
                    IF robot[r].status = "unavailable" /\ robot[r].until <= simTime
                    THEN [robot[r] EXCEPT !.status = "idle", !.until = 0] ELSE robot[r]]
    /\ phase' = "finish"
    /\ UNCHANGED <<scenario, jobs, completed, simTime, decisions, pending, obstacles, routing>>

Ended == {m \in Active : jobs[m].end <= simTime}

\* Seeded fault: a robot with an empty battery stays in service.
DeliveredAlive(r, m, j) ==
    [robot[r] EXCEPT !.status = "idle", !.job = Wait,
                     !.battery = Max({0, robot[r].battery - j.energy}),
                     !.at = TargetCell[m][Slot(r, j.team)]]

\* Seeded fault: the battery is charged below zero.
DeliveredUnclamped(r, m, j) ==
    LET left == robot[r].battery - j.energy IN
    [status |-> IF left > 0 THEN "idle" ELSE "unavailable",
     job |-> Wait, until |-> IF left > 0 THEN 0 ELSE Never,
     battery |-> left, at |-> TargetCell[m][Slot(r, j.team)]]

\* A robot of the finished job at its target, with what its battery still holds.
Delivered(r, m, j) ==
    LET left == Max({0, robot[r].battery - j.energy}) IN
    [status |-> IF left > 0 THEN "idle" ELSE "unavailable",
     job |-> Wait, until |-> IF left > 0 THEN 0 ELSE Never,
     battery |-> left, at |-> TargetCell[m][Slot(r, j.team)]]

\* _complete_job, or _cancel_job if the installation failed.
Finish ==
    /\ phase = "finish" /\ Ended # {}
    /\ LET m == Min(Ended) IN
        /\ jobs' = Without({m})
        /\ \/ /\ jobs[m].success
              /\ completed' = completed \cup {m}
              /\ robot' = [r \in Robots |->
                            IF r \in jobs[m].team THEN Delivered(r, m, jobs[m]) ELSE robot[r]]
           \/ /\ ~jobs[m].success
              /\ robot' = [r \in Robots |-> Released(r, {m})]
              /\ UNCHANGED completed
    /\ UNCHANGED <<scenario, phase, simTime, decisions, pending, obstacles, routing>>

Done == completed = Modules

\* The end of step: terminated, truncated, or another decision.
EndStep ==
    /\ phase = "finish" /\ Ended = {}
    /\ phase' = IF Done \/ decisions >= MaxDecisions \/ simTime >= MaxTime
                THEN "over" ELSE "decide"
    /\ UNCHANGED <<scenario, robot, jobs, completed, simTime, decisions, pending,
                   obstacles, routing>>

Step == Bid \/ Clock \/ ApplyFailure \/ Recover \/ Finish \/ EndStep
Next == Step \/ Reset

\* The caller goes on stepping an episode; it need not begin another one.
Spec == Init /\ [][Next]_vars /\ WF_vars(Step)

-----------------------------------------------------------------------------
(* Properties.                                                             *)

JobType == [team : (SUBSET Robots) \ {{}}, start : Nat, end : Nat, energy : Nat,
            success : BOOLEAN, approach : SUBSET Cells, carry : SUBSET Cells]

TypeOK ==
    /\ scenario \in Scenarios
    /\ phase \in {"decide", "advance", "failures", "finish", "over"}
    /\ robot \in [Robots -> [status : {"idle", "busy", "unavailable"},
                             job : Modules \cup {Wait}, until : Nat,
                             battery : Nat, at : Cells]]
    /\ jobs \in [Modules -> JobType \cup {NoJob}]
    /\ completed \subseteq Modules
    /\ simTime \in 0..MaxTime /\ decisions \in 0..MaxDecisions
    /\ pending \subseteq DOMAIN scenario
    /\ obstacles \subseteq Cells
    /\ routing \in {"none", "blocked", "routed"}

\* Robots and jobs agree at every point of a step, whatever cancels a job: a job
\* has a team of the right size and strength, all of it busy with that job
\* alone, it is under way only while its module is missing and rests on finished
\* ones, and no other robot holds a job.  No battery is below zero.
CrewConsistent ==
    /\ TypeOK
    /\ \A m \in Active :
        /\ m \notin completed /\ Deps[m] \subseteq completed
        /\ Cardinality(jobs[m].team) = TeamSize[m] /\ Carries(jobs[m].team, m)
        /\ \A r \in jobs[m].team : robot[r].status = "busy" /\ robot[r].job = m
    /\ \A r \in Robots :
        IF robot[r].status = "busy"
        THEN robot[r].job \in Active /\ r \in jobs[robot[r].job].team
        ELSE robot[r].job = Wait

\* When a decision is due, everything whose time has come has happened: no job,
\* failure or outage is left behind for the clock to pass over.
NothingOverdue ==
    phase \in {"decide", "over"} /\ decisions > 0 =>
        /\ \A m \in Active : jobs[m].end > simTime
        /\ \A i \in pending : scenario[i].at > simTime
        /\ \A r \in Robots : robot[r].status = "unavailable" => robot[r].until > simTime

Struck(r) == {i \in DOMAIN scenario \ pending : scenario[i].kind = "robot" /\ scenario[i].robot = r}
OutageEnd(i) == scenario[i].at + scenario[i].duration

\* What keeps a robot out of service keeps it out, unless a later outage, which
\* replaces the end of whatever came before it, is over: that is the only way in
\* which a robot serves during an earlier outage or with an empty battery.
OutOfService ==
    \A r \in Robots : robot[r].status # "unavailable" =>
        /\ robot[r].battery = 0 => \E j \in Struck(r) : OutageEnd(j) <= simTime
        /\ \A i \in Struck(r) : OutageEnd(i) > simTime =>
               \E j \in Struck(r) : j > i /\ OutageEnd(j) <= simTime

Fallen(c) ==
    {i \in DOMAIN scenario \ pending : scenario[i].kind = "obstacle" /\ scenario[i].cell = c}

\* What a blocked cell stops, and what it lets through.  A job under way has none on
\* an approach route of its decision, and none of its robots set out from one.  Its
\* module may be carried over one, but only if every obstacle there has fallen since
\* the job was started.  So a module stands on a blocked cell only if an obstacle of
\* this episode has fallen there, and not for one left over from an earlier episode.
ObstaclesHeeded ==
    /\ \A m \in Active :
        /\ jobs[m].approach \cap obstacles = {}
        /\ \A r \in jobs[m].team : robot[r].at \notin obstacles
        /\ \A c \in (jobs[m].carry \cup CarryEnds(m)) \cap obstacles :
            /\ Fallen(c) # {}
            /\ \A i \in Fallen(c) : scenario[i].at >= jobs[m].start
    /\ \A m \in completed : TargetCell[m][0] \in obstacles => Fallen(TargetCell[m][0]) # {}

Accepted(bids) ==
    \A r \in Robots : bids[r] # Wait =>
        LET T == {q \in Robots : bids[q] = bids[r]}
        IN  T = Bidders(bids, bids[r]) /\ Team(bids[r], T) = T

\* The scripted and the auction controller never bid in vain: every team they send
\* is the team that the environment picks, they bid whenever some team can work,
\* and the scripted one leaves no team idle that could take another module.
ControllersServed ==
    phase = "decide" =>
        /\ \A bids \in AuctionBids \cup {ScriptedBids} :
            /\ Accepted(bids)
            /\ (\E m \in Ready : CapableTeams(m, Idle) # {}) => bids # NoBids
        /\ LET spare == {r \in Idle : ScriptedBids[r] = Wait} IN
            \A m \in Ready : CapableTeams(m, spare) # {} => \E r \in Robots : ScriptedBids[r] = m

Order == INSTANCE BuildOrder WITH parts <- Modules, needs <- Deps, installed <- completed

\* An episode is a build in the order of the plan: whatever fails, modules are
\* installed after the ones they depend on, and are never lost again.
ImplementsBuildOrder == Order!Spec
=============================================================================
