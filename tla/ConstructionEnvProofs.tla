------------------------ MODULE ConstructionEnvProofs ------------------------
(***************************************************************************)
(* Proofs about ConstructionEnv for every fleet, plan, scenario and length *)
(* of an episode: robots and jobs agree, nothing whose time has come is    *)
(* passed over, a robot serves only when its last outage is over, blocked  *)
(* cells stop all but payloads on their way, and an episode is a build in  *)
(* the plan's order.                                                       *)
(*                                                                         *)
(* The argument has two parts.  Whatever cancels or ends jobs does it to   *)
(* whole teams, and a team is only ever formed of idle robots, so robots   *)
(* and jobs stay in step.  And the clock never jumps over an event, so     *)
(* each failure is applied at its own time, in the order of the scenario.  *)
(***************************************************************************)
EXTENDS ConstructionEnv, FoldTheorems

\* CrewConsistent without its types.
JobsBacked ==
    \A m \in Active :
        /\ m \notin completed /\ Deps[m] \subseteq completed
        /\ Cardinality(jobs[m].team) = TeamSize[m] /\ Carries(jobs[m].team, m)
        /\ \A r \in jobs[m].team : robot[r].status = "busy" /\ robot[r].job = m
RobotsBacked ==
    \A r \in Robots :
        IF robot[r].status = "busy"
        THEN robot[r].job \in Active /\ r \in jobs[robot[r].job].team
        ELSE robot[r].job = Wait
Backed == JobsBacked /\ RobotsBacked

\* At which points of a step nothing is due any more: no job, no failure, no end
\* of an outage.  Before the first decision the time is 0, and a failure may be due.
JobsLater     == phase \in {"decide", "advance", "over"}
FailuresLater == phase = "finish" \/ (phase \in {"decide", "over"} /\ decisions > 0)

ClockInv ==
    /\ \A m \in Active : jobs[m].end >= simTime /\ (JobsLater => jobs[m].end > simTime)
    /\ \A i \in pending : /\ scenario[i].at >= simTime
                          /\ FailuresLater => scenario[i].at > simTime
    /\ FailuresLater =>
         \A r \in Robots : robot[r].status = "unavailable" => robot[r].until > simTime
    /\ phase = "decide" => decisions < MaxDecisions

\* Failures strike in their order.
InOrder == \A i \in DOMAIN scenario \ pending, j \in pending : i < j

\* OutOfService for one robot, and why it holds: a robot out of service waits for
\* the end of the last outage that struck it, or has an empty battery.
Excused(r) ==
    IF robot[r].status = "unavailable"
    THEN \/ robot[r].until = Never
         \/ \E j \in Struck(r) : /\ robot[r].until = OutageEnd(j)
                                 /\ \A i \in Struck(r) : i <= j
    ELSE /\ robot[r].battery = 0 => \E j \in Struck(r) : OutageEnd(j) <= simTime
         /\ \A i \in Struck(r) : OutageEnd(i) > simTime =>
                \E j \in Struck(r) : j > i /\ OutageEnd(j) <= simTime

\* Why obstacles are heeded: the cells from which the robots of a job set out, and
\* which may still be blocked, are on its approach; and what has fallen is an obstacle.
Blocks(i, c) == scenario[i].kind = "obstacle" /\ scenario[i].cell = c

WaysInv ==
    /\ ObstaclesHeeded
    /\ \A m \in Active :
        /\ jobs[m].start <= simTime
        /\ \A r \in jobs[m].team : \A i \in pending :
               Blocks(i, robot[r].at) => robot[r].at \in jobs[m].approach
    /\ \A i \in DOMAIN scenario \ pending :
           scenario[i].kind = "obstacle" => scenario[i].cell \in obstacles

EnvInv ==
    /\ TypeOK /\ Backed /\ ClockInv /\ InOrder
    /\ (\A r \in Robots : Excused(r)) /\ WaysInv

-----------------------------------------------------------------------------
(* The team that is chosen.                                                *)

\* The greater of zero and a number.
LEMMA MaxWithZero ==
    ASSUME NEW x \in Int
    PROVE  Max({0, x}) \in Nat /\ (x > 0 => Max({0, x}) = x) /\ (x <= 0 => Max({0, x}) = 0)
  <1>1. \E z \in {0, x} : \A y \in {0, x} : z >= y
    OBVIOUS
  <1>2. Max({0, x}) \in {0, x} /\ \A y \in {0, x} : Max({0, x}) >= y
    BY <1>1 DEF Max
  <1> QED BY <1>2

LEMMA OneOrTwo ==
    ASSUME NEW T \in SUBSET Nat, IsFiniteSet(T), Cardinality(T) \in 1..2
    PROVE  \/ Cardinality(T) = 1 /\ \E a \in T : T = {a}
           \/ Cardinality(T) = 2 /\ \E a, b \in T : a < b /\ T = {a, b}
  <1>1. CASE Cardinality(T) = 1
    BY <1>1, FS_Singleton
  <1>2. CASE Cardinality(T) = 2
    <2>0. T # {}
      BY <1>2, FS_EmptySet
    <2>1. PICK a \in T : TRUE
      BY <2>0
    <2>2. IsFiniteSet(T \ {a}) /\ Cardinality(T \ {a}) = 1
      BY <1>2, <2>1, FS_RemoveElement
    <2>3. PICK b : T \ {a} = {b}
      BY <2>2, FS_Singleton
    <2>4. T = {a, b} /\ a # b /\ b \in T
      BY <2>1, <2>3
    <2> QED BY <1>2, <2>1, <2>4
  <1> QED BY <1>1, <1>2

\* Among teams of one size there is a first in lexicographic order: the one with
\* the least leader and, of these, the least second robot.
LEMMA FirstTeam ==
    ASSUME NEW k \in 1..2, NEW teams, teams # {},
           \A T \in teams : T \in SUBSET Nat /\ IsFiniteSet(T) /\ Cardinality(T) = k
    PROVE  \E T \in teams : \A U \in teams \ {T} : Precedes(T, U)
  <1> DEFINE a == Min(UNION teams)
             led == {T \in teams : a \in T}
             b == Min(UNION {T \ {a} : T \in led})
  <1>1. \A T \in teams : \/ k = 1 /\ \E x \in T : T = {x}
                         \/ k = 2 /\ \E x, y \in T : x < y /\ T = {x, y}
    BY OneOrTwo
  <1>2. a \in UNION teams /\ \A x \in UNION teams : a <= x
    <2>1. UNION teams \in SUBSET Nat /\ UNION teams # {}
      BY <1>1
    <2> QED BY <2>1, LeastIsMin
  <1>3. \A U \in teams, T \in led : U \notin led => Precedes(T, U)
    <2> SUFFICES ASSUME NEW U \in teams, NEW T \in led, U \notin led PROVE Precedes(T, U)
      OBVIOUS
    <2>1. SymDiff(T, U) \in SUBSET Nat /\ a \in SymDiff(T, U) /\ \A x \in SymDiff(T, U) : a <= x
      BY <1>2 DEF SymDiff
    <2>2. Min(SymDiff(T, U)) = a
      BY <2>1, LeastIsMin
    <2> QED BY <2>2 DEF Precedes
  <1>4. PICK T \in led : TRUE
    BY <1>2
  <1>5. CASE k = 1
    <2>1. \A U \in led : U = {a}
      BY <1>1, <1>5
    <2>2. \A U \in led : U = T
      BY <1>4, <2>1
    <2>3. \A U \in teams \ {T} : Precedes(T, U)
      <3> HIDE DEF led
      <3> QED BY <1>3, <1>4, <2>2
    <2> QED BY <1>4, <2>3
  <1>6. CASE k = 2
    <2> HIDE DEF a
    <2>0. a \in Nat
      BY <1>2
    <2>1. \A U \in led : \E y \in U : U = {a, y} /\ a # y /\ y \in Nat
      BY <1>1, <1>6
    <2>2. b \in UNION {U \ {a} : U \in led} /\ \A y \in UNION {U \ {a} : U \in led} : b <= y
      <3> DEFINE seconds == UNION {U \ {a} : U \in led}
      <3>1. seconds \in SUBSET Nat
        BY <2>1
      <3>2. seconds # {}
        <4>1. PICK y \in T : T = {a, y} /\ a # y
          BY <2>1
        <4>2. y \in T \ {a}
          BY <4>1
        <4> QED BY <4>2
      <3> HIDE DEF seconds
      <3> QED BY <3>1, <3>2, LeastIsMin DEF seconds
    <2> HIDE DEF b
    <2>3. PICK F \in led : b \in F \ {a}
      BY <2>2
    <2>4. F = {a, b} /\ b \in Nat /\ a # b
      BY <2>1, <2>3
    <2>5. \A U \in led \ {F} : Precedes(F, U)
      <3> SUFFICES ASSUME NEW U \in led \ {F} PROVE Precedes(F, U)
        OBVIOUS
      <3>1. PICK y \in U : U = {a, y} /\ a # y /\ y \in Nat
        BY <2>1
      <3>2. y # b /\ b <= y
        <4>1. y \in U \ {a}
          BY <3>1
        <4> QED BY <2>2, <2>4, <3>1, <4>1
      <3>3. SymDiff(F, U) = {b, y}
        BY <2>4, <3>1, <3>2 DEF SymDiff
      <3>4. Min({b, y}) = b
        <4>1. Min({b, y}) \in {b, y} /\ Min({b, y}) <= b
          BY <2>4, <3>1, LeastIsMin
        <4> QED BY <2>4, <3>1, <3>2, <4>1
      <3> QED BY <2>4, <3>3, <3>4 DEF Precedes
    <2> QED BY <1>3, <2>3, <2>5
  <1> QED BY <1>5, <1>6

-----------------------------------------------------------------------------
(* What the constants say.                                                  *)

LEMMA Fleet ==
    /\ Robots \subseteq Nat /\ IsFiniteSet(Robots)
    /\ Modules \subseteq Nat /\ Wait \notin Modules
    /\ \A m \in Modules : TeamSize[m] \in 1..2 /\ Deps[m] \subseteq Modules
    /\ \A r \in Robots : Battery[r] \in Nat /\ Battery[r] > 0 /\ HomeCell[r] \in Cells
    /\ \A m \in Modules, i \in 0..2 : TargetCell[m][i] \in Cells
    /\ MaxTime \in Nat /\ MaxTime > 0 /\ MaxDecisions \in Nat /\ MaxDecisions > 0
    /\ Never \in Nat /\ Never > MaxTime
    /\ \A d \in Durations : d \in Nat /\ d > 0
    /\ Energies \subseteq Nat
  <1>1. /\ Robots \subseteq Nat /\ IsFiniteSet(Robots)
        /\ Modules \subseteq Nat /\ Wait \notin Modules
    BY FleetAssumption
  <1>5. \A r \in Robots : Battery[r] \in Nat /\ Battery[r] > 0 /\ HomeCell[r] \in Cells
    BY FleetAssumption
  <1>2. \A m \in Modules : TeamSize[m] \in 1..2 /\ Deps[m] \subseteq Modules
    BY FleetAssumption
  <1>3. \A m \in Modules, i \in 0..2 : TargetCell[m][i] \in Cells
    BY FleetAssumption
  <1>4. /\ MaxTime \in Nat /\ MaxTime > 0 /\ MaxDecisions \in Nat /\ MaxDecisions > 0
        /\ Never \in Nat /\ Never > MaxTime
        /\ \A d \in Durations : d \in Nat /\ d > 0
        /\ Energies \subseteq Nat
    BY ClockAssumption
  <1> QED BY <1>1, <1>2, <1>3, <1>4, <1>5

\* The failures of a scenario, in the order of their times.
LEMMA ScenarioFacts ==
    ASSUME scenario \in Scenarios
    PROVE  /\ DOMAIN scenario \subseteq Nat
           /\ \A i \in DOMAIN scenario :
                /\ scenario[i].at \in Nat /\ scenario[i].duration \in Nat
                /\ scenario[i].kind \in {"robot", "obstacle", "drop"}
                /\ scenario[i].kind = "robot" => scenario[i].robot \in Robots
                /\ scenario[i].kind = "obstacle" => scenario[i].cell \in Cells
           /\ \A i, j \in DOMAIN scenario : i < j => scenario[i].at <= scenario[j].at
  <1>1. \A i \in DOMAIN scenario : scenario[i] \in Failures
    BY DEF Failures
  <1> QED BY <1>1, ClockAssumption

LEMMA TeamFacts ==
    ASSUME NEW m \in Modules, NEW candidates, Team(m, candidates) # {}
    PROVE  /\ Team(m, candidates) \in SUBSET (candidates \cap Idle)
           /\ Cardinality(Team(m, candidates)) = TeamSize[m]
           /\ Carries(Team(m, candidates), m)
  <1> DEFINE teams == CapableTeams(m, candidates)
  <1>1. teams # {}
    BY DEF Team
  <1>2. \A T \in teams : T \in SUBSET Nat /\ IsFiniteSet(T) /\ Cardinality(T) = TeamSize[m]
    <2> TAKE T \in teams
    <2>1. T \in SUBSET Robots /\ Cardinality(T) = TeamSize[m]
      BY DEF CapableTeams, kSubset, Idle
    <2> QED BY <2>1, Fleet, FS_Subset
  <1>3. \E T \in teams : \A U \in teams \ {T} : Precedes(T, U)
    <2> HIDE DEF teams
    <2> QED BY <1>1, <1>2, Fleet, FirstTeam
  <1>4. Team(m, candidates) \in teams
    BY <1>1, <1>3 DEF Team
  <1> QED BY <1>4 DEF CapableTeams, kSubset

\* A robot of a team has a place in its formation.
LEMMA SlotRange ==
    ASSUME NEW r, NEW T \in SUBSET Robots, Cardinality(T) \in 1..2
    PROVE  Slot(r, T) \in 0..2
  <1> DEFINE upTo == {q \in T : q <= r}
  <1>1. IsFiniteSet(T)
    BY Fleet, FS_Subset
  <1>2. IsFiniteSet(upTo) /\ Cardinality(upTo) <= Cardinality(T)
    BY <1>1, FS_Subset
  <1>3. Cardinality(upTo) \in Nat
    BY <1>2, FS_CardinalityType
  <1> QED BY <1>2, <1>3 DEF Slot

-----------------------------------------------------------------------------
(* Robots and jobs.                                                         *)

RobotType == [status : {"idle", "busy", "unavailable"}, job : Modules \cup {Wait},
              until : Nat, battery : Nat, at : Cells]

\* A job is recognised by its team.
LEMMA ActiveFacts ==
    ASSUME TypeOK, NEW m \in Active
    PROVE  /\ m \in Modules /\ m \in Nat /\ jobs[m] \in JobType
           /\ jobs[m].team \in SUBSET Robots /\ jobs[m].team # {} /\ jobs[m].end \in Nat
           /\ jobs[m].energy \in Nat /\ jobs[m].start \in Nat
  <1>1. m \in Modules /\ jobs[m] \in JobType
    BY DEF TypeOK, Active
  <1> QED BY <1>1, Fleet DEF JobType

LEMMA NoJobOutside == NoJob \notin JobType
  BY DEF NoJob, JobType

LEMMA TeamsDisjoint ==
    ASSUME JobsBacked, NEW m \in Active, NEW n \in Active, NEW r \in jobs[m].team,
           r \in jobs[n].team
    PROVE  m = n
  BY DEF JobsBacked

LEMMA ReleasedTyped ==
    ASSUME TypeOK, NEW r \in Robots, NEW lost
    PROVE  /\ Released(r, lost) \in RobotType
           /\ Released(r, lost).until = robot[r].until
           /\ Released(r, lost).battery = robot[r].battery
           /\ Released(r, lost).status = "unavailable" <=> robot[r].status = "unavailable"
           /\ (\E m \in lost : r \in jobs[m].team) =>
                 Released(r, lost).job = Wait /\ Released(r, lost).status # "busy"
           /\ ~(\E m \in lost : r \in jobs[m].team) => Released(r, lost) = robot[r]
  BY DEF TypeOK, Released, RobotType

LEMMA DeliveredTyped ==
    ASSUME TypeOK, NEW m \in Active, Cardinality(jobs[m].team) \in 1..2, NEW r \in Robots
    PROVE  /\ Delivered(r, m, jobs[m]) \in RobotType
           /\ Delivered(r, m, jobs[m]).job = Wait
           /\ \/ /\ Delivered(r, m, jobs[m]).status = "idle"
                 /\ Delivered(r, m, jobs[m]).battery > 0
              \/ /\ Delivered(r, m, jobs[m]).status = "unavailable"
                 /\ Delivered(r, m, jobs[m]).until = Never
  <1> DEFINE left == Max({0, robot[r].battery - jobs[m].energy})
  <1>1. left \in Nat
    <2>1. robot[r].battery - jobs[m].energy \in Int
      BY ActiveFacts DEF TypeOK
    <2> QED BY <2>1, MaxWithZero
  <1>2. TargetCell[m][Slot(r, jobs[m].team)] \in Cells
    BY ActiveFacts, SlotRange, Fleet
  <1> HIDE DEF left
  <1>3. Delivered(r, m, jobs[m]) =
            [status |-> IF left > 0 THEN "idle" ELSE "unavailable",
             job |-> Wait, until |-> IF left > 0 THEN 0 ELSE Never,
             battery |-> left, at |-> TargetCell[m][Slot(r, jobs[m].team)]]
    BY DEF Delivered, left
  <1> QED BY <1>1, <1>2, <1>3, Fleet DEF RobotType

\* Whatever ends jobs: their modules have no job any more, the others keep theirs.
LEMMA WithoutFacts ==
    ASSUME TypeOK, NEW lost, jobs' = Without(lost)
    PROVE  /\ (jobs \in [Modules -> JobType \cup {NoJob}])'
           /\ Active' = Active \ lost
           /\ \A m \in Active' : m \in Active /\ jobs'[m] = jobs[m]
  BY DEF TypeOK, Without, Active

\* ... and it releases the teams: robots and jobs agree again.
LEMMA ReleaseKeepsCrews ==
    ASSUME TypeOK, Backed, NEW lost \in SUBSET Active, jobs' = Without(lost),
           robot' \in [Robots -> RobotType],
           \A r \in Robots :
              IF \E m \in lost : r \in jobs[m].team
              THEN robot'[r].job = Wait /\ robot'[r].status # "busy"
              ELSE \/ robot'[r].status = robot[r].status /\ robot'[r].job = robot[r].job
                   \/ robot[r].status # "busy" /\ robot'[r].status # "busy" /\ robot'[r].job = Wait,
           completed \subseteq completed', completed' \subseteq completed \cup lost
    PROVE  Backed'
  <1>1. Active' = Active \ lost /\ \A m \in Active' : m \in Active /\ jobs'[m] = jobs[m]
    BY WithoutFacts
  <1>2. JobsBacked'
    <2> SUFFICES ASSUME NEW m \in Active'
                 PROVE  /\ m \notin completed' /\ Deps[m] \subseteq completed'
                        /\ Cardinality(jobs'[m].team) = TeamSize[m]
                        /\ Carries(jobs'[m].team, m)
                        /\ \A r \in jobs'[m].team : robot'[r].status = "busy" /\ robot'[r].job = m
      BY DEF JobsBacked
    <2>1. m \in Active /\ m \notin lost /\ jobs'[m] = jobs[m] /\ jobs[m].team \in SUBSET Robots
      BY <1>1, ActiveFacts
    <2>2. \A r \in jobs[m].team : ~ \E n \in lost : r \in jobs[n].team
      BY <2>1, TeamsDisjoint DEF Backed
    <2>3. \A r \in jobs[m].team : robot'[r].status = "busy" /\ robot'[r].job = m
      BY <2>1, <2>2 DEF Backed, JobsBacked
    <2> QED BY <2>1, <2>3 DEF Backed, JobsBacked
  <1>3. RobotsBacked'
    <2> SUFFICES ASSUME NEW r \in Robots
                 PROVE  IF robot'[r].status = "busy"
                        THEN robot'[r].job \in Active' /\ r \in jobs'[robot'[r].job].team
                        ELSE robot'[r].job = Wait
      BY DEF RobotsBacked
    <2>1. CASE \E m \in lost : r \in jobs[m].team
      BY <2>1
    <2>2. CASE ~ \E m \in lost : r \in jobs[m].team
      <3>1. IF robot[r].status = "busy"
            THEN robot[r].job \in Active /\ r \in jobs[robot[r].job].team
            ELSE robot[r].job = Wait
        BY DEF Backed, RobotsBacked
      <3>2. CASE robot'[r].status = robot[r].status /\ robot'[r].job = robot[r].job
        BY <1>1, <2>2, <3>1, <3>2
      <3>3. CASE robot[r].status # "busy" /\ robot'[r].status # "busy" /\ robot'[r].job = Wait
        BY <3>3
      <3> QED BY <2>2, <3>2, <3>3
    <2> QED BY <2>1, <2>2
  <1> QED BY <1>2, <1>3 DEF Backed

-----------------------------------------------------------------------------
(* An allocation starts jobs with teams of idle robots that have nothing in *)
(* common, because each robot has bid for one module.                       *)

GoodTeams(started, team) ==
    /\ started \in SUBSET Ready
    /\ \A m \in started :
        /\ team[m] \in SUBSET Idle /\ team[m] # {}
        /\ Cardinality(team[m]) = TeamSize[m] /\ Carries(team[m], m)
    /\ \A m, n \in started : \A r \in team[m] : r \in team[n] => m = n

\* Nobody sets out from a blocked cell, or from one that may be blocked and is not
\* on the routes; and no payload is staged, or has its place, on a blocked cell.
GoodWays(started, team, cells) ==
    /\ cells \in SUBSET Exposed
    /\ \A m \in started :
        /\ CarryEnds(m) \cap obstacles = {}
        /\ \A r \in team[m] : /\ robot[r].at \notin obstacles
                              /\ robot[r].at \in Exposed => robot[r].at \in cells

LEMMA ExposedFacts ==
    ASSUME TypeOK
    PROVE  Exposed \subseteq Cells /\ Exposed \cap obstacles = {}
  <1>1. \A i \in pending : scenario[i].kind = "obstacle" => scenario[i].cell \in Cells
    BY ScenarioFacts DEF TypeOK
  <1> QED BY <1>1 DEF Exposed

LEMMA AllocateFacts ==
    ASSUME TypeOK, NEW bids \in [Robots -> Modules \cup {Wait}], Allocate(bids)
    PROVE  /\ routing' \in {"none", "blocked", "routed"}
           /\ \/ UNCHANGED <<jobs, robot>>
              \/ \E started, team, work, cells :
                    /\ GoodTeams(started, team) /\ GoodWays(started, team, cells)
                    /\ work \in [started -> Works] /\ Assign(started, team, work, cells)
  <1> DEFINE won == {m \in Ready : Team(m, Bidders(bids, m)) # {}}
             team == [m \in won |-> Team(m, Bidders(bids, m))]
             endpoints == Endpoints(won, team)
             kept(lost) == {m \in won : CarryEnds(m) \cap obstacles # {}} \subseteq lost
  <1>1. \A m \in won : /\ team[m] \in SUBSET (Bidders(bids, m) \cap Idle) /\ team[m] # {}
                       /\ Cardinality(team[m]) = TeamSize[m] /\ Carries(team[m], m)
    BY TeamFacts DEF Ready
  <1>2. \A m, n \in won : \A r \in team[m] : r \in team[n] => m = n
    <2>1. \A m \in won : \A r \in team[m] : bids[r] = m
      BY <1>1 DEF Bidders
    <2> HIDE DEF team, won
    <2> QED BY <2>1
  <1>3. \A lost \in SUBSET won : GoodTeams(won \ lost, team)
    <2> HIDE DEF team
    <2> QED BY <1>1, <1>2 DEF GoodTeams
  <1>4. /\ routing' \in {"none", "blocked", "routed"}
        /\ \/ UNCHANGED <<jobs, robot>>
           \/ /\ endpoints \cap obstacles = {}
              /\ \E lost \in SUBSET won, crossed \in SUBSET (Exposed \ endpoints) :
                /\ kept(lost)
                /\ \E work \in [won \ lost -> Works] :
                    Assign(won \ lost, team, work, crossed \cup (Exposed \cap endpoints))
    BY DEF Allocate
  <1>6. \A m \in won : \A r \in team[m] : robot[r].at \in endpoints
    <2> HIDE DEF won, team
    <2> QED BY DEF Endpoints
  <1>5. ASSUME endpoints \cap obstacles = {},
               NEW lost \in SUBSET won, NEW crossed \in SUBSET (Exposed \ endpoints),
               kept(lost), NEW work \in [won \ lost -> Works],
               Assign(won \ lost, team, work, crossed \cup (Exposed \cap endpoints))
        PROVE  \E started, tm, wk, cells :
                    /\ GoodTeams(started, tm) /\ GoodWays(started, tm, cells)
                    /\ wk \in [started -> Works] /\ Assign(started, tm, wk, cells)
    <2> DEFINE ways == crossed \cup (Exposed \cap endpoints)
    <2>1. GoodTeams(won \ lost, team)
      BY <1>3
    <2>2. ways \in SUBSET Exposed
      OBVIOUS
    <2>3. \A m \in won \ lost : CarryEnds(m) \cap obstacles = {}
      <3> HIDE DEF won
      <3> QED BY <1>5 DEF kept
    <2>4. \A m \in won \ lost : \A r \in team[m] :
            robot[r].at \notin obstacles /\ (robot[r].at \in Exposed => robot[r].at \in ways)
      <3> HIDE DEF won, team, endpoints
      <3> QED BY <1>5, <1>6
    <2> HIDE DEF won, team, endpoints, kept
    <2>5. GoodWays(won \ lost, team, ways)
      <3> HIDE DEF ways
      <3> QED BY <2>2, <2>3, <2>4 DEF GoodWays
    <2> QED BY <1>5, <2>1, <2>5
  <1> HIDE DEF won, team, endpoints, kept
  <1> QED BY <1>4, <1>5

\* What an allocation does to robots and jobs.
Started(started, team, cells) ==
    /\ \A m \in started : /\ m \in Modules /\ jobs'[m] \in JobType
                          /\ jobs'[m].team = team[m] /\ jobs'[m].approach = cells
                          /\ jobs'[m].start = simTime /\ jobs'[m].end > simTime
                          /\ jobs'[m].carry \cap obstacles = {}
    /\ (jobs \in [Modules -> JobType \cup {NoJob}])'
    /\ Active' = Active \cup started
    /\ \A m \in Active : m \notin started /\ jobs'[m] = jobs[m]
    /\ (robot \in [Robots -> RobotType])'
    /\ \A m \in started : \A r \in team[m] :
        r \in Idle /\ robot'[r] = [robot[r] EXCEPT !.status = "busy", !.job = m]
    /\ \A r \in Robots : (\A m \in started : r \notin team[m]) => robot'[r] = robot[r]

LEMMA AssignStarts ==
    ASSUME TypeOK, NEW started, NEW team, NEW work, NEW cells \in SUBSET Exposed,
           GoodTeams(started, team), work \in [started -> Works],
           Assign(started, team, work, cells)
    PROVE  Started(started, team, cells)
  <1>0. started \subseteq Modules /\ started \cap Active = {} /\ simTime \in Nat
    BY DEF GoodTeams, Ready, Active, TypeOK
  <1> DEFINE new(m) == Job(m, team[m], work[m], cells)
  <1>1. \A m \in started : /\ new(m) \in JobType /\ new(m).team = team[m]
                           /\ new(m).approach = cells /\ new(m).start = simTime
                           /\ new(m).end > simTime /\ new(m).carry \cap obstacles = {}
    <2> TAKE m \in started
    <2>1. team[m] \in (SUBSET Robots) \ {{}}
      BY DEF GoodTeams, Idle
    <2>2. /\ work[m].duration \in Nat /\ work[m].duration > 0 /\ work[m].energy \in Nat
          /\ work[m].success \in BOOLEAN /\ work[m].crossed \in SUBSET Exposed
      BY Fleet DEF Works
    <2>3. cells \in SUBSET Cells
      BY ExposedFacts
    <2> DEFINE carried == work[m].crossed \cup (Exposed \cap CarryEnds(m))
    <2>4. carried \in SUBSET Cells /\ carried \cap obstacles = {}
      BY <2>2, ExposedFacts
    <2>5. new(m) = [team |-> team[m], start |-> simTime, end |-> simTime + work[m].duration,
                    energy |-> work[m].energy, success |-> work[m].success,
                    approach |-> cells, carry |-> carried]
      BY DEF Job
    <2> HIDE DEF carried, new
    <2> QED BY <1>0, <2>1, <2>2, <2>3, <2>4, <2>5 DEF JobType
  <1>2. jobs' = [m \in Modules |-> IF m \in started THEN new(m) ELSE jobs[m]]
    BY DEF Assign
  <1> HIDE DEF new
  <1>3. \A m \in started : jobs'[m] = new(m)
    BY <1>0, <1>2
  <1>4. \A m \in started : /\ m \in Modules /\ jobs'[m] \in JobType
                           /\ jobs'[m].team = team[m] /\ jobs'[m].approach = cells
                           /\ jobs'[m].start = simTime /\ jobs'[m].end > simTime
                           /\ jobs'[m].carry \cap obstacles = {}
    BY <1>0, <1>1, <1>3
  <1>5. (jobs \in [Modules -> JobType \cup {NoJob}])'
    BY <1>0, <1>1, <1>2 DEF TypeOK
  <1>6. Active' = Active \cup started
    BY <1>0, <1>1, <1>2, NoJobOutside DEF Active
  <1>7. \A m \in Active : m \notin started /\ jobs'[m] = jobs[m]
    BY <1>0, <1>2 DEF Active
  <1>8. \A m \in started : \A r \in team[m] :
            r \in Idle /\ r \in Robots /\ (CHOOSE n \in started : r \in team[n]) = m
    BY DEF GoodTeams, Idle
  <1>9. \A m \in started : \A r \in team[m] :
            r \in Idle /\ robot'[r] = [robot[r] EXCEPT !.status = "busy", !.job = m]
    BY <1>8 DEF Assign
  <1>10. \A r \in Robots : (\A m \in started : r \notin team[m]) => robot'[r] = robot[r]
    BY DEF Assign
  <1>11. (robot \in [Robots -> RobotType])'
    <2>1. \A r \in Robots : robot'[r] \in RobotType
      <3> TAKE r \in Robots
      <3>1. robot[r] \in RobotType
        BY DEF TypeOK, RobotType
      <3>2. CASE \E m \in started : r \in team[m]
        <4>1. PICK m \in started : r \in team[m]
          BY <3>2
        <4>2. robot'[r] = [robot[r] EXCEPT !.status = "busy", !.job = m] /\ m \in Modules
          BY <1>0, <1>9, <4>1
        <4> QED BY <3>1, <4>2 DEF RobotType
      <3>3. CASE \A m \in started : r \notin team[m]
        BY <1>10, <3>1, <3>3
      <3> QED BY <3>2, <3>3
    <2>2. robot' = [r \in Robots |-> robot'[r]]
      BY DEF Assign
    <2> QED BY <2>1, <2>2
  <1> QED BY <1>4, <1>5, <1>6, <1>7, <1>9, <1>10, <1>11 DEF Started

LEMMA AssignKeepsCrews ==
    ASSUME TypeOK, Backed, NEW started, NEW team, NEW cells,
           GoodTeams(started, team), Started(started, team, cells), UNCHANGED completed
    PROVE  Backed'
  <1>1. JobsBacked'
    <2> SUFFICES ASSUME NEW m \in Active'
                 PROVE  /\ m \notin completed /\ Deps[m] \subseteq completed
                        /\ Cardinality(jobs'[m].team) = TeamSize[m]
                        /\ Carries(jobs'[m].team, m)
                        /\ \A r \in jobs'[m].team : robot'[r].status = "busy" /\ robot'[r].job = m
      BY DEF JobsBacked
    <2>1. CASE m \in started
      <3>1. /\ m \notin completed /\ Deps[m] \subseteq completed
            /\ jobs'[m].team = team[m]
            /\ Cardinality(team[m]) = TeamSize[m] /\ Carries(team[m], m)
        BY <2>1 DEF GoodTeams, Ready, Started
      <3>2. \A r \in team[m] : robot[r] \in RobotType
                 /\ robot'[r] = [robot[r] EXCEPT !.status = "busy", !.job = m]
        BY <2>1 DEF Started, TypeOK, RobotType, Idle
      <3>3. \A r \in team[m] : robot'[r].status = "busy" /\ robot'[r].job = m
        BY <3>2 DEF RobotType
      <3> QED BY <3>1, <3>3
    <2>2. CASE m \notin started
      <3>1. m \in Active /\ jobs'[m] = jobs[m]
        BY <2>2 DEF Started
      <3>2. \A r \in jobs[m].team : r \in Robots /\ robot[r].status = "busy" /\ robot[r].job = m
        BY <3>1, ActiveFacts DEF Backed, JobsBacked
      <3>3. \A r \in jobs[m].team : robot'[r] = robot[r]
        BY <3>2 DEF Started, Idle
      <3> QED BY <3>1, <3>2, <3>3 DEF Backed, JobsBacked
    <2> QED BY <2>1, <2>2
  <1>2. RobotsBacked'
    <2> SUFFICES ASSUME NEW r \in Robots
                 PROVE  IF robot'[r].status = "busy"
                        THEN robot'[r].job \in Active' /\ r \in jobs'[robot'[r].job].team
                        ELSE robot'[r].job = Wait
      BY DEF RobotsBacked
    <2>1. CASE \E m \in started : r \in team[m]
      <3>1. PICK m \in started : r \in team[m]
        BY <2>1
      <3>2. robot'[r] = [robot[r] EXCEPT !.status = "busy", !.job = m] /\ robot[r] \in RobotType
        BY <3>1 DEF Started, TypeOK, RobotType
      <3>3. robot'[r].status = "busy" /\ robot'[r].job = m
        BY <3>2 DEF RobotType
      <3>4. m \in Active' /\ jobs'[m].team = team[m]
        BY <3>1 DEF Started
      <3> QED BY <3>1, <3>3, <3>4
    <2>2. CASE \A m \in started : r \notin team[m]
      <3>1. robot'[r] = robot[r] /\ \A m \in Active : m \in Active' /\ jobs'[m] = jobs[m]
        BY <2>2 DEF Started
      <3> QED BY <3>1 DEF Backed, RobotsBacked
    <2> QED BY <2>1, <2>2
  <1> QED BY <1>1, <1>2 DEF Backed

-----------------------------------------------------------------------------
(* Outages.                                                                 *)

LEMMA StruckFacts ==
    ASSUME TypeOK, NEW r
    PROVE  \A i \in Struck(r) : i \in Nat /\ i \in DOMAIN scenario /\ OutageEnd(i) \in Nat
  <1>1. scenario \in Scenarios
    BY DEF TypeOK
  <1> QED BY <1>1, ScenarioFacts DEF Struck, OutageEnd

LEMMA SameStruck ==
    ASSUME UNCHANGED <<scenario, pending>>
    PROVE  \A r : Struck(r)' = Struck(r)
  BY DEF Struck

\* What no outage of this step concerns: a robot stays as it is, leaves service
\* with an empty battery, or has something left in it.
LEMMA OutageKept ==
    ASSUME TypeOK, NEW r \in Robots, Excused(r), UNCHANGED scenario, Struck(r)' = Struck(r),
           simTime' \in Nat, simTime <= simTime',
           \/ /\ robot'[r].status = "unavailable"
              /\ \/ robot'[r].until = Never
                 \/ robot[r].status = "unavailable" /\ robot'[r].until = robot[r].until
           \/ /\ robot'[r].status # "unavailable" /\ robot[r].status # "unavailable"
              /\ robot'[r].battery = 0 => robot[r].battery = 0
    PROVE  Excused(r)'
  <1>1. \A i \in Struck(r) : i \in Nat /\ OutageEnd(i) \in Nat /\ OutageEnd(i)' = OutageEnd(i)
    BY StruckFacts DEF OutageEnd
  <1>2. simTime \in Nat
    BY DEF TypeOK
  <1> QED BY <1>1, <1>2 DEF Excused

-----------------------------------------------------------------------------
(* Obstacles and the routes of jobs.                                        *)

\* Without jobs, and before anything has fallen, there is nothing to say.
LEMMA NoWays ==
    ASSUME Active = {}, completed = {}, pending = DOMAIN scenario
    PROVE  WaysInv
  BY DEF WaysInv, ObstaclesHeeded

\* A part of a step that starts no job and blocks no cell keeps the routes of the
\* jobs it leaves under way, if it leaves their robots where they are.
LEMMA WaysKept ==
    ASSUME TypeOK, WaysInv, simTime' \in Nat, simTime <= simTime',
           UNCHANGED <<scenario, pending, obstacles>>,
           \A m \in Active' : m \in Active /\ jobs'[m] = jobs[m],
           \A m \in Active' : \A r \in jobs[m].team : robot'[r].at = robot[r].at,
           completed' \subseteq completed \cup Active
    PROVE  WaysInv'
  <1>1. \A c : Fallen(c)' = Fallen(c)
    BY DEF Fallen
  <1>2. \A m \in Active' :
            /\ jobs'[m].approach \cap obstacles' = {}
            /\ \A r \in jobs'[m].team : robot'[r].at \notin obstacles'
            /\ \A c \in (jobs'[m].carry \cup CarryEnds(m)) \cap obstacles' :
                /\ Fallen(c)' # {}
                /\ \A i \in Fallen(c)' : scenario'[i].at >= jobs'[m].start
    BY <1>1 DEF WaysInv, ObstaclesHeeded
  <1>3. ASSUME NEW m \in completed', TargetCell[m][0] \in obstacles'
        PROVE  Fallen(TargetCell[m][0])' # {}
    <2>1. CASE m \in completed
      BY <1>1, <1>3, <2>1 DEF WaysInv, ObstaclesHeeded
    <2>2. CASE m \in Active
      <3>1. TargetCell[m][0] \in CarryEnds(m) \cap obstacles
        BY <1>3 DEF CarryEnds
      <3> QED BY <1>1, <2>2, <3>1 DEF WaysInv, ObstaclesHeeded
    <2> QED BY <2>1, <2>2
  <1>4. ObstaclesHeeded'
    BY <1>2, <1>3 DEF ObstaclesHeeded
  <1>5. ASSUME NEW m \in Active'
        PROVE  /\ jobs'[m].start <= simTime'
               /\ \A r \in jobs'[m].team : \A i \in pending' :
                     Blocks(i, robot[r].at)' => robot'[r].at \in jobs'[m].approach
    <2>1. m \in Active /\ jobs'[m] = jobs[m] /\ jobs[m].start \in Nat /\ simTime \in Nat
      BY ActiveFacts DEF TypeOK
    <2>2. jobs[m].start <= simTime'
      BY <2>1 DEF WaysInv
    <2> QED BY <2>1, <2>2 DEF WaysInv, Blocks
  <1> QED BY <1>4, <1>5 DEF WaysInv

\* Jobs that are started keep clear of what is blocked.
LEMMA AssignKeepsWays ==
    ASSUME TypeOK, Backed, WaysInv, NEW started, NEW team, NEW cells,
           GoodTeams(started, team), GoodWays(started, team, cells),
           Started(started, team, cells),
           UNCHANGED <<scenario, completed, simTime, pending, obstacles>>
    PROVE  WaysInv'
  <1>1. \A c : Fallen(c)' = Fallen(c)
    BY DEF Fallen
  <1>2. ASSUME NEW m \in Active'
        PROVE  /\ jobs'[m].approach \cap obstacles = {}
               /\ \A r \in jobs'[m].team : robot'[r].at \notin obstacles
               /\ \A c \in (jobs'[m].carry \cup CarryEnds(m)) \cap obstacles :
                    /\ Fallen(c)' # {}
                    /\ \A i \in Fallen(c)' : scenario[i].at >= jobs'[m].start
               /\ jobs'[m].start <= simTime
               /\ \A r \in jobs'[m].team : \A i \in pending :
                     Blocks(i, robot[r].at)' => robot'[r].at \in jobs'[m].approach
    <2>1. CASE m \in started
      <3>1. /\ jobs'[m].team = team[m] /\ jobs'[m].approach = cells
            /\ jobs'[m].start = simTime /\ jobs'[m].carry \cap obstacles = {}
            /\ CarryEnds(m) \cap obstacles = {} /\ cells \cap obstacles = {}
        BY <2>1, ExposedFacts DEF Started, GoodWays
      <3>2. ASSUME NEW r \in team[m]
            PROVE  /\ robot'[r].at = robot[r].at /\ robot[r].at \notin obstacles
                   /\ robot[r].at \in Exposed => robot[r].at \in cells
        <4>1. robot[r] \in RobotType /\ robot'[r] = [robot[r] EXCEPT !.status = "busy", !.job = m]
          BY <2>1, <3>2 DEF Started, TypeOK, RobotType, Idle
        <4>2. robot'[r].at = robot[r].at
          BY <4>1 DEF RobotType
        <4> QED BY <2>1, <3>2, <4>2 DEF GoodWays
      <3>3. \A c : \A i \in pending : c \notin obstacles /\ Blocks(i, c) => c \in Exposed
        BY DEF Exposed, Blocks
      <3>4. \A r \in team[m] : \A i \in pending :
                Blocks(i, robot[r].at)' => robot'[r].at \in cells
        BY <3>2, <3>3 DEF Blocks
      <3>5. simTime <= simTime
        BY DEF TypeOK
      <3> QED BY <3>1, <3>2, <3>4, <3>5
    <2>2. CASE m \notin started
      <3>1. m \in Active /\ jobs'[m] = jobs[m]
        BY <2>2 DEF Started
      <3>2. \A r \in jobs[m].team : r \in Robots /\ robot[r].status = "busy"
        BY <3>1, ActiveFacts DEF Backed, JobsBacked
      <3>3. \A r \in jobs[m].team : robot'[r] = robot[r]
        BY <3>2 DEF Started, Idle
      <3> QED BY <1>1, <3>1, <3>3 DEF WaysInv, ObstaclesHeeded, Blocks
    <2> QED BY <2>1, <2>2
  <1>3. ObstaclesHeeded'
    BY <1>1, <1>2 DEF ObstaclesHeeded, WaysInv
  <1> QED BY <1>2, <1>3 DEF WaysInv

-----------------------------------------------------------------------------
(* The parts of a step.                                                     *)

LEMMA EnvInit == Init => EnvInv
  <1> SUFFICES ASSUME Init PROVE EnvInv
    OBVIOUS
  <1>1. Active = {} /\ pending = DOMAIN scenario
    BY DEF Init, Active
  <1>2. \A r \in Robots : robot[r] = Fresh(r) /\ Fresh(r) \in RobotType
    BY Fleet DEF Init, Fresh, RobotType
  <1>3. TypeOK
    BY <1>2, Fleet DEF Init, TypeOK, Fresh
  <1>8. \A r \in Robots : robot[r].status = "idle" /\ robot[r].job = Wait
                         /\ robot[r].battery # 0
    <2> TAKE r \in Robots
    <2>1. Battery[r] # 0
      BY Fleet
    <2>2. Fresh(r).status = "idle" /\ Fresh(r).job = Wait /\ Fresh(r).battery = Battery[r]
      BY DEF Fresh
    <2> QED BY <1>2, <2>1, <2>2
  <1>4. Backed
    BY <1>1, <1>8 DEF Backed, JobsBacked, RobotsBacked
  <1>5. ClockInv
    BY <1>1, <1>3, ScenarioFacts, Fleet DEF Init, ClockInv, FailuresLater, TypeOK
  <1>6. \A r \in Robots : Struck(r) = {}
    BY <1>1 DEF Struck
  <1>7. \A r \in Robots : Excused(r)
    BY <1>6, <1>8 DEF Excused
  <1>9. WaysInv
    BY <1>1, NoWays DEF Init
  <1> QED BY <1>1, <1>3, <1>4, <1>5, <1>7, <1>9 DEF EnvInv, InOrder

LEMMA ResetStep ==
    ASSUME EnvInv, Reset
    PROVE  EnvInv'
  <1>1. Active' = {} /\ pending' = DOMAIN scenario /\ UNCHANGED <<scenario, obstacles>>
    BY DEF Reset, Active
  <1>2. \A r \in Robots : robot'[r] = Fresh(r) /\ Fresh(r) \in RobotType
    BY Fleet DEF Reset, Fresh, RobotType
  <1>3. TypeOK'
    BY <1>2, Fleet DEF EnvInv, Reset, TypeOK, Fresh
  <1>8. \A r \in Robots : robot'[r].status = "idle" /\ robot'[r].job = Wait
                         /\ robot'[r].battery # 0
    <2> TAKE r \in Robots
    <2>1. Battery[r] # 0
      BY Fleet
    <2>2. Fresh(r).status = "idle" /\ Fresh(r).job = Wait /\ Fresh(r).battery = Battery[r]
      BY DEF Fresh
    <2> QED BY <1>2, <2>1, <2>2
  <1>4. Backed'
    BY <1>1, <1>8 DEF Backed, JobsBacked, RobotsBacked
  <1>5. ClockInv'
    <2>1. \A i \in DOMAIN scenario : scenario[i].at >= 0
      BY ScenarioFacts DEF EnvInv, TypeOK
    <2> QED BY <1>1, <2>1, Fleet DEF Reset, ClockInv, FailuresLater
  <1>6. \A r \in Robots : Struck(r)' = {}
    BY <1>1 DEF Struck
  <1>7. \A r \in Robots : Excused(r)'
    BY <1>6, <1>8 DEF Excused
  <1>9. WaysInv'
    BY <1>1 DEF Reset, WaysInv, ObstaclesHeeded
  <1> QED BY <1>1, <1>3, <1>4, <1>5, <1>7, <1>9 DEF EnvInv, InOrder

LEMMA BidStep ==
    ASSUME EnvInv, Bid
    PROVE  EnvInv'
  <1> USE DEF EnvInv
  <1>1. /\ phase = "decide" /\ phase' = "advance" /\ decisions' = decisions + 1
        /\ UNCHANGED <<scenario, completed, simTime, pending, obstacles>>
        /\ decisions' \in 0..MaxDecisions
    BY Fleet DEF Bid, ClockInv, TypeOK
  <1>2. routing' \in {"none", "blocked", "routed"}
    BY AllocateFacts DEF Bid
  <1>3. \A r : Struck(r)' = Struck(r)
    BY <1>1, SameStruck
  <1>4. CASE UNCHANGED <<jobs, robot>>
    <2>1. TypeOK'
      BY <1>1, <1>2, <1>4 DEF TypeOK
    <2>2. Backed'
      BY <1>1, <1>4 DEF Backed, JobsBacked, RobotsBacked, Active
    <2>3. ClockInv'
      BY <1>1, <1>4 DEF ClockInv, JobsLater, FailuresLater, Active
    <2>4. \A r \in Robots : Excused(r)'
      BY <1>1, <1>3, <1>4, OutageKept DEF TypeOK
    <2>5. WaysInv'
      BY <1>1, <1>4, WaysKept DEF TypeOK, Active
    <2> QED BY <1>1, <1>4, <2>1, <2>2, <2>3, <2>4, <2>5 DEF InOrder
  <1>5. ASSUME NEW started, NEW team, NEW cells, GoodTeams(started, team),
               GoodWays(started, team, cells), Started(started, team, cells)
        PROVE  EnvInv'
    <2>1. TypeOK'
      BY <1>1, <1>2, <1>5 DEF TypeOK, Started, RobotType
    <2>2. Backed'
      BY <1>1, <1>5, AssignKeepsCrews
    <2>3. ClockInv'
      <3>1. \A m \in Active' : jobs'[m].end > simTime /\ jobs'[m].end >= simTime
        <4> TAKE m \in Active'
        <4>1. CASE m \in started
          <5>1. jobs'[m] \in JobType /\ jobs'[m].end > simTime
            BY <1>5, <4>1 DEF Started
          <5>2. jobs'[m].end \in Nat /\ simTime \in Nat
            BY <5>1 DEF JobType, TypeOK
          <5> QED BY <1>1, <5>1, <5>2
        <4>2. CASE m \notin started
          <5>1. m \in Active /\ jobs'[m] = jobs[m]
            BY <1>5, <4>2 DEF Started
          <5> QED BY <1>1, <5>1, ActiveFacts DEF ClockInv, JobsLater
        <4> QED BY <4>1, <4>2
      <3> QED BY <1>1, <3>1 DEF ClockInv, JobsLater, FailuresLater
    <2>4. \A r \in Robots : Excused(r)'
      <3> TAKE r \in Robots
      <3>1. CASE \E m \in started : r \in team[m]
        <4>1. PICK m \in started : r \in team[m]
          BY <3>1
        <4>2. robot'[r] = [robot[r] EXCEPT !.status = "busy", !.job = m] /\ r \in Idle
              /\ robot[r] \in RobotType
          BY <1>5, <4>1 DEF Started, TypeOK, RobotType
        <4>3. robot'[r].status = "busy" /\ robot'[r].battery = robot[r].battery
              /\ robot[r].status = "idle"
          BY <4>2 DEF RobotType, Idle
        <4> QED BY <1>1, <1>3, <4>3, OutageKept DEF TypeOK
      <3>2. CASE \A m \in started : r \notin team[m]
        <4>1. robot'[r] = robot[r]
          BY <1>5, <3>2 DEF Started
        <4> QED BY <1>1, <1>3, <4>1, OutageKept DEF TypeOK
      <3> QED BY <3>1, <3>2
    <2>5. WaysInv'
      BY <1>1, <1>5, AssignKeepsWays
    <2> QED BY <1>1, <2>1, <2>2, <2>3, <2>4, <2>5 DEF InOrder
  <1>6. \/ UNCHANGED <<jobs, robot>>
        \/ \E started, team, cells : /\ GoodTeams(started, team)
                                     /\ GoodWays(started, team, cells)
                                     /\ Started(started, team, cells)
    <2>1. PICK bids \in [Robots -> Modules \cup {Wait}] : Allocate(bids)
      BY DEF Bid
    <2>2. CASE \E started, team, work, cells :
                    /\ GoodTeams(started, team) /\ GoodWays(started, team, cells)
                    /\ work \in [started -> Works] /\ Assign(started, team, work, cells)
      <3>1. PICK started, team, work, cells :
                    /\ GoodTeams(started, team) /\ GoodWays(started, team, cells)
                    /\ work \in [started -> Works] /\ Assign(started, team, work, cells)
        BY <2>2
      <3>2. cells \in SUBSET Exposed
        BY <3>1 DEF GoodWays
      <3> QED BY <3>1, <3>2, AssignStarts
    <2> QED BY <2>1, <2>2, AllocateFacts
  <1> QED BY <1>4, <1>5, <1>6

\* The clock moves on, but not beyond anything that is still to come.
LEMMA ClockFacts ==
    ASSUME EnvInv, Clock
    PROVE  /\ simTime' \in 0..MaxTime /\ simTime <= simTime'
           /\ \A m \in Active : jobs[m].end >= simTime'
           /\ \A i \in pending : scenario[i].at >= simTime'
  <1> USE DEF EnvInv
  <1> DEFINE next == IF EventTimes = {} THEN simTime + 1 ELSE Min(EventTimes)
  <1>1. phase = "advance" /\ simTime \in 0..MaxTime /\ MaxTime \in Nat
    BY Fleet DEF Clock, TypeOK
  <1>2. \A t \in EventTimes : t \in Nat /\ simTime <= t
    <2>1. \A m \in Active : jobs[m].end \in Nat /\ jobs[m].end >= simTime
      BY ActiveFacts DEF ClockInv
    <2>2. \A i \in pending : scenario[i].at \in Nat
      BY ScenarioFacts DEF TypeOK
    <2>3. \A r \in Robots : robot[r].until \in Nat
      BY DEF TypeOK
    <2> QED BY <1>1, <2>1, <2>2, <2>3 DEF EventTimes
  <1>3. next \in Nat /\ simTime <= next /\ \A t \in EventTimes : next <= t
    <2>1. CASE EventTimes = {}
      BY <1>1, <2>1
    <2>2. CASE EventTimes # {}
      <3>1. EventTimes \in SUBSET Nat
        BY <1>2
      <3>2. Min(EventTimes) \in EventTimes /\ \A t \in EventTimes : Min(EventTimes) <= t
        BY <2>2, <3>1, LeastIsMin
      <3> QED BY <1>2, <2>2, <3>2
    <2> QED BY <2>1, <2>2
  <1> HIDE DEF next
  <1>4. simTime' = Min({MaxTime, next})
    BY DEF Clock, next
  <1>5. simTime' \in {MaxTime, next} /\ simTime' <= MaxTime /\ simTime' <= next
    <2>1. {MaxTime, next} \in SUBSET Nat
      BY <1>1, <1>3
    <2> QED BY <1>4, <2>1, LeastIsMin
  <1>6. \A m \in Active : jobs[m].end \in EventTimes
    BY DEF EventTimes
  <1>7. \A i \in pending : scenario[i].at >= simTime => scenario[i].at \in EventTimes
    BY DEF EventTimes
  <1>8. \A i \in pending : scenario[i].at >= simTime
    BY DEF ClockInv
  <1>9. \A t \in EventTimes : simTime' <= t
    BY <1>1, <1>2, <1>3, <1>5
  <1>10. \A i \in pending : scenario[i].at \in Nat
    BY ScenarioFacts DEF TypeOK
  <1>11. \A m \in Active : jobs[m].end \in Nat
    BY ActiveFacts
  <1>12. simTime' \in 0..MaxTime /\ simTime <= simTime'
    BY <1>1, <1>3, <1>5
  <1> QED BY <1>6, <1>7, <1>8, <1>9, <1>10, <1>11, <1>12

LEMMA ClockStep ==
    ASSUME EnvInv, Clock
    PROVE  EnvInv'
  <1> USE DEF EnvInv
  <1>1. /\ phase' = "failures" /\ simTime' \in 0..MaxTime /\ simTime <= simTime' /\ simTime' \in Nat
        /\ UNCHANGED <<scenario, robot, jobs, completed, decisions, pending, obstacles, routing>>
    BY ClockFacts, Fleet DEF Clock
  <1>2. Active' = Active /\ \A r : Struck(r)' = Struck(r)
    BY <1>1, SameStruck DEF Active
  <1>3. TypeOK'
    BY <1>1 DEF TypeOK
  <1>4. Backed'
    BY <1>1, <1>2 DEF Backed, JobsBacked, RobotsBacked
  <1>5. ClockInv'
    BY <1>1, <1>2, ClockFacts DEF ClockInv, JobsLater, FailuresLater
  <1>6. \A r \in Robots : Excused(r)'
    BY <1>1, <1>2, OutageKept
  <1>7. WaysInv'
    BY <1>1, <1>2, WaysKept
  <1> QED BY <1>1, <1>2, <1>3, <1>4, <1>5, <1>6, <1>7 DEF InOrder

\* A failure that is due is the next one of the scenario, and strikes in its time.
LEMMA DueFacts ==
    ASSUME EnvInv, Due # {}
    PROVE  /\ Min(Due) \in pending /\ Min(Due) \in DOMAIN scenario
           /\ scenario[Min(Due)].at = simTime
           /\ \A j \in pending \ {Min(Due)} : Min(Due) < j
           /\ \A i \in DOMAIN scenario \ pending : i < Min(Due)
  <1> USE DEF EnvInv
  <1>1. /\ scenario \in Scenarios /\ pending \subseteq DOMAIN scenario
        /\ DOMAIN scenario \subseteq Nat /\ simTime \in Nat
    BY ScenarioFacts DEF TypeOK
  <1>2. Due \in SUBSET Nat /\ Due \subseteq pending
    BY <1>1 DEF Due
  <1>3. Min(Due) \in Due /\ \A j \in Due : Min(Due) <= j
    BY <1>2, LeastIsMin
  <1>4. /\ Min(Due) \in pending /\ scenario[Min(Due)].at <= simTime
        /\ scenario[Min(Due)].at \in Nat /\ scenario[Min(Due)].at >= simTime
    BY <1>1, <1>3, ScenarioFacts DEF Due, ClockInv
  <1>5. \A j \in pending \ {Min(Due)} : Min(Due) < j
    <2> SUFFICES ASSUME NEW j \in pending, j < Min(Due) PROVE FALSE
      BY <1>1, <1>4
    <2>1. scenario[j].at <= scenario[Min(Due)].at /\ scenario[j].at \in Nat
      BY <1>1, <1>4, ScenarioFacts
    <2>2. j \in Due
      BY <1>1, <1>4, <2>1 DEF Due
    <2>3. Min(Due) <= j /\ j \in Nat /\ Min(Due) \in Nat
      BY <1>1, <1>3, <1>4, <2>2
    <2> QED BY <2>3
  <1> QED BY <1>1, <1>4, <1>5 DEF InOrder

\* What a failure does: it releases whole teams, and may put a robot out of service.
Strikes(k, lost) ==
    /\ lost \in SUBSET Active /\ jobs' = Without(lost)
    /\ \/ /\ scenario[k].kind = "robot" /\ UNCHANGED obstacles
          /\ \A m \in Active : scenario[k].robot \in jobs[m].team => m \in lost
          /\ robot' = [r \in Robots |->
                IF r = scenario[k].robot
                THEN [Released(r, lost) EXCEPT !.status = "unavailable",
                                               !.until = simTime + scenario[k].duration]
                ELSE Released(r, lost)]
       \/ /\ scenario[k].kind # "robot"
          /\ robot' = [r \in Robots |-> Released(r, lost)]
          /\ \/ scenario[k].kind = "drop" /\ UNCHANGED obstacles
             \/ /\ scenario[k].kind = "obstacle"
                /\ obstacles' = obstacles \cup {scenario[k].cell}
                /\ \A m \in Active : scenario[k].cell \in jobs[m].approach => m \in lost

LEMMA FailureStrikes ==
    ASSUME EnvInv, ApplyFailure
    PROVE  \E lost : Strikes(Min(Due), lost)
  <1> USE DEF EnvInv
  <1> DEFINE k == Min(Due)
             f == scenario[k]
  <1>1. f.kind = "robot" => f.robot \in Robots
    BY DueFacts, ScenarioFacts DEF ApplyFailure, TypeOK
  <1>2. CASE f.kind = "robot" /\ Outage(f) /\ UNCHANGED obstacles
    <2> DEFINE lost == {robot[f.robot].job} \ {Wait}
    <2>1. lost \in SUBSET Active /\ \A m \in Active : f.robot \in jobs[m].team => m \in lost
      <3>1. \A m \in Active : f.robot \in jobs[m].team =>
                 robot[f.robot].status = "busy" /\ robot[f.robot].job = m
        BY DEF Backed, JobsBacked
      <3>2. \A m \in Active : m # Wait
        BY Fleet, ActiveFacts
      <3>3. robot[f.robot].job \in Active \/ robot[f.robot].job = Wait
        BY <1>1, <1>2 DEF Backed, RobotsBacked
      <3> HIDE DEF f
      <3> QED BY <3>1, <3>2, <3>3
    <2>2. Strikes(k, lost)
      BY <1>2, <2>1 DEF Outage, Strikes
    <2> QED BY <2>2
  <1>3. CASE f.kind = "obstacle" /\ BlockCell(f)
    <2> DEFINE lost == {m \in Active : f.cell \in jobs[m].approach}
    <2>1. Strikes(k, lost)
      BY <1>3 DEF BlockCell, Strikes
    <2> QED BY <2>1
  <1>4. CASE f.kind = "drop" /\ Drop(f) /\ UNCHANGED obstacles
    <2> DEFINE lost == IF f.module \in Active THEN {f.module}
                       ELSE IF Active # {} THEN {Min(Active)} ELSE {}
    <2>1. Active \in SUBSET Nat
      BY Fleet DEF Active
    <2>2. lost \in SUBSET Active
      BY <2>1, LeastIsMin
    <2>3. Strikes(k, lost)
      BY <1>4, <2>2 DEF Drop, Strikes
    <2> QED BY <2>3
  <1> QED BY <1>2, <1>3, <1>4 DEF ApplyFailure

\* The record of a robot after a failure.
LEMMA StrikesRobots ==
    ASSUME EnvInv, ApplyFailure, NEW lost, Strikes(Min(Due), lost), NEW r \in Robots
    PROVE  /\ robot'[r] \in RobotType /\ robot' = [q \in Robots |-> robot'[q]]
           /\ IF \E m \in lost : r \in jobs[m].team
              THEN robot'[r].job = Wait /\ robot'[r].status # "busy"
              ELSE \/ robot'[r].status = robot[r].status /\ robot'[r].job = robot[r].job
                   \/ /\ robot[r].status # "busy"
                      /\ robot'[r].status # "busy" /\ robot'[r].job = Wait
           /\ IF scenario[Min(Due)].kind = "robot" /\ r = scenario[Min(Due)].robot
              THEN /\ robot'[r].status = "unavailable"
                   /\ robot'[r].until = simTime + scenario[Min(Due)].duration
              ELSE robot'[r] = Released(r, lost)
  <1> USE DEF EnvInv
  <1> DEFINE f == scenario[Min(Due)]
  <1>1. f.duration \in Nat /\ simTime \in Nat
    BY DueFacts, ScenarioFacts DEF ApplyFailure, TypeOK
  <1>2. robot' = [q \in Robots |-> robot'[q]]
    BY DEF Strikes
  <1>3. /\ Released(r, lost) \in RobotType
        /\ (\E m \in lost : r \in jobs[m].team) =>
              Released(r, lost).job = Wait /\ Released(r, lost).status # "busy"
        /\ ~(\E m \in lost : r \in jobs[m].team) => Released(r, lost) = robot[r]
    BY ReleasedTyped
  <1>4. CASE f.kind = "robot" /\ r = f.robot
    <2> DEFINE x == [Released(r, lost) EXCEPT !.status = "unavailable",
                                              !.until = simTime + f.duration]
    <2>1. robot'[r] = x
      BY <1>4 DEF Strikes
    <2>2. /\ x \in RobotType /\ x.status = "unavailable" /\ x.until = simTime + f.duration
          /\ x.job = Released(r, lost).job
      <3>1. \A old \in RobotType, u \in Nat :
              LET new == [old EXCEPT !.status = "unavailable", !.until = u]
              IN  /\ new \in RobotType /\ new.status = "unavailable" /\ new.until = u
                  /\ new.job = old.job
        BY DEF RobotType
      <3>2. simTime + f.duration \in Nat
        BY <1>1
      <3> QED BY <1>3, <3>1, <3>2
    <2>3. ~(\E m \in lost : r \in jobs[m].team) => robot[r].status # "busy" /\ robot[r].job = Wait
      BY <1>4 DEF Strikes, Backed, RobotsBacked
    <2> HIDE DEF x, f
    <2>4. robot'[r].status # "busy" /\ robot'[r].job = Wait
      BY <1>3, <2>1, <2>2, <2>3
    <2> QED BY <1>2, <1>3, <1>4, <2>1, <2>2, <2>3, <2>4 DEF f
  <1>5. CASE ~ (f.kind = "robot" /\ r = f.robot)
    <2>1. robot'[r] = Released(r, lost)
      BY <1>5 DEF Strikes
    <2> QED BY <1>2, <1>3, <1>5, <2>1
  <1> QED BY <1>4, <1>5

\* A failure that blocks a cell ends the jobs that are to pass there, also those whose
\* robots set out from there; it falls after the start of every job it leaves.
LEMMA StrikesKeepsWays ==
    ASSUME EnvInv, ApplyFailure, NEW k, k = Min(Due), NEW lost, Strikes(k, lost)
    PROVE  WaysInv'
  <1> USE DEF EnvInv
  <1>1. /\ pending' = pending \ {k} /\ k \in pending /\ k \in DOMAIN scenario
        /\ scenario[k].at = simTime /\ simTime \in Nat
        /\ UNCHANGED <<scenario, completed, simTime>>
    BY DueFacts DEF ApplyFailure, TypeOK
  <1>2. Active' = Active \ lost /\ \A m \in Active' : m \in Active /\ jobs'[m] = jobs[m]
    BY WithoutFacts DEF Strikes
  <1>3. ASSUME NEW m \in Active', NEW r \in jobs[m].team PROVE robot'[r] = robot[r]
    <2>1. m \in Active /\ m \notin lost /\ r \in Robots /\ lost \subseteq Active
      BY <1>2, <1>3, ActiveFacts DEF Strikes
    <2>2. ~ \E n \in lost : r \in jobs[n].team
      BY <1>3, <2>1, TeamsDisjoint DEF Backed
    <2>3. ~ (scenario[k].kind = "robot" /\ r = scenario[k].robot)
      BY <1>3, <2>1 DEF Strikes
    <2> QED BY <2>1, <2>2, <2>3, StrikesRobots, ReleasedTyped
  <1>4. \A c : Fallen(c)' = IF Blocks(k, c) THEN Fallen(c) \cup {k} ELSE Fallen(c)
    BY <1>1 DEF Fallen, Blocks
  <1>5. /\ obstacles \subseteq obstacles'
        /\ \A c \in obstacles' : c \in obstacles \/ Blocks(k, c)
        /\ scenario[k].kind = "obstacle" => scenario[k].cell \in obstacles'
        /\ \A m \in Active', c \in obstacles' :
               c \notin obstacles => c \notin jobs[m].approach
    BY <1>2 DEF Strikes, Blocks
  <1>6. \A c : c \notin obstacles => Fallen(c) = {}
    BY DEF Fallen, WaysInv
  <1>7. \A c : (c \in obstacles => Fallen(c) # {}) => (c \in obstacles' => Fallen(c)' # {})
    BY <1>4, <1>5
  <1>8. ASSUME NEW m \in Active'
        PROVE  /\ jobs'[m].approach \cap obstacles' = {}
               /\ \A r \in jobs'[m].team : robot'[r].at \notin obstacles'
               /\ \A c \in (jobs'[m].carry \cup CarryEnds(m)) \cap obstacles' :
                    /\ Fallen(c)' # {}
                    /\ \A i \in Fallen(c)' : scenario'[i].at >= jobs'[m].start
               /\ jobs'[m].start <= simTime'
               /\ \A r \in jobs'[m].team : \A i \in pending' :
                     Blocks(i, robot[r].at)' => robot'[r].at \in jobs'[m].approach
    <2>1. m \in Active /\ jobs'[m] = jobs[m] /\ jobs[m].start \in Nat
      BY <1>2, <1>8, ActiveFacts
    <2>2. jobs[m].start <= simTime
      BY <2>1 DEF WaysInv
    <2>3. jobs[m].approach \cap obstacles' = {}
      BY <1>5, <1>8, <2>1 DEF WaysInv, ObstaclesHeeded
    <2>4. ASSUME NEW r \in jobs[m].team PROVE robot'[r].at \notin obstacles'
      <3>1. robot'[r] = robot[r] /\ robot[r].at \notin obstacles
        BY <1>3, <1>8, <2>1, <2>4 DEF WaysInv, ObstaclesHeeded
      <3>2. Blocks(k, robot[r].at) => robot[r].at \in jobs[m].approach
        BY <1>1, <2>1, <2>4 DEF WaysInv
      <3> QED BY <1>5, <2>3, <3>1, <3>2
    <2>5. ASSUME NEW c \in (jobs[m].carry \cup CarryEnds(m)) \cap obstacles'
          PROVE  /\ Fallen(c)' # {}
                 /\ \A i \in Fallen(c)' : scenario[i].at >= jobs[m].start
      <3>1. c \in obstacles => /\ Fallen(c) # {}
                              /\ \A i \in Fallen(c) : scenario[i].at >= jobs[m].start
        BY <2>1, <2>5 DEF WaysInv, ObstaclesHeeded
      <3>2. \A i \in Fallen(c) : scenario[i].at >= jobs[m].start
        BY <1>6, <3>1
      <3> QED BY <1>1, <1>4, <1>7, <2>2, <3>1, <3>2
    <2>6. \A r \in jobs[m].team : \A i \in pending' :
             Blocks(i, robot[r].at)' => robot'[r].at \in jobs[m].approach
      BY <1>1, <1>3, <1>8, <2>1 DEF WaysInv, Blocks
    <2> QED BY <1>1, <2>1, <2>2, <2>3, <2>4, <2>5, <2>6
  <1>9. \A m \in completed' : TargetCell[m][0] \in obstacles' => Fallen(TargetCell[m][0])' # {}
    BY <1>1, <1>7 DEF WaysInv, ObstaclesHeeded
  <1>10. ObstaclesHeeded'
    BY <1>8, <1>9 DEF ObstaclesHeeded
  <1>11. \A i \in DOMAIN scenario' \ pending' :
            scenario'[i].kind = "obstacle" => scenario'[i].cell \in obstacles'
    BY <1>1, <1>5 DEF WaysInv
  <1> QED BY <1>8, <1>10, <1>11 DEF WaysInv

LEMMA ApplyFailureStep ==
    ASSUME EnvInv, ApplyFailure
    PROVE  EnvInv'
  <1> USE DEF EnvInv
  <1>0. PICK k : k = Min(Due)
    OBVIOUS
  <1>1. /\ phase = "failures" /\ pending' = pending \ {k}
        /\ UNCHANGED <<scenario, phase, completed, simTime, decisions, routing>>
    BY <1>0 DEF ApplyFailure
  <1>2. PICK lost : Strikes(k, lost)
    BY <1>0, FailureStrikes
  <1>3. /\ k \in pending /\ k \in DOMAIN scenario /\ scenario[k].at = simTime
        /\ \A j \in pending \ {k} : k < j
        /\ \A i \in DOMAIN scenario \ pending : i < k
    BY <1>0, DueFacts DEF ApplyFailure
  <1>4. /\ lost \in SUBSET Active /\ jobs' = Without(lost)
        /\ (jobs \in [Modules -> JobType \cup {NoJob}])'
        /\ Active' = Active \ lost
        /\ \A m \in Active' : m \in Active /\ jobs'[m] = jobs[m]
    <2>1. lost \in SUBSET Active /\ jobs' = Without(lost)
      BY <1>2 DEF Strikes
    <2> QED BY <2>1, WithoutFacts
  <1>5. robot' \in [Robots -> RobotType]
    <2>1. \A r \in Robots : robot'[r] \in RobotType
      BY <1>0, <1>2, StrikesRobots
    <2>2. robot' = [r \in Robots |-> robot'[r]]
      BY <1>2 DEF Strikes
    <2> QED BY <2>1, <2>2
  <1>6. obstacles' \subseteq Cells
    <2>1. scenario[k].kind = "obstacle" => scenario[k].cell \in Cells
      BY <1>3, ScenarioFacts DEF TypeOK
    <2> QED BY <1>2, <2>1 DEF Strikes, TypeOK
  <1>7. TypeOK'
    BY <1>1, <1>4, <1>5, <1>6 DEF TypeOK, RobotType
  <1>8. Backed'
    <2>1. \A r \in Robots :
            IF \E m \in lost : r \in jobs[m].team
            THEN robot'[r].job = Wait /\ robot'[r].status # "busy"
            ELSE \/ robot'[r].status = robot[r].status /\ robot'[r].job = robot[r].job
                 \/ robot[r].status # "busy" /\ robot'[r].status # "busy" /\ robot'[r].job = Wait
      BY <1>2, <1>0, StrikesRobots
    <2>2. completed \subseteq completed' /\ completed' \subseteq completed \cup lost
      BY <1>1
    <2> QED BY <1>4, <1>5, <2>1, <2>2, ReleaseKeepsCrews
  <1>9. ClockInv'
    BY <1>1, <1>4 DEF ClockInv, JobsLater, FailuresLater
  <1>10. InOrder'
    BY <1>1, <1>3 DEF InOrder
  <1>11. \A r \in Robots : Excused(r)'
    <2> TAKE r \in Robots
    <2>1. CASE scenario[k].kind = "robot" /\ r = scenario[k].robot
      <3>1. /\ robot'[r].status = "unavailable"
            /\ robot'[r].until = simTime + scenario[k].duration
        BY <1>2, <2>1, <1>0, StrikesRobots
      <3>2. Struck(r)' = Struck(r) \cup {k}
        BY <1>1, <1>3, <2>1 DEF Struck
      <3>3. robot'[r].until = OutageEnd(k)'
        BY <1>1, <1>3, <3>1 DEF OutageEnd
      <3>4. \A i \in Struck(r) \cup {k} : i <= k
        <4>1. k \in Nat /\ \A i \in Struck(r) : i \in Nat /\ i < k
          BY <1>3, ScenarioFacts DEF TypeOK, Struck
        <4> QED BY <4>1
      <3> QED BY <3>1, <3>2, <3>3, <3>4 DEF Excused
    <2>2. CASE ~ (scenario[k].kind = "robot" /\ r = scenario[k].robot)
      <3>1. robot'[r] = Released(r, lost)
        BY <1>2, <2>2, <1>0, StrikesRobots
      <3>2. /\ robot'[r].until = robot[r].until /\ robot'[r].battery = robot[r].battery
            /\ robot'[r].status = "unavailable" <=> robot[r].status = "unavailable"
        BY <3>1, ReleasedTyped
      <3>3. Struck(r)' = Struck(r)
        BY <1>1, <2>2 DEF Struck
      <3>4. simTime' \in Nat /\ simTime <= simTime'
        BY <1>1 DEF TypeOK
      <3> QED BY <1>1, <3>2, <3>3, <3>4, OutageKept
    <2> QED BY <2>1, <2>2
  <1>12. WaysInv'
    BY <1>0, <1>2, <1>3, StrikesKeepsWays
  <1> QED BY <1>7, <1>8, <1>9, <1>10, <1>11, <1>12

\* Who comes back into service has waited for the last outage to end.
LEMMA RecoverStep ==
    ASSUME EnvInv, Recover
    PROVE  EnvInv'
  <1> USE DEF EnvInv
  <1>1. /\ phase' = "finish" /\ Due = {}
        /\ UNCHANGED <<scenario, jobs, completed, simTime, decisions, pending, obstacles, routing>>
    BY DEF Recover
  <1>2. Active' = Active /\ \A r : Struck(r)' = Struck(r)
    BY <1>1, SameStruck DEF Active
  <1>3. \A r \in Robots :
          /\ robot'[r] \in RobotType
          /\ \/ robot'[r] = robot[r] /\ (robot[r].status = "unavailable" => robot[r].until > simTime)
             \/ /\ robot[r].status = "unavailable" /\ robot[r].until <= simTime
                /\ robot'[r] = [robot[r] EXCEPT !.status = "idle", !.until = 0]
    <2> TAKE r \in Robots
    <2>1. robot[r] \in RobotType /\ robot[r].until \in Nat /\ simTime \in Nat
      BY DEF TypeOK, RobotType
    <2>2. [robot[r] EXCEPT !.status = "idle", !.until = 0] \in RobotType
      BY <2>1 DEF RobotType
    <2>3. robot'[r] = IF robot[r].status = "unavailable" /\ robot[r].until <= simTime
                      THEN [robot[r] EXCEPT !.status = "idle", !.until = 0] ELSE robot[r]
      BY DEF Recover
    <2> QED BY <2>1, <2>2, <2>3
  <1>4. robot' \in [Robots -> RobotType]
    BY <1>3 DEF Recover
  <1>5. \A r \in Robots :
          \/ robot'[r] = robot[r] /\ (robot[r].status = "unavailable" => robot[r].until > simTime)
          \/ /\ robot[r].status = "unavailable" /\ robot[r].until <= simTime
             /\ robot'[r].status = "idle" /\ robot'[r].job = robot[r].job
    BY <1>3 DEF TypeOK
  <1>6. TypeOK'
    BY <1>1, <1>4 DEF TypeOK, RobotType
  <1>7. Backed'
    <2>1. JobsBacked'
      <3>1. \A m \in Active : \A r \in jobs[m].team : r \in Robots /\ robot[r].status = "busy"
        BY ActiveFacts DEF Backed, JobsBacked
      <3>2. \A m \in Active : \A r \in jobs[m].team : robot'[r] = robot[r]
        BY <1>5, <3>1
      <3> QED BY <1>1, <1>2, <3>2 DEF Backed, JobsBacked
    <2>2. RobotsBacked'
      BY <1>1, <1>2, <1>5 DEF Backed, RobotsBacked
    <2> QED BY <2>1, <2>2 DEF Backed
  <1>8. ClockInv'
    <2>1. \A i \in pending : scenario[i].at > simTime
      <3>1. \A i \in pending : scenario[i].at \in Nat /\ ~(scenario[i].at <= simTime)
        BY <1>1, ScenarioFacts DEF Due, TypeOK
      <3> QED BY <3>1 DEF TypeOK
    <2>2. \A r \in Robots : robot'[r].status = "unavailable" => robot'[r].until > simTime
      BY <1>5
    <2> QED BY <1>1, <1>2, <2>1, <2>2 DEF ClockInv, JobsLater
  <1>9. \A r \in Robots : Excused(r)'
    <2> TAKE r \in Robots
    <2>0. simTime \in Nat /\ simTime <= MaxTime /\ MaxTime \in Nat
      BY Fleet DEF TypeOK
    <2>1. CASE robot'[r] = robot[r]
      BY <1>1, <1>2, <2>0, <2>1, OutageKept
    <2>2. CASE robot[r].status = "unavailable" /\ robot[r].until <= simTime
               /\ robot'[r].status = "idle"
      <3>1. robot[r].until # Never
        BY <2>0, <2>2, Fleet
      <3>2. PICK j \in Struck(r) : robot[r].until = OutageEnd(j) /\ \A i \in Struck(r) : i <= j
        BY <2>2, <3>1 DEF Excused
      <3>3. \A i \in Struck(r) : i \in Nat /\ OutageEnd(i) \in Nat /\ OutageEnd(i)' = OutageEnd(i)
        BY <1>1, StruckFacts DEF OutageEnd
      <3>4. OutageEnd(j) <= simTime
        BY <2>2, <3>2
      <3>5. \A i \in Struck(r) : OutageEnd(i) > simTime => j > i
        BY <2>0, <3>2, <3>3, <3>4
      <3> QED BY <1>1, <1>2, <2>2, <3>3, <3>4, <3>5 DEF Excused
    <2> QED BY <1>5, <2>1, <2>2
  <1>10. WaysInv'
    <2>1. \A m \in Active : \A r \in jobs[m].team : r \in Robots /\ robot[r].status = "busy"
      BY ActiveFacts DEF Backed, JobsBacked
    <2>2. \A m \in Active : \A r \in jobs[m].team : robot'[r] = robot[r]
      BY <1>5, <2>1
    <2>3. simTime' \in Nat /\ simTime <= simTime'
      BY <1>1 DEF TypeOK
    <2> QED BY <1>1, <1>2, <2>2, <2>3, WaysKept
  <1> QED BY <1>1, <1>2, <1>6, <1>7, <1>8, <1>9, <1>10 DEF InOrder

\* The end of one job: the whole team is delivered, or released where it stands.
LEMMA FinishRobots ==
    ASSUME EnvInv, NEW m \in Active, NEW r \in Robots,
           \/ jobs[m].success /\ robot' = [q \in Robots |->
                 IF q \in jobs[m].team THEN Delivered(q, m, jobs[m]) ELSE robot[q]]
           \/ robot' = [q \in Robots |-> Released(q, {m})]
    PROVE  /\ robot'[r] \in RobotType /\ robot' = [q \in Robots |-> robot'[q]]
           /\ IF r \in jobs[m].team
              THEN /\ robot'[r].job = Wait /\ robot'[r].status # "busy"
                   /\ \/ robot'[r].status = "unavailable" /\ robot'[r].until = Never
                      \/ robot'[r].status = "idle" /\ (robot'[r].battery = 0 => robot[r].battery = 0)
              ELSE robot'[r] = robot[r]
  <1> USE DEF EnvInv
  <1>1. robot[r] \in RobotType
    BY DEF TypeOK, RobotType
  <1>2. r \in jobs[m].team => robot[r].status = "busy"
    BY DEF Backed, JobsBacked
  <1>3. CASE robot' = [q \in Robots |->
                 IF q \in jobs[m].team THEN Delivered(q, m, jobs[m]) ELSE robot[q]]
    <2>1. Cardinality(jobs[m].team) \in 1..2
      BY ActiveFacts, Fleet DEF Backed, JobsBacked
    <2>2. /\ Delivered(r, m, jobs[m]) \in RobotType
          /\ Delivered(r, m, jobs[m]).job = Wait
          /\ \/ /\ Delivered(r, m, jobs[m]).status = "idle"
                /\ Delivered(r, m, jobs[m]).battery > 0
             \/ /\ Delivered(r, m, jobs[m]).status = "unavailable"
                /\ Delivered(r, m, jobs[m]).until = Never
      BY <2>1, DeliveredTyped
    <2>3. robot'[r] = IF r \in jobs[m].team THEN Delivered(r, m, jobs[m]) ELSE robot[r]
      BY <1>3
    <2>4. robot' = [q \in Robots |-> robot'[q]]
      BY <1>3
    <2>5. CASE r \in jobs[m].team
      <3>1. Delivered(r, m, jobs[m]).status = "idle" => Delivered(r, m, jobs[m]).battery # 0
        BY <2>2
      <3> QED BY <2>2, <2>3, <2>4, <2>5, <3>1
    <2>6. CASE r \notin jobs[m].team
      BY <1>1, <2>3, <2>4, <2>6
    <2> QED BY <2>5, <2>6
  <1>4. CASE robot' = [q \in Robots |-> Released(q, {m})]
    <2>1. robot'[r] = Released(r, {m}) /\ robot' = [q \in Robots |-> robot'[q]]
      BY <1>4
    <2>2. /\ Released(r, {m}) \in RobotType
          /\ Released(r, {m}).battery = robot[r].battery
          /\ Released(r, {m}).status = "unavailable" <=> robot[r].status = "unavailable"
          /\ r \in jobs[m].team => Released(r, {m}).job = Wait /\ Released(r, {m}).status # "busy"
          /\ r \notin jobs[m].team => Released(r, {m}) = robot[r]
      BY ReleasedTyped
    <2>3. Released(r, {m}).status \in {"idle", "busy", "unavailable"}
      BY <2>2 DEF RobotType
    <2> QED BY <1>2, <2>1, <2>2, <2>3
  <1> QED BY <1>3, <1>4

LEMMA FinishStep ==
    ASSUME EnvInv, Finish
    PROVE  EnvInv'
  <1> USE DEF EnvInv
  <1>1. /\ phase = "finish" /\ Ended # {}
        /\ UNCHANGED <<scenario, phase, simTime, decisions, pending, obstacles, routing>>
    BY DEF Finish
  <1>2. Min(Ended) \in Ended
    <2>1. Ended \in SUBSET Nat
      BY ActiveFacts DEF Ended
    <2> QED BY <1>1, <2>1, LeastIsMin
  <1>3. PICK m \in Active : m = Min(Ended)
    BY <1>2 DEF Ended
  <1>4. /\ jobs' = Without({m})
        /\ \/ jobs[m].success /\ robot' = [q \in Robots |->
                 IF q \in jobs[m].team THEN Delivered(q, m, jobs[m]) ELSE robot[q]]
           \/ robot' = [q \in Robots |-> Released(q, {m})]
        /\ completed' \in {completed, completed \cup {m}}
    BY <1>3 DEF Finish
  <1>5. /\ (jobs \in [Modules -> JobType \cup {NoJob}])'
        /\ Active' = Active \ {m}
        /\ \A n \in Active' : n \in Active /\ jobs'[n] = jobs[n]
    BY <1>4, WithoutFacts
  <1>6. \A r \in Robots :
          /\ robot'[r] \in RobotType /\ robot' = [q \in Robots |-> robot'[q]]
          /\ IF r \in jobs[m].team
             THEN /\ robot'[r].job = Wait /\ robot'[r].status # "busy"
                  /\ \/ robot'[r].status = "unavailable" /\ robot'[r].until = Never
                     \/ robot'[r].status = "idle" /\ (robot'[r].battery = 0 => robot[r].battery = 0)
             ELSE robot'[r] = robot[r]
    BY <1>4, FinishRobots
  <1>7. robot' \in [Robots -> RobotType]
    <2>1. robot' = [q \in Robots |-> robot'[q]]
      BY <1>4
    <2> QED BY <1>6, <2>1
  <1>8. TypeOK'
    BY <1>1, <1>4, <1>5, <1>7, ActiveFacts DEF TypeOK, RobotType
  <1>9. Backed'
    <2> DEFINE lost == {m}
    <2>1. \A r \in Robots :
            IF \E n \in lost : r \in jobs[n].team
            THEN robot'[r].job = Wait /\ robot'[r].status # "busy"
            ELSE \/ robot'[r].status = robot[r].status /\ robot'[r].job = robot[r].job
                 \/ robot[r].status # "busy" /\ robot'[r].status # "busy" /\ robot'[r].job = Wait
      BY <1>6
    <2>2. /\ lost \in SUBSET Active /\ jobs' = Without(lost)
          /\ completed \subseteq completed' /\ completed' \subseteq completed \cup lost
      BY <1>4
    <2> HIDE DEF lost
    <2> QED BY <1>7, <2>1, <2>2, ReleaseKeepsCrews
  <1>10. ClockInv'
    <2>1. \A r \in Robots : robot'[r].status = "unavailable" => robot'[r].until > simTime
      <3>1. Never > simTime
        BY Fleet DEF TypeOK
      <3> QED BY <1>1, <1>6, <3>1 DEF ClockInv, FailuresLater
    <2> QED BY <1>1, <1>5, <2>1 DEF ClockInv, JobsLater, FailuresLater
  <1>11. \A r \in Robots : Excused(r)'
    <2> TAKE r \in Robots
    <2>1. Struck(r)' = Struck(r) /\ simTime' \in Nat /\ simTime <= simTime'
      BY <1>1, SameStruck DEF TypeOK
    <2>2. r \in jobs[m].team => robot[r].status = "busy"
      BY DEF Backed, JobsBacked
    <2>3. CASE r \in jobs[m].team
      BY <1>1, <1>6, <2>1, <2>2, <2>3, OutageKept
    <2>4. CASE r \notin jobs[m].team
      BY <1>1, <1>6, <2>1, <2>4, OutageKept
    <2> QED BY <2>3, <2>4
  <1>12. WaysInv'
    <2>1. \A n \in Active' : n \in Active /\ n # m
      BY <1>5
    <2>2. \A n \in Active' : \A r \in jobs[n].team : r \in Robots /\ r \notin jobs[m].team
      BY <2>1, ActiveFacts, TeamsDisjoint DEF Backed
    <2>3. \A n \in Active' : \A r \in jobs[n].team : robot'[r] = robot[r]
      BY <1>6, <2>2
    <2>4. simTime' \in Nat /\ simTime <= simTime'
      BY <1>1 DEF TypeOK
    <2> QED BY <1>1, <1>4, <1>5, <2>3, <2>4, WaysKept
  <1> QED BY <1>1, <1>5, <1>8, <1>9, <1>10, <1>11, <1>12 DEF InOrder

LEMMA EndOrStutter ==
    ASSUME EnvInv, EndStep \/ UNCHANGED vars
    PROVE  EnvInv'
  <1> USE DEF EnvInv
  <1>1. UNCHANGED <<scenario, robot, jobs, completed, simTime, decisions, pending, obstacles, routing>>
    BY DEF EndStep, vars
  <1>2. Active' = Active /\ \A r : Struck(r)' = Struck(r)
    BY <1>1, SameStruck DEF Active
  <1>3. TypeOK'
    BY <1>1 DEF TypeOK, EndStep, vars
  <1>4. Backed'
    BY <1>1, <1>2 DEF Backed, JobsBacked, RobotsBacked
  <1>5. ClockInv'
    <2>1. CASE UNCHANGED vars
      BY <1>1, <1>2, <2>1 DEF ClockInv, JobsLater, FailuresLater, vars
    <2>2. CASE EndStep
      <3>1. \A m \in Active : jobs[m].end > simTime
        <4>1. \A m \in Active : jobs[m].end \in Nat /\ ~(jobs[m].end <= simTime)
          BY <2>2, ActiveFacts DEF EndStep, Ended
        <4> QED BY <4>1 DEF TypeOK
      <3>2. FailuresLater
        BY <2>2 DEF EndStep, FailuresLater
      <3>3. phase' = "decide" => decisions < MaxDecisions
        BY <2>2, Fleet DEF EndStep, TypeOK
      <3> QED BY <1>1, <1>2, <3>1, <3>2, <3>3 DEF ClockInv
    <2> QED BY <2>1, <2>2
  <1>6. \A r \in Robots : Excused(r)'
    <2> TAKE r \in Robots
    <2>1. simTime' \in Nat /\ simTime <= simTime'
      BY <1>1 DEF TypeOK
    <2> QED BY <1>1, <1>2, <2>1, OutageKept
  <1>7. WaysInv'
    <2>1. simTime' \in Nat /\ simTime <= simTime'
      BY <1>1 DEF TypeOK
    <2> QED BY <1>1, <1>2, <2>1, WaysKept
  <1> QED BY <1>1, <1>2, <1>3, <1>4, <1>5, <1>6, <1>7 DEF InOrder

LEMMA EnvStep == EnvInv /\ [Next]_vars => EnvInv'
  BY BidStep, ClockStep, ApplyFailureStep, RecoverStep, FinishStep, EndOrStutter, ResetStep
     DEF Next, Step

-----------------------------------------------------------------------------
(* What the controllers bid.                                                *)

Spare(bids) == {r \in Idle : bids[r] = Wait}
For(bids, m) == {r \in Robots : bids[r] = m}

\* Everybody who bids is in a capable team for one of some modules.
Teamed(bids, modules) ==
    /\ bids \in [Robots -> Modules \cup {Wait}]
    /\ \A m \in Modules : For(bids, m) # {} => m \in modules /\ For(bids, m) \in CapableTeams(m, Idle)

\* And nobody is left who could be one for another of them.
Exhausted(bids, modules) ==
    \A m \in modules : For(bids, m) = {} => CapableTeams(m, Spare(bids)) = {}

LEMMA CapableFacts ==
    ASSUME NEW m \in Modules, NEW C, NEW T \in CapableTeams(m, C)
    PROVE  /\ T \in SUBSET (C \cap Idle) /\ T \in SUBSET Robots /\ T # {} /\ IsFiniteSet(T)
           /\ Cardinality(T) = TeamSize[m] /\ Carries(T, m)
  <1>1. T \in SUBSET (C \cap Idle) /\ Cardinality(T) = TeamSize[m] /\ Carries(T, m)
    BY DEF CapableTeams, kSubset
  <1>2. T \in SUBSET Robots /\ IsFiniteSet(T)
    BY <1>1, Fleet, FS_Subset DEF Idle
  <1>3. TeamSize[m] # 0
    BY Fleet
  <1> QED BY <1>1, <1>2, <1>3, FS_EmptySet

LEMMA CapableOfMore ==
    ASSUME NEW m, NEW C, NEW D, C \cap Idle \subseteq D
    PROVE  CapableTeams(m, C) \subseteq CapableTeams(m, D)
  BY DEF CapableTeams, kSubset

LEMMA TeamIsCapable ==
    ASSUME NEW m \in Modules, NEW C
    PROVE  IF CapableTeams(m, C) = {} THEN Team(m, C) = {} ELSE Team(m, C) \in CapableTeams(m, C)
  <1>1. CASE CapableTeams(m, C) = {}
    BY <1>1 DEF Team
  <1>2. CASE CapableTeams(m, C) # {}
    <2>1. \A T \in CapableTeams(m, C) : T \in SUBSET Nat /\ IsFiniteSet(T) /\ Cardinality(T) = TeamSize[m]
      BY CapableFacts, Fleet
    <2>2. \E T \in CapableTeams(m, C) : \A U \in CapableTeams(m, C) \ {T} : Precedes(T, U)
      BY <1>2, <2>1, Fleet, FirstTeam
    <2> QED BY <1>2, <2>2 DEF Team
  <1> QED BY <1>1, <1>2

\* Who works alone carries the module alone.
LEMMA CarriedAlone ==
    ASSUME NEW r \in Robots, NEW m \in Modules, Carries({r}, m) PROVE Payload[r] >= Mass[m]
  <1> DEFINE sum == CHOOSE f : f = [s \in SUBSET {r} |->
                        IF s = {} THEN 0
                        ELSE Payload[CHOOSE x \in s : TRUE] + f[s \ {CHOOSE x \in s : TRUE}]]
             g == [s \in SUBSET {r} |-> IF s = {} THEN 0 ELSE Payload[r] + 0]
  <1>1. sum[{r}] >= Mass[m]
    BY DEF Carries, MapThenSumSet, MapThenFoldSet
  <1>2. g = [s \in SUBSET {r} |->
                        IF s = {} THEN 0
                        ELSE Payload[CHOOSE x \in s : TRUE] + g[s \ {CHOOSE x \in s : TRUE}]]
    <2> SUFFICES ASSUME NEW s \in SUBSET {r}, s # {}
                 PROVE  /\ (CHOOSE x \in s : TRUE) = r /\ s \ {CHOOSE x \in s : TRUE} = {}
      OBVIOUS
    <2> QED OBVIOUS
  <1>3. sum = [s \in SUBSET {r} |->
                        IF s = {} THEN 0
                        ELSE Payload[CHOOSE x \in s : TRUE] + sum[s \ {CHOOSE x \in s : TRUE}]]
    <2> HIDE DEF g
    <2> QED BY <1>2
  <1> HIDE DEF sum
  <1>4. sum[{r}] = Payload[r] + 0
    <2>1. sum[{}] = 0
      BY <1>3
    <2>2. (CHOOSE x \in {r} : TRUE) = r /\ {r} \ {r} = {}
      OBVIOUS
    <2>3. sum[{r}] = Payload[CHOOSE x \in {r} : TRUE] + sum[{r} \ {CHOOSE x \in {r} : TRUE}]
      BY <1>3
    <2> QED BY <2>1, <2>2, <2>3
  <1>5. Payload[r] \in Nat
    BY FleetAssumption
  <1> QED BY <1>1, <1>4, <1>5

\* The environment takes such bids as they are meant.
LEMMA TeamedAreAccepted ==
    ASSUME NEW bids, Teamed(bids, Ready) PROVE Accepted(bids)
  <1> SUFFICES ASSUME NEW r \in Robots, bids[r] # Wait
               PROVE  /\ For(bids, bids[r]) = Bidders(bids, bids[r])
                      /\ Team(bids[r], For(bids, bids[r])) = For(bids, bids[r])
    BY DEF Accepted, For
  <1> DEFINE m == bids[r]
             T == For(bids, m)
  <1>1. m \in Modules /\ r \in T
    BY DEF Teamed, For
  <1>2. m \in Ready /\ T \in CapableTeams(m, Idle)
    BY <1>1 DEF Teamed
  <1>3. T \in SUBSET Idle /\ IsFiniteSet(T) /\ Cardinality(T) = TeamSize[m] /\ Carries(T, m)
    BY <1>1, <1>2, CapableFacts
  <1>4. ASSUME NEW q \in T PROVE m \in Mask(q)
    <2>1. ASSUME TeamSize[m] = 1 PROVE Payload[q] >= Mass[m]
      <3>1. T = {q}
        <4>1. PICK x : T = {x}
          BY <1>3, <2>1, FS_Singleton
        <4> QED BY <4>1
      <3> QED BY <1>1, <1>3, <3>1, CarriedAlone DEF For
    <2> QED BY <1>2, <1>3, <2>1 DEF Mask, Idle
  <1>5. T = Bidders(bids, m)
    BY <1>4 DEF Bidders, For
  <1>6. CapableTeams(m, T) = {T}
    <2>1. T \in CapableTeams(m, T)
      BY <1>3 DEF CapableTeams, kSubset
    <2>2. ASSUME NEW U \in CapableTeams(m, T) PROVE U = T
      <3>1. U \subseteq T /\ Cardinality(U) = Cardinality(T)
        BY <1>1, <1>3, CapableFacts
      <3> QED BY <1>3, <3>1, FS_Subset
    <2> QED BY <2>1, <2>2
  <1>7. Team(m, T) = T
    BY <1>1, <1>6, TeamIsCapable
  <1> QED BY <1>5, <1>7

\* One more module takes a team of its own, if there is one.
LEMMA ScriptGoesOn ==
    ASSUME NEW modules \in SUBSET Modules, NEW m \in modules, NEW bids,
           Teamed(bids, modules \ {m}), Exhausted(bids, modules \ {m})
    PROVE  Teamed(Grab(m, bids), modules) /\ Exhausted(Grab(m, bids), modules)
  <1> DEFINE T == Team(m, Spare(bids))
             more == Grab(m, bids)
  <1>1. more = [r \in Robots |-> IF r \in T THEN m ELSE bids[r]]
    BY DEF Grab, BidFor, Spare
  <1>2. bids \in [Robots -> Modules \cup {Wait}] /\ m \in Modules
    BY DEF Teamed
  <1>3. T = {} \/ T \in CapableTeams(m, Spare(bids))
    BY <1>2, TeamIsCapable
  <1>4. T \subseteq Spare(bids) /\ (T = {} => CapableTeams(m, Spare(bids)) = {})
    <2>1. T \subseteq Spare(bids)
      BY <1>2, <1>3, CapableFacts
    <2>2. T = {} => CapableTeams(m, Spare(bids)) = {}
      BY <1>2, TeamIsCapable, CapableFacts
    <2> QED BY <2>1, <2>2
  <1> HIDE DEF T, more
  <1>5. Spare(bids) \subseteq Idle /\ Spare(bids) \subseteq Robots /\ \A r \in Spare(bids) : bids[r] = Wait
    BY DEF Spare, Idle
  <1>6. Spare(more) \subseteq Spare(bids)
    BY <1>1, <1>2, Fleet DEF Spare, Idle
  <1>7. \A k \in Modules \ {m} : For(more, k) = For(bids, k)
    BY <1>1, <1>4, <1>5, Fleet DEF For
  <1>8. For(more, m) = T
    <2>1. For(bids, m) = {}
      BY <1>2 DEF Teamed
    <2> QED BY <1>1, <1>4, <1>5, <2>1 DEF For
  <1>9. Teamed(more, modules)
    <2>1. more \in [Robots -> Modules \cup {Wait}]
      BY <1>1, <1>2
    <2>2. T # {} => T \in CapableTeams(m, Idle)
      BY <1>3, <1>5, CapableOfMore
    <2> QED BY <1>7, <1>8, <2>1, <2>2 DEF Teamed
  <1>10. Exhausted(more, modules)
    <2> SUFFICES ASSUME NEW k \in modules, For(more, k) = {} PROVE CapableTeams(k, Spare(more)) = {}
      BY DEF Exhausted
    <2>1. CapableTeams(k, Spare(bids)) = {}
      BY <1>4, <1>7, <1>8 DEF Exhausted
    <2> QED BY <1>6, <2>1, CapableOfMore
  <1> QED BY <1>9, <1>10 DEF more

LEMMA ReadyFacts == Ready \subseteq Modules /\ IsFiniteSet(Ready)
  <1>1. IsFiniteSet(Modules)
    BY FleetAssumption
  <1> QED BY <1>1, FS_Subset DEF Ready

\* Some module is the last one to be placed.
LEMMA LastIsOne ==
    ASSUME NEW S \in SUBSET Ready, S # {} PROVE LastOf(S) \in S
  <1> DEFINE R == {p \in Modules \X Modules : Before(p[1], p[2])}
  <1>1. IsFiniteSet(S)
    BY ReadyFacts, FS_Subset
  <1>2. \A m \in S : m \in Modules /\ TeamSize[m] \in Nat /\ m \in Nat
    BY ReadyFacts, Fleet
  <1>3. \A m, k \in S : <<m, k>> \in R <=> Before(m, k)
    BY <1>2
  <1>4. /\ \A m \in S : <<m, m>> \notin R
        /\ \A m, k, o \in S : <<m, k>> \in R /\ <<k, o>> \in R => <<m, o>> \in R
        /\ \A m, k \in S : <<m, k>> \notin R => k = m \/ <<k, m>> \in R
    <2> HIDE DEF R
    <2> QED BY <1>2, <1>3 DEF Before
  <1> HIDE DEF R
  <1>5. PICK m \in S : \A k \in S : <<m, k>> \notin R
    BY <1>1, <1>4, LastInOrder
  <1>6. \A k \in S \ {m} : Before(k, m)
    BY <1>3, <1>4, <1>5
  <1> QED BY <1>6 DEF LastOf

LEMMA ScriptIsTeamed == Teamed(ScriptedBids, Ready) /\ Exhausted(ScriptedBids, Ready)
  <1> DEFINE X == [Robots -> Modules \cup {Wait}]
             step == [m \in Ready |-> [bids \in X |-> Grab(m, bids)]]
             last == [s \in SUBSET Ready |-> LastOf(s)]
             OneMore(f, s) == IF s = {} THEN NoBids ELSE Grab(LastOf(s), f[s \ {LastOf(s)}])
             gather == CHOOSE f : f = [s \in SUBSET Ready |-> OneMore(f, s)]
  <1>1. ScriptedBids = gather[Ready]
    BY DEF ScriptedBids, MapThenFoldSet
  <1>2. \A s \in SUBSET Ready : s # {} => last[s] \in s /\ last[s] = LastOf(s)
    BY LastIsOne
  <1>3. step \in [Ready -> [X -> X]] /\ NoBids \in X
    <2>1. \A m \in Ready, bids \in X : Grab(m, bids) \in X
      BY ReadyFacts DEF Grab, BidFor
    <2> HIDE DEF X
    <2>2. step \in [Ready -> [X -> X]]
      BY <2>1
    <2> QED BY <2>2 DEF X, NoBids
  <1>4. PICK f : Gathers(f, Ready, X, NoBids, step, last)
    <2> HIDE DEF X, step, last
    <2> QED BY <1>2, <1>3, ReadyFacts, Gathering
  <1>5. f \in [SUBSET Ready -> X] /\ \A s \in SUBSET Ready : f[s] = OneMore(f, s)
    <2>1. f \in [SUBSET Ready -> X] /\ f[{}] = NoBids
      BY <1>4 DEF Gathers
    <2> HIDE DEF X
    <2>2. ASSUME NEW s \in SUBSET Ready, s # {} PROVE f[s] = OneMore(f, s)
      <3>1. f[s] = step[last[s]][f[s \ {last[s]}]]
        BY <1>4, <2>2 DEF Gathers
      <3>2. last[s] \in Ready /\ last[s] = LastOf(s) /\ f[s \ {last[s]}] \in X
        BY <1>2, <2>1, <2>2
      <3>3. step[last[s]][f[s \ {last[s]}]] = Grab(last[s], f[s \ {last[s]}])
        BY <3>2
      <3> QED BY <2>2, <3>1, <3>2, <3>3
    <2> QED BY <2>1, <2>2
  <1>6. gather = [s \in SUBSET Ready |-> OneMore(gather, s)]
    <2>1. f = [s \in SUBSET Ready |-> OneMore(f, s)]
      <3> HIDE DEF OneMore, X
      <3> QED BY <1>5
    <2> HIDE DEF OneMore
    <2> QED BY <2>1
  <1>7. \A s \in SUBSET Ready : gather[s] = OneMore(gather, s)
    <2> HIDE DEF gather, OneMore
    <2> QED BY <1>6
  <1> HIDE DEF gather
  <1> DEFINE good == {s \in SUBSET Ready : Teamed(gather[s], s) /\ Exhausted(gather[s], s)}
  <1>8. {} \in good
    <2>1. gather[{}] = NoBids
      BY <1>7
    <2>2. \A m \in Modules : For(NoBids, m) = {}
      BY Fleet DEF For, NoBids
    <2> QED BY <2>1, <2>2 DEF Teamed, Exhausted, NoBids
  <1>9. \A s \in SUBSET Ready : s # {} => last[s] \in s /\ (s \ {last[s]} \in good => s \in good)
    <2> SUFFICES ASSUME NEW s \in SUBSET Ready, s # {}, last[s] \in s, s \ {last[s]} \in good
                 PROVE  s \in good
      BY <1>2
    <2>1. gather[s] = Grab(last[s], gather[s \ {last[s]}])
      BY <1>2, <1>7
    <2>2. s \in SUBSET Modules
      BY ReadyFacts
    <2> HIDE DEF last
    <2> QED BY <2>1, <2>2, ScriptGoesOn
  <1> HIDE DEF good, last
  <1>10. Ready \in good
    BY <1>8, <1>9, ReadyFacts, OneByOne
  <1> QED BY <1>1, <1>10 DEF good

\* Whoever bids is in the team that a module has been offered.
Offered(bids, offer, B) ==
    /\ bids \in [Robots -> Modules \cup {Wait}]
    /\ \A m \in Modules : For(bids, m) # {} => m \in B /\ For(bids, m) = offer[m]

IsOffer(offer, B) == offer \in [B -> SUBSET Idle] /\ \A m \in B : offer[m] \in CapableTeams(m, Idle)

LEMMA ServedOnce ==
    ASSUME NEW B \in SUBSET Ready, NEW offer, IsOffer(offer, B), NEW m \in B,
           NEW bids, Offered(bids, offer, B)
    PROVE  Offered(Serve(offer[m], bids, m), offer, B) /\ Serve(offer[m], bids, m) # NoBids
  <1> DEFINE T == offer[m]
             more == Serve(T, bids, m)
  <1>1. m \in Modules /\ T \in CapableTeams(m, Idle) /\ bids \in [Robots -> Modules \cup {Wait}]
    BY ReadyFacts DEF IsOffer, Offered
  <1>2. T \in SUBSET Robots /\ T # {}
    BY <1>1, CapableFacts
  <1> HIDE DEF T
  <1>3. CASE \A r \in T : bids[r] = Wait
    <2>1. more = [r \in Robots |-> IF r \in T THEN m ELSE bids[r]]
      BY <1>3 DEF Serve, BidFor
    <2> HIDE DEF more
    <2>2. more \in [Robots -> Modules \cup {Wait}] /\ more # NoBids
      BY <1>1, <1>2, <2>1, Fleet DEF NoBids
    <2>3. For(bids, m) = {} \/ For(bids, m) = T
      BY <1>1 DEF Offered, T
    <2>4. For(more, m) = T
      BY <1>2, <2>1, <2>3 DEF For
    <2>5. \A k \in Modules \ {m} : For(more, k) = For(bids, k)
      BY <1>1, <1>2, <1>3, <2>1, Fleet DEF For
    <2>6. Offered(more, offer, B)
      BY <2>2, <2>4, <2>5 DEF Offered, T
    <2> QED BY <2>2, <2>6 DEF more, T
  <1>4. CASE ~ \A r \in T : bids[r] = Wait
    <2>1. more = bids
      BY <1>4 DEF Serve
    <2>2. bids # NoBids
      BY <1>2, <1>4 DEF NoBids
    <2> QED BY <2>1, <2>2 DEF T
  <1> QED BY <1>3, <1>4

\* Served in whatever order, the offers become bids.
LEMMA OffersAreServed ==
    ASSUME NEW B \in SUBSET Ready, NEW offer, IsOffer(offer, B), NEW order \in SetToSeqs(B)
    PROVE  /\ Offered(Served(offer, order), offer, B)
           /\ B # {} => Served(offer, order) # NoBids
  <1> DEFINE D == 1..Cardinality(B)
             X == [Robots -> Modules \cup {Wait}]
             step == [i \in D |-> [b \in X |-> Serve(offer[order[i]], b, order[i])]]
             last == [s \in SUBSET D |-> Max(s)]
             OneMore(f, s) == IF s = {} THEN NoBids
                              ELSE Serve(offer[order[Max(s)]], f[s \ {Max(s)}], order[Max(s)])
             gather == CHOOSE f : f = [s \in SUBSET D |-> OneMore(f, s)]
  <1>1. IsFiniteSet(B) /\ Cardinality(B) \in Nat
    BY ReadyFacts, FS_Subset, FS_CardinalityType
  <1>2. order \in [D -> B] /\ DOMAIN order = D
    BY DEF SetToSeqs
  <1>3. Served(offer, order) = gather[D]
    BY <1>2, Zenon DEF Served, FoldLeft, MapThenFoldSet
  <1>4. IsFiniteSet(D) /\ D \in SUBSET Nat
    BY <1>1, FS_Interval
  <1>5. \A s \in SUBSET D : s # {} => last[s] \in s /\ last[s] = Max(s)
    <2> SUFFICES ASSUME NEW s \in SUBSET D, s # {} PROVE Max(s) \in s
      OBVIOUS
    <2>1. s \in SUBSET Nat /\ \A y \in s : y <= Cardinality(B)
      BY <1>1
    <2> QED BY <1>1, <2>1, GreatestIsMax
  <1>6. step \in [D -> [X -> X]] /\ NoBids \in X
    <2>1. ASSUME NEW i \in D, NEW b \in X PROVE Serve(offer[order[i]], b, order[i]) \in X
      <3>1. order[i] \in Modules
        BY <1>2, ReadyFacts
      <3> QED BY <3>1 DEF Serve, BidFor
    <2> HIDE DEF X, D
    <2>2. step \in [D -> [X -> X]]
      BY <2>1
    <2> QED BY <2>2 DEF X, NoBids
  <1> HIDE DEF D
  <1>7. PICK f : Gathers(f, D, X, NoBids, step, last)
    <2> HIDE DEF X, step, last
    <2> QED BY <1>4, <1>5, <1>6, Gathering
  <1>8. f \in [SUBSET D -> X] /\ \A s \in SUBSET D : f[s] = OneMore(f, s)
    <2>1. f \in [SUBSET D -> X] /\ f[{}] = NoBids
      BY <1>7 DEF Gathers
    <2> HIDE DEF X
    <2>2. ASSUME NEW s \in SUBSET D, s # {} PROVE f[s] = OneMore(f, s)
      <3>1. f[s] = step[last[s]][f[s \ {last[s]}]]
        BY <1>7, <2>2 DEF Gathers
      <3>2. last[s] \in D /\ last[s] = Max(s) /\ f[s \ {last[s]}] \in X
        BY <1>5, <2>1, <2>2
      <3>3. step[last[s]][f[s \ {last[s]}]] = Serve(offer[order[last[s]]], f[s \ {last[s]}], order[last[s]])
        BY <3>2
      <3> QED BY <2>2, <3>1, <3>2, <3>3
    <2> QED BY <2>1, <2>2
  <1>9. gather = [s \in SUBSET D |-> OneMore(gather, s)]
    <2>1. f = [s \in SUBSET D |-> OneMore(f, s)]
      <3> HIDE DEF OneMore, X
      <3> QED BY <1>8
    <2> HIDE DEF OneMore
    <2> QED BY <2>1
  <1>10. \A s \in SUBSET D : gather[s] = OneMore(gather, s)
    <2> HIDE DEF gather, OneMore
    <2> QED BY <1>9
  <1> HIDE DEF gather
  <1> DEFINE good == {s \in SUBSET D : Offered(gather[s], offer, B) /\ (s # {} => gather[s] # NoBids)}
  <1>11. {} \in good
    <2>1. gather[{}] = NoBids
      BY <1>10
    <2>2. \A m \in Modules : For(NoBids, m) = {}
      BY Fleet DEF For, NoBids
    <2> QED BY <1>6, <2>1, <2>2 DEF Offered
  <1>12. \A s \in SUBSET D : s # {} => last[s] \in s /\ (s \ {last[s]} \in good => s \in good)
    <2> SUFFICES ASSUME NEW s \in SUBSET D, s # {}, last[s] \in s, s \ {last[s]} \in good
                 PROVE  s \in good
      BY <1>5
    <2>1. gather[s] = Serve(offer[order[last[s]]], gather[s \ {last[s]}], order[last[s]])
      BY <1>5, <1>10
    <2>2. order[last[s]] \in B
      BY <1>2
    <2> HIDE DEF last
    <2>3. Offered(gather[s \ {last[s]}], offer, B)
      OBVIOUS
    <2> QED BY <2>1, <2>2, <2>3, ServedOnce
  <1> HIDE DEF good, last
  <1>13. D \in good
    BY <1>4, <1>11, <1>12, OneByOne
  <1>14. B # {} => D # {}
    <2> SUFFICES ASSUME B # {} PROVE 1 \in D
      OBVIOUS
    <2>1. Cardinality(B) # 0
      BY <1>1, FS_EmptySet
    <2> QED BY <1>1, <2>1 DEF D
  <1> QED BY <1>3, <1>13, <1>14 DEF good

\* What either controller bids is taken, and neither waits while a team could work.
LEMMA BothAreServed == ControllersServed
  <1> DEFINE biddable == {m \in Ready : CapableTeams(m, Idle) # {}}
             offers == {f \in [biddable -> SUBSET Idle] :
                         \A m \in biddable : f[m] \in CapableTeams(m, Idle)}
  <1>1. ASSUME NEW bids \in AuctionBids
        PROVE  Accepted(bids) /\ (biddable # {} => bids # NoBids)
    <2>1. AuctionBids = {Served(offer, order) : offer \in offers, order \in SetToSeqs(biddable)}
      BY DEF AuctionBids
    <2>2. PICK offer \in offers, order \in SetToSeqs(biddable) : bids = Served(offer, order)
      <3> HIDE DEF biddable, offers
      <3> QED BY <1>1, <2>1
    <2>3. IsOffer(offer, biddable) /\ biddable \in SUBSET Ready
      BY <2>2 DEF IsOffer
    <2> HIDE DEF biddable
    <2>4. Offered(bids, offer, biddable) /\ (biddable # {} => bids # NoBids)
      BY <2>2, <2>3, OffersAreServed
    <2>5. Teamed(bids, Ready)
      BY <2>3, <2>4 DEF Offered, Teamed, IsOffer
    <2> QED BY <2>4, <2>5, TeamedAreAccepted
  <1>2. Accepted(ScriptedBids)
    BY ScriptIsTeamed, TeamedAreAccepted
  <1>3. biddable # {} => ScriptedBids # NoBids
    <2> SUFFICES ASSUME NEW m \in Ready, CapableTeams(m, Idle) # {}, ScriptedBids = NoBids
                 PROVE  FALSE
      OBVIOUS
    <2>1. m \in Modules /\ For(NoBids, m) = {} /\ Spare(NoBids) = Idle
      BY ReadyFacts, Fleet DEF For, NoBids, Spare, Idle
    <2> QED BY <2>1, ScriptIsTeamed DEF Exhausted
  <1>4. ASSUME NEW m \in Ready, CapableTeams(m, {r \in Idle : ScriptedBids[r] = Wait}) # {}
        PROVE  \E r \in Robots : ScriptedBids[r] = m
    <2>1. For(ScriptedBids, m) # {}
      BY <1>4, ScriptIsTeamed DEF Exhausted, Spare
    <2> QED BY <2>1 DEF For
  <1> QED BY <1>1, <1>2, <1>3, <1>4 DEF ControllersServed

-----------------------------------------------------------------------------
(* The theorems.                                                            *)

\* The inductive invariant.
THEOREM EnvInvariant == Spec => []EnvInv
  <1> QED BY EnvInit, EnvStep, PTL DEF Spec

\* Robots and jobs agree after every method of a step, whatever cancels a job:
\* teams are complete, strong enough and busy with one job each, on modules whose
\* dependencies are installed; and every variable has its type, batteries included.
THEOREM CrewsAreConsistent == Spec => []CrewConsistent
  <1>1. EnvInv => CrewConsistent
    BY DEF EnvInv, CrewConsistent, Backed, JobsBacked, RobotsBacked
  <1> QED BY <1>1, EnvInvariant, PTL

\* When a decision is due, no job, failure or outage whose time has come is left
\* (_advance_to_next_event jumps to the next event and no further).
THEOREM NothingIsOverdue == Spec => []NothingOverdue
  <1>1. EnvInv => NothingOverdue
    BY DEF EnvInv, NothingOverdue, ClockInv, JobsLater, FailuresLater
  <1> QED BY <1>1, EnvInvariant, PTL

\* A robot serves during an outage or with an empty battery only if an outage that
\* struck it later is over.
THEOREM OutagesLast == Spec => []OutOfService
  <1>1. EnvInv => OutOfService
    BY DEF EnvInv, OutOfService, Excused
  <1> QED BY <1>1, EnvInvariant, PTL

\* No job has a blocked cell on an approach route of its decision, or under a robot that
\* sets out (_apply_failure looks at the routes the decision shares); payloads are
\* carried over a cell only if all that blocks it has fallen since their job started,
\* and none is put where an obstacle of an earlier episode stands.
THEOREM ObstaclesAreHeeded == Spec => []ObstaclesHeeded
  <1>1. EnvInv => ObstaclesHeeded
    BY DEF EnvInv, WaysInv
  <1> QED BY <1>1, EnvInvariant, PTL

\* When a decision is due, the environment takes every bid of the auction and of the
\* capability-aware controller as it is meant; neither waits while a team of idle
\* robots could work, and the latter leaves no team that is enough for a module.
THEOREM ControllersAreServed == Spec => []ControllersServed
  <1> QED BY BothAreServed, PTL

\* An episode is a build in the order of the plan: every step installs modules on
\* installed ones, begins another episode, or leaves the building alone.
THEOREM EpisodeIsBuild == Spec => ImplementsBuildOrder
  <1>1. Init => Order!Init
    BY DEF Init, Order!Init
  <1>2. EnvInv /\ [Next]_vars => [Order!Next]_<<Modules, Deps, completed>>
    <2> SUFFICES ASSUME EnvInv, [Next]_vars PROVE [Order!Next]_<<Modules, Deps, completed>>
      OBVIOUS
    <2>1. CASE Finish
      <3>1. Ended \in SUBSET Nat /\ Ended # {}
        BY <2>1, ActiveFacts DEF Finish, Ended, EnvInv
      <3>2. Min(Ended) \in Active
        BY <3>1, LeastIsMin DEF Ended
      <3>3. Min(Ended) \in Modules /\ Deps[Min(Ended)] \subseteq completed
        BY <3>2, ActiveFacts DEF EnvInv, Backed, JobsBacked
      <3>4. completed' = completed \/ completed' = completed \cup {Min(Ended)}
        BY <2>1 DEF Finish
      <3>5. completed \subseteq Modules
        BY DEF EnvInv, TypeOK
      <3> QED BY <3>3, <3>4, <3>5 DEF Order!Next, Order!Install
    <2>2. CASE Reset
      BY <2>2 DEF Reset, Order!Next, Order!Begin
    <2>3. CASE Bid \/ Clock \/ ApplyFailure \/ Recover \/ EndStep \/ UNCHANGED vars
      BY <2>3 DEF Bid, Clock, ApplyFailure, Recover, EndStep, vars
    <2> QED BY <2>1, <2>2, <2>3 DEF Next, Step
  <1> QED BY <1>1, <1>2, EnvInvariant, PTL DEF Spec, ImplementsBuildOrder, Order!Spec
=============================================================================
