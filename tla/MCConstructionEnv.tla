-------------------------- MODULE MCConstructionEnv --------------------------
(***************************************************************************)
(* An instance of ConstructionEnv for TLC: two strong robots and a weak    *)
(* one, a foundation for two, a wall on it, a panel, and a roof on both.   *)
(***************************************************************************)
EXTENDS ConstructionEnv

Crew == 1..3
House == 1..4
HouseDeps == (1 :> {}) @@ (2 :> {1}) @@ (3 :> {}) @@ (4 :> {2, 3})
HouseTeam == <<2, 1, 1, 2>>
HouseMass == <<5, 2, 3, 4>>
CrewPayload == <<3, 2, 3>>
CrewBattery == <<2, 1, 2>>
CrewHome == <<"home", "home", "home">>
Yard == [m \in House |-> [i \in 0..2 |-> "yard"]]
Spot == <<"spot1", "spot2", "spot3", "spot4">>
Spots == [m \in House |-> [i \in 0..2 |-> Spot[m]]]

Failure(kind, at, duration, who, cell, module) ==
    [kind |-> kind, at |-> at, duration |-> duration, robot |-> who, cell |-> cell, module |-> module]
RobotOut(r, at, duration) == Failure("robot", at, duration, r, "aisle", 0)
Blocked(cell, at) == Failure("obstacle", at, 1, 1, cell, 0)
Dropped(m, at) == Failure("drop", at, 1, 1, "aisle", m)

SomeScenarios ==
    { <<RobotOut(1, 2, 3), RobotOut(1, 3, 1)>>,
      <<Blocked("aisle", 1), Dropped(1, 3)>>,
      <<Blocked("spot1", 2), RobotOut(2, 5, 2)>>,
      <<Dropped(3, 2), RobotOut(1, 4, 1)>> }
=============================================================================
