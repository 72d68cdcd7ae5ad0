----------------------------- MODULE MCBuilders -----------------------------
(***************************************************************************)
(* Small instances of the six components of Builders.                      *)
(***************************************************************************)
EXTENDS Builders, TLC

(* Two houses, and every plan of up to three modules of three kinds.       *)

Kind(team, mass, work, distance) == [team |-> team, mass |-> mass, work |-> work, distance |-> distance]

FourRobots == 1..4
TwoPayloads == <<55, 55, 38, 38>>
FourSpeeds == <<20, 21, 22, 23>>
SomeHouses == {<<1, 1, 1>>, <<2, 2, 1>>}
SomeKinds == {Kind(1, 50, 2, 21), Kind(2, 85, 1, 40), Kind(2, 120, 1, 40)}
TwoOrThree == {2, 3}
SomeDelays == {12, 14, 24}
SomeStarts == {0, 7, 8, 9, 15}

(* Three agents on a floor of three cells by two, empty or with a column.  *)

ThreeAgents == 1..3
MaybeColumn == {{}, {<<1, 1>>}}
TopRow == {<<0, 0>>, <<1, 0>>, <<2, 0>>}
SomeGoals == {<<0, 0>>, <<1, 0>>, <<2, 1>>}

(* A foundation for two, two walls on it and a roof.                       *)

FourModules == 1..4
WallsAndRoof == <<{}, {1}, {1}, {2, 3}>>
TeamSizes == <<2, 1, 1, 2>>
Masses == <<5, 2, 1, 4>>
ThreePayloads == <<3, 2, 3>>
AnyOrScripted == {"any", "scripted"}

(* The same for a drive: three modules, routes of one waypoint.            *)

ThreeModules == 1..3
OneOnAnother == <<{}, {1}, {}>>
PairAndSingles == <<2, 1, 1>>

-----------------------------------------------------------------------------
(* Small sites on four by four cells.                                      *)

Pillar(x, y) == <<<<x, y>>, <<x, y + 1>>>>
Beam(x, y) == <<<<x, y>>, <<x + 1, y>>>>

\* Two parts, the first on the second, and a column in the way.
Room == [kind |-> "blueprint", needs |-> <<{2}, {}>>, starts |-> Pillar(1, 1),
         pickup |-> <<Pillar(0, 0), Pillar(0, 2)>>, assembly |-> <<Pillar(3, 0), Pillar(3, 2)>>,
         obstacles |-> {<<2, 1>>}, fails |-> [k \in {} |-> 0], maxSteps |-> 21]

\* The second part lies just before the place of the first one.
Close == [Room EXCEPT !.needs = <<{}, {}>>, !.starts = Pillar(1, 0), !.obstacles = {},
                      !.assembly = <<Pillar(1, 2), Pillar(3, 0)>>]

Cycle   == [Room EXCEPT !.needs = <<{2}, {1}>>]
Overlap == [Room EXCEPT !.starts = Pillar(0, 1)]

\* A scenario whose manipulations fail at first, and one that is out of order.
Yard == [Room EXCEPT !.kind = "scenario", !.needs = <<{}, {}>>, !.obstacles = {<<2, 2>>},
                     !.starts = <<<<1, 2>>, <<1, 1>>>>, !.maxSteps = 26,
                     !.fails = (<<1, "grasp">> :> 1) @@ (<<2, "install">> :> 1)]
Wrong == [Yard EXCEPT !.obstacles = {<<1, 2>>}]

\* One part, carried side by side, for every sequence of joint actions.
Small == [Yard EXCEPT !.needs = <<{}>>, !.pickup = <<Beam(0, 0)>>, !.assembly = <<Beam(0, 1)>>,
                      !.starts = <<<<0, 1>>, <<1, 0>>>>, !.obstacles = {<<2, 0>>},
                      !.fails = <<1, "grasp">> :> 1, !.maxSteps = 4]

By(controllers, s) == {s @@ [controller |-> c] : c \in controllers}

SomeSites ==
    UNION {By({"scripted", "brain"}, s) : s \in {Room, Close, Yard}}
    \cup UNION {By({"scripted"}, s) : s \in {Cycle, Overlap, Wrong}}
    \cup By({"learned"}, [Yard EXCEPT !.maxSteps = 12])
    \cup By({"joint"}, Yard) \cup By({"joint", "free"}, Small)
EitherPhysics == {"local", "mujoco"}
=============================================================================
