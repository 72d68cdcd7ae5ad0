----------------------------- MODULE MCServices -----------------------------
(***************************************************************************)
(* Small instances of the seven processes of Services.                     *)
(***************************************************************************)
EXTENDS Services

AllPlatforms == {"pidfd", "plain", "windows"}

TwoUsers == {"u1", "u2"}

(* The first run has two checkpoints to write, the second one. *)

TwoThenOne == <<2, 1>>

(* Two red objects and a blue one at two stations, and one that is missing. *)

ThreeObjects == 1..3
RedRedBlue == <<1, 1, 2>>
TwoStations == 1..2
SomeTargets == {{1, 2}, {1, 2, 3}, {3, 4}}
SomeTasks ==
    [kind : {"collection"}, targets : SomeTargets, drop : {0, 1, -1}, sight : {"oracle", "camera"}]
    \cup [kind : {"tabletop"}, targets : {{1}}, drop : {-1}, sight : {"oracle"}]

AllKinds == {"benchmark", "eval", "training", "sweep"}

(* A baseline, and two policies that differ in their training seed; the third seed *)
(* belongs to another split.                                                       *)

ThreeSeeds == 1..3
TwoSeeds == 1..2
ABaseline == <<[controller |-> "greedy", variant |-> "none", training |-> 0]>>
TwoPolicies ==
    [s \in 1..2 |-> [controller |-> "mappo", variant |-> "mappo_full", training |-> 6 + s]]
=============================================================================
