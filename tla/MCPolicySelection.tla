-------------------------- MODULE MCPolicySelection --------------------------
(* Values for TLC: two API threads and one held-out job, or one API thread   *)
(* next to the script; three checkpoints, four rates and three makespans.    *)
EXTENDS Studies, TLC

CONSTANTS h1, h2, p1, p2

TwoRuns == 1..2
TwoThreads == (h1 :> "api") @@ (h2 :> "api")
ThreadAndScript == (h1 :> "api") @@ (h2 :> "script")
Alike == Permutations({p1, p2})

ThreeCheckpoints == 1..3
SomeTransitions == <<15, 30, 60>>
SomeRates == {84, 94, 95, 100}
SomeSpans == {100, 115, 116}
MinusTwo == -2
=============================================================================
