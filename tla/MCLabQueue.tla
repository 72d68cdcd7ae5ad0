----------------------------- MODULE MCLabQueue -----------------------------
(* LabQueue for TLC: a bound on the claims of all runs together, and the    *)
(* symmetry of the services, which nothing in the queue tells apart.        *)
EXTENDS LabQueue, TLC

CONSTANT MaxClaims  \* bound: claims of all runs together

Claims[r \in 0..NumRuns] == IF r = 0 THEN 0 ELSE Claims[r - 1] + attempt[r]
FewClaims == Claims[NumRuns] <= MaxClaims

\* All of the state that a step depends on: without the history of mistakes.
Shown == <<row, tables, proc, dispatch, reap, seen, gone>>

ServiceSymmetry == Permutations(Services)
=============================================================================
