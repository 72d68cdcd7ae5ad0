------------------------ MODULE MCTrainingCheckpoint ------------------------
(***************************************************************************)
(* Instances of TrainingCheckpoint for TLC.                                *)
(***************************************************************************)
EXTENDS TrainingCheckpoint

\* Runs whose targets are all distinct and on the grid of decisions (40), off
\* it (43), so close that one decision crosses several (13), and so few that
\* fractions share a target and a target rounds to nothing (4).
SomeTotals == {4, 13, 40, 43}

\* A run with one target per fraction.
OneTotal == {40}

ProtocolPercentages == {10, 25, 50, 75, 100}

=============================================================================
