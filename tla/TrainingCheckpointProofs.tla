---------------------- MODULE TrainingCheckpointProofs ----------------------
(***************************************************************************)
(* Proofs of the safety properties of TrainingCheckpoint for every length  *)
(* of run, set of fractions, size of rollout and number of attempts.       *)
(***************************************************************************)
EXTENDS TrainingCheckpoint, WellFoundedInduction, TLAPS

USE TrainingAssumption

\* Where the loop is between two checkpoints, and where a checkpoint is saved.
Between == {"new", "opened", "clone", "train", "final", "finish", "completed"}
Saving  == {"snapshot", "export", "exporting"}
Saved   == Saving \cup {"report"}

\* Behaviour cloning is over once transitions are trained on.
CloneFirst ==
    /\ transitions > 0 => epoch = Epochs
    /\ pc \in {"train", "final", "finish", "completed"} => epoch = Epochs
    /\ pc \in {"persist"} \cup Saved /\ after = "train" => epoch = Epochs

\* The schedule: targets passed so far are saved or due, the due ones were
\* passed by the last update, and an attempt that is done passed them all.
Schedule ==
    /\ weights = [epochs |-> epoch, transitions |-> transitions]
    /\ saved \cup due = SavedAt(transitions) /\ saved \cap due = {}
    /\ \A t \in due : transitions < t + FleetSize
    /\ transitions < total + FleetSize
    /\ pc \in Between => due = {}
    /\ pc \in {"final", "finish", "completed"} => total <= transitions

\* latest.pt holds an earlier state of the memory; while a fraction is being
\* saved it holds this one.
LatestInv ==
    /\ reported \/ pc \in Saved => latest # NoFile
    /\ pc \in Saving => due # {} /\ Fraction \in latest.lineage
    /\ pc \in Saved => latest.transitions = transitions
    /\ pc = "new" => latest = NoFile
    /\ latest # NoFile =>
         /\ latest.transitions <= transitions /\ latest.epoch <= epoch
         /\ latest.lineage \subseteq lineage
         /\ latest.transitions < transitions => \A t \in due : latest.transitions < t

\* A snapshot is what its name says, and latest.pt is past it and lists it.
SnapshotInv ==
    \A p \in Percentages : snapshot[p] # NoFile =>
      /\ latest # NoFile /\ p \in latest.lineage /\ TargetOf(p) <= latest.transitions
      /\ snapshot[p].fraction = p /\ p \in snapshot[p].lineage
      /\ TargetOf(p) <= snapshot[p].transitions
      /\ snapshot[p].transitions < TargetOf(p) + FleetSize
      /\ pc # "down" =>
           \/ TargetOf(p) \in saved
           \/ pc \in Saved \ {"snapshot"} /\ due # {} /\ TargetOf(p) = Min(due)

\* The policy file follows its snapshot.
PolicyInv ==
    /\ \A p \in Percentages : policy[p] # NoFile =>
         /\ snapshot[p] # NoFile
         /\ Complete(policy[p]) => policy[p] = snapshot[p]
         /\ pc # "down" =>
              \/ TargetOf(p) \in saved
              \/ pc \in {"exporting", "report"} /\ due # {} /\ TargetOf(p) = Min(due)
    /\ pc \in {"export", "exporting"} => snapshot[Fraction] # NoFile
    /\ pc = "exporting" => policy[Fraction] = Torn
    /\ pc = "report" /\ due # {} => Complete(policy[Fraction])

\* A fraction that counts as saved has its policy file, or lost it to a cut.
PublishInv ==
    \A p \in Published :
      /\ pc # "down" /\ TargetOf(p) \in saved => Complete(policy[p]) \/ p \in cut
      /\ pc = "down" /\ latest # NoFile /\ TargetOf(p) <= latest.transitions =>
           Complete(policy[p]) \/ p \in cut

\* The finished policy is the memory of the attempt that is done.
FinalInv == pc \in {"finish", "completed"} =>
    final = Checkpoint(0, lineage)

FileInv == ExactResume /\ SnapshotInv /\ PolicyInv /\ PublishInv /\ FinalInv

TrainInv == TypeOK /\ CloneFirst /\ Schedule /\ LatestInv /\ FileInv

-----------------------------------------------------------------------------
(* Numbers: least and greatest elements, targets, and the length of a      *)
(* rollout.                                                                *)

LEMMA NatWellFounded == IsWellFoundedOn({ss \in Nat \X Nat : ss[1] < ss[2]}, Nat)
  BY NatLessThanWellFounded DEF OpToRel

\* A set of naturals has a least element, and Min names it.
LEMMA MinFacts ==
    ASSUME NEW S \in SUBSET Nat, S # {}
    PROVE  Min(S) \in S /\ \A y \in S : Min(S) <= y
  <1> DEFINE R == {ss \in Nat \X Nat : ss[1] < ss[2]}
  <1>1. \E x \in S : \A y \in S : ~ (<<y, x>> \in R)
    <2> HIDE DEF R
    <2> IsWellFoundedOn(R, Nat)
      BY NatWellFounded DEF R
    <2> QED BY WFMin
  <1>2. \E x \in S : \A y \in S : x =< y
    <2>1. \A x, y \in Nat : ~ (<<y, x>> \in R) => x =< y
      <3> SUFFICES ASSUME NEW x \in Nat, NEW y \in Nat, y < x PROVE <<y, x>> \in R
        OBVIOUS
      <3> QED OBVIOUS
    <2> HIDE DEF R
    <2> QED BY <1>1, <2>1
  <1> QED BY <1>2 DEF Min

\* A bounded set of naturals has a greatest element, and Max names it.
LEMMA MaxFacts ==
    ASSUME NEW b \in Nat, NEW S \in SUBSET (0..b), S # {}
    PROVE  Max(S) \in S /\ \A y \in S : y <= Max(S)
  <1> DEFINE D == {b - x : x \in S}
  <1>1. D \in SUBSET Nat /\ D # {}
    <2>1. PICK x \in S : TRUE
      OBVIOUS
    <2>2. b - x \in D
      OBVIOUS
    <2>3. \A y \in S : b - y \in Nat
      OBVIOUS
    <2> QED BY <2>2, <2>3
  <1>2. Min(D) \in D /\ \A e \in D : Min(D) =< e
    BY <1>1, MinFacts
  <1>3. PICK x \in S : Min(D) = b - x
    BY <1>2
  <1>4. \A y \in S : b - x <= b - y
    BY <1>2, <1>3
  <1>5. \A y \in S : x >= y
    BY <1>4
  <1>6. \E z \in S : \A y \in S : z >= y
    BY <1>5
  <1> QED BY <1>6 DEF Max

LEMMA MaxOfTwo ==
    ASSUME NEW x \in Nat, NEW y \in Nat
    PROVE  Max({x, y}) \in {x, y} /\ x <= Max({x, y}) /\ y <= Max({x, y})
  <1>1. \E z \in {x, y} : \A w \in {x, y} : z >= w
    OBVIOUS
  <1> QED BY <1>1 DEF Max

LEMMA MinOfTwo ==
    ASSUME NEW x \in Nat, NEW y \in Nat
    PROVE  Min({x, y}) \in {x, y} /\ Min({x, y}) <= x /\ Min({x, y}) <= y
  <1>1. \E z \in {x, y} : \A w \in {x, y} : z <= w
    OBVIOUS
  <1> QED BY <1>1 DEF Min

\* A target lies between one and the end of the run.
LEMMA TargetRange ==
    ASSUME total \in Totals, NEW p \in Percentages
    PROVE  TargetOf(p) \in 1..total
  <1>1. total \in Nat /\ 1 <= total /\ p \in 1..100
    OBVIOUS
  <1> DEFINE m == total * p
  <1>2. m \in Nat /\ m <= total * 100
    BY <1>1
  <1> DEFINE q == (m + 50) \div 100
  <1>3. q \in Nat /\ q <= total
    <2> HIDE DEF m
    <2> QED BY <1>1, <1>2
  <1> HIDE DEF q
  <1>4. Max({1, q}) \in 1..total
    BY <1>1, <1>3, MaxOfTwo
  <1> QED BY <1>4 DEF TargetOf, q

\* Targets and the fractions that own them name each other.
LEMMA TargetFacts ==
    ASSUME total \in Totals
    PROVE  /\ total \in Nat /\ 1 <= total
           /\ \A p \in Percentages : TargetOf(p) \in Targets
           /\ Targets \subseteq 1..total
           /\ \A t \in Targets : FractionAt(t) \in Published /\ TargetOf(FractionAt(t)) = t
           /\ Published \subseteq Percentages
           /\ \A p \in Published : FractionAt(TargetOf(p)) = p
           /\ \A D \in SUBSET Targets : D # {} =>
                Min(D) \in D /\ \A t \in D : Min(D) <= t
  <1>1. total \in Nat /\ 1 <= total
    OBVIOUS
  <1>2. Targets \subseteq 1..total
    BY TargetRange DEF Targets
  <1>3. ASSUME NEW t \in Targets
        PROVE  FractionAt(t) \in Percentages /\ TargetOf(FractionAt(t)) = t
    <2> DEFINE S == {p \in Percentages : TargetOf(p) = t}
    <2>1. S \in SUBSET (0..100) /\ S # {}
      BY DEF Targets
    <2>2. Max(S) \in S
      BY <2>1, MaxFacts
    <2> QED BY <2>2 DEF FractionAt
  <1>4. \A p \in Percentages : TargetOf(p) \in Targets
    BY DEF Targets
  <1>5. \A D \in SUBSET Targets : D # {} => Min(D) \in D /\ \A t \in D : Min(D) <= t
    <2> SUFFICES ASSUME NEW D \in SUBSET Targets, D # {}
                 PROVE  Min(D) \in D /\ \A t \in D : Min(D) <= t
      OBVIOUS
    <2>1. D \in SUBSET Nat
      BY <1>1, <1>2
    <2> QED BY <2>1, MinFacts
  <1> QED BY <1>1, <1>2, <1>3, <1>4, <1>5 DEF Published

\* A rollout is not empty, and ends less than a decision past the next stop.
LEMMA DecisionFacts ==
    ASSUME total \in Totals, transitions \in Nat, transitions < total
    PROVE  /\ Decisions \in Nat /\ Decisions >= 1
           /\ transitions + Decisions * FleetSize < NextStop + FleetSize
           /\ NextStop <= total
           /\ \A t \in Targets : t > transitions => NextStop <= t
  <1> DEFINE S == {total} \cup {t \in Targets : t > transitions}
  <1>1. S \in SUBSET Nat /\ S # {} /\ \A t \in S : t > transitions
    BY TargetFacts
  <1>2. NextStop \in S /\ \A t \in S : NextStop <= t
    BY <1>1, MinFacts DEF NextStop
  <1> DEFINE g == NextStop - transitions
             c == (g + FleetSize - 1) \div FleetSize
  <1>3. g \in Nat /\ g >= 1
    BY <1>1, <1>2
  <1>4. c \in Nat /\ c >= 1 /\ c * FleetSize < g + FleetSize
    <2> HIDE DEF g
    <2> QED BY <1>3 DEF FleetSize
  <1>5. Max({c, 1}) = c
    <2> HIDE DEF c
    <2> QED BY <1>4, MaxOfTwo
  <1>6. Decisions = Min({Rollout, c})
    BY <1>5 DEF Decisions
  <1>7. Decisions \in Nat /\ Decisions >= 1 /\ Decisions <= c
    <2> HIDE DEF c
    <2> QED BY <1>4, <1>6, MinOfTwo
  <1>8. transitions + Decisions * FleetSize < NextStop + FleetSize
    <2>1. Decisions * FleetSize <= c * FleetSize
      <3> HIDE DEF c
      <3> QED BY <1>4, <1>7 DEF FleetSize
    <2>2. NextStop \in Nat /\ g = NextStop - transitions
      BY <1>1, <1>2
    <2> HIDE DEF c, g
    <2> QED BY <1>3, <1>4, <1>7, <2>1, <2>2 DEF FleetSize
  <1> QED BY <1>2, <1>7, <1>8

\* The length of a run does not change, and its targets with it.
LEMMA SameTargets ==
    ASSUME UNCHANGED total
    PROVE  /\ Targets' = Targets /\ Published' = Published
           /\ \A p : TargetOf(p)' = TargetOf(p)
           /\ \A t : FractionAt(t)' = FractionAt(t)
           /\ \A n : SavedAt(n)' = SavedAt(n)
  BY DEF Targets, Published, TargetOf, FractionAt, SavedAt

\* The kinds of file contents are apart.
LEMMA FileKinds ==
    /\ NoFile \notin Checkpoints /\ Torn \notin Checkpoints /\ NoFile # Torn
    /\ \A c \in Checkpoints : Complete(c)
  <1>1. NoFile \notin Checkpoints
    BY DEF NoFile, Checkpoints
  <1>2. Torn \notin Checkpoints
    BY DEF Torn, Checkpoints
  <1>3. NoFile # Torn
    BY DEF NoFile, Torn
  <1> QED BY <1>1, <1>2, <1>3 DEF Complete

\* While something is due, Fraction is the fraction of the least due target.
LEMMA FractionFacts ==
    ASSUME TypeOK, Schedule
    PROVE  /\ due \subseteq Targets /\ saved \subseteq Targets
           /\ due # {} => /\ Fraction \in Published /\ Fraction \in Percentages
                          /\ TargetOf(Fraction) = Min(due)
                          /\ Min(due) \in due /\ \A t \in due : Min(due) <= t
           /\ Fraction \in {0} \cup Percentages
  BY TargetFacts DEF TypeOK, Schedule, SavedAt, Fraction

LEMMA CheckpointType ==
    ASSUME TypeOK, Schedule, NEW f \in {0} \cup Percentages,
           NEW line \in SUBSET ({0} \cup Percentages)
    PROVE  Checkpoint(f, line) \in Checkpoints
  BY DEF TypeOK, Checkpoint, Checkpoints

-----------------------------------------------------------------------------
(* Types.                                                                   *)

LEMMA TypeInit == Init => TypeOK
  <1> SUFFICES ASSUME Init PROVE TypeOK
    OBVIOUS
  <1>1. /\ total \in Totals /\ pc \in PCs /\ after \in {"clone", "train", "down"}
        /\ attempt \in 0..MaxAttempts /\ transitions \in Nat /\ epoch \in 0..Epochs
    BY DEF Init, PCs
  <1>2. weights \in [epochs : Nat, transitions : Nat]
    BY DEF Init
  <1>3. /\ saved \subseteq 1..total /\ due \subseteq 1..total
        /\ lineage \subseteq {0} \cup Percentages /\ cut \subseteq Percentages
        /\ reported \in BOOLEAN
    BY DEF Init
  <1>4. /\ latest \in Checkpoints \cup {NoFile} /\ final \in Checkpoints \cup {NoFile, Torn}
        /\ snapshot \in [Percentages -> Checkpoints \cup {NoFile}]
        /\ policy \in [Percentages -> Checkpoints \cup {NoFile, Torn}]
    BY DEF Init
  <1> QED BY <1>1, <1>2, <1>3, <1>4 DEF TypeOK

LEMMA TypeStep == TrainInv /\ [Next]_vars => TypeOK'
  <1> SUFFICES ASSUME TrainInv, [Next]_vars PROVE TypeOK'
    OBVIOUS
  <1> USE DEF TrainInv, PCs, memory, files
  <1>1. CASE Start \/ Open \/ CancelClone \/ EndClone \/ CompleteRun
    <2>1. CASE Start
      BY <2>1 DEF Start, TypeOK
    <2>2. CASE Open
      BY <2>2 DEF Open, TypeOK
    <2>3. CASE CancelClone \/ EndClone \/ CompleteRun
      BY <2>3 DEF CancelClone, EndClone, CompleteRun, TypeOK
    <2> QED BY <1>1, <2>1, <2>2, <2>3
  <1>2. CASE Resume
    <2>1. latest \in Checkpoints
      BY <1>2 DEF Resume, LatestInv, TypeOK
    <2>2. /\ transitions' \in Nat /\ epoch' \in 0..Epochs
          /\ weights' \in [epochs : Nat, transitions : Nat]
          /\ lineage' \subseteq {0} \cup Percentages
      BY <1>2, <2>1 DEF Resume, Checkpoints
    <2>3. saved' \subseteq 1..total
      BY <1>2, TargetFacts DEF Resume, SavedAt, TypeOK
    <2> QED BY <1>2, <2>2, <2>3 DEF Resume, TypeOK
  <1>3. CASE CloneEpoch
    BY <1>3 DEF CloneEpoch, TypeOK
  <1>4. CASE Update
    <2>1. Decisions \in Nat
      BY <1>4, DecisionFacts DEF Update, TypeOK
    <2>2. /\ transitions' \in Nat /\ weights' \in [epochs : Nat, transitions : Nat]
      BY <1>4, <2>1 DEF Update, TypeOK, FleetSize
    <2>3. due' \subseteq 1..total
      BY <1>4, TargetFacts DEF Update, Crossed, TypeOK
    <2> QED BY <1>4, <2>2, <2>3 DEF Update, TypeOK
  <1>5. CASE SaveLatest
    <2>1. lineage' \subseteq {0} \cup Percentages
      BY <1>5, FractionFacts DEF SaveLatest, TypeOK
    <2>2. latest' \in Checkpoints
      BY <1>5, <2>1, FractionFacts, CheckpointType DEF SaveLatest
    <2> QED BY <1>5, <2>1, <2>2 DEF SaveLatest, TypeOK
  <1>6. CASE SaveSnapshot
    <2>1. Checkpoint(Fraction, lineage) \in Checkpoints
      BY FractionFacts, CheckpointType DEF TypeOK
    <2> QED BY <1>6, <2>1 DEF SaveSnapshot, TypeOK
  <1>7. CASE BeginExport
    BY <1>7 DEF BeginExport, TypeOK
  <1>8. CASE EndExport
    <2>1. snapshot[Fraction] \in Checkpoints \cup {NoFile}
      BY <1>8, FractionFacts DEF EndExport, LatestInv, Saving, TypeOK
    <2> QED BY <1>8, <2>1 DEF EndExport, TypeOK
  <1>9. CASE Report
    <2>1. due' \subseteq due /\ saved' \subseteq saved \cup due
      BY <1>9, FractionFacts DEF Report
    <2> QED BY <1>9, <2>1 DEF Report, TypeOK
  <1>10. CASE EndTraining
    BY <1>10 DEF EndTraining, TypeOK
  <1>11. CASE SaveFinal
    <2>1. Checkpoint(0, lineage) \in Checkpoints
      BY CheckpointType DEF TypeOK
    <2> QED BY <1>11, <2>1 DEF SaveFinal, TypeOK
  <1>12. CASE Stop
    <2>1. {FractionAt(t) : t \in due} \subseteq Percentages
      BY FractionFacts, TargetFacts DEF TypeOK
    <2> QED BY <1>12, <2>1 DEF Stop, TypeOK
  <1>13. CASE UNCHANGED vars
    BY <1>13 DEF vars, TypeOK
  <1> QED BY <1>1, <1>2, <1>3, <1>4, <1>5, <1>6, <1>7, <1>8, <1>9, <1>10, <1>11, <1>12,
             <1>13 DEF Next, Work

-----------------------------------------------------------------------------
(* The memory of the attempt.                                               *)

LEMMA CloneFirstStep == TrainInv /\ [Next]_vars => CloneFirst'
  <1> SUFFICES ASSUME TrainInv, [Next]_vars PROVE CloneFirst'
    OBVIOUS
  <1> USE DEF TrainInv, CloneFirst, Saved, Saving, memory
  <1>1. CASE Start \/ Open \/ CloneEpoch \/ CancelClone
    BY <1>1 DEF Start, Open, CloneEpoch, CancelClone, TypeOK
  <1>2. CASE EndClone
    BY <1>2 DEF EndClone, TypeOK
  <1>3. CASE Resume
    <2>1. latest # NoFile /\ latest # Torn
      BY <1>3, FileKinds DEF Resume, LatestInv, TypeOK
    <2>2. latest.transitions > 0 => latest.epoch = Epochs
      BY <2>1 DEF FileInv, ExactResume, Complete
    <2> QED BY <1>3, <2>2 DEF Resume
  <1>4. CASE Update
    BY <1>4 DEF Update
  <1>5. CASE SaveLatest \/ SaveSnapshot \/ BeginExport \/ EndExport
    BY <1>5 DEF SaveLatest, SaveSnapshot, BeginExport, EndExport
  <1>6. CASE Report
    <2>1. after \in {"clone", "train", "down"} /\ UNCHANGED <<transitions, epoch, after>>
      BY <1>6 DEF Report, TypeOK
    <2>2. pc' = "persist" \/ pc' = after
      BY <1>6 DEF Report
    <2> QED BY <1>6, <2>1, <2>2 DEF Report
  <1>7. CASE EndTraining \/ SaveFinal \/ CompleteRun \/ Stop
    BY <1>7 DEF EndTraining, SaveFinal, CompleteRun, Stop
  <1>8. CASE UNCHANGED vars
    BY <1>8 DEF vars
  <1> QED BY <1>1, <1>2, <1>3, <1>4, <1>5, <1>6, <1>7, <1>8 DEF Next, Work

LEMMA ScheduleStep == TrainInv /\ [Next]_vars => Schedule'
  <1> SUFFICES ASSUME TrainInv, [Next]_vars PROVE Schedule'
    OBVIOUS
  <1> USE DEF TrainInv, Between, memory
  <1>1. UNCHANGED total
    BY DEF Next, Work, vars, Start, Resume, Open, CloneEpoch, CancelClone, EndClone, Update,
       SaveLatest, SaveSnapshot, BeginExport, EndExport, Report, EndTraining, SaveFinal,
       CompleteRun, Stop
  <1>2. ASSUME UNCHANGED <<transitions, epoch, weights, saved, due>>,
               pc' \in Between => due = {},
               pc' \in {"final", "finish", "completed"} => total <= transitions
        PROVE  Schedule'
    BY <1>1, <1>2, SameTargets DEF Schedule
  <1>3. CASE Start \/ Open \/ CancelClone \/ EndClone \/ EndTraining \/ SaveFinal \/ CompleteRun
    BY <1>2, <1>3 DEF Start, Open, CancelClone, EndClone, EndTraining, SaveFinal, CompleteRun,
       Schedule
  <1>4. CASE SaveLatest \/ SaveSnapshot \/ BeginExport \/ EndExport \/ Stop
    BY <1>2, <1>4 DEF SaveLatest, SaveSnapshot, BeginExport, EndExport, Stop
  <1>5. CASE Resume
    <2>1. latest \in Checkpoints
      BY <1>5 DEF Resume, LatestInv, TypeOK
    <2>2. weights' = [epochs |-> epoch', transitions |-> transitions']
      BY <1>5, <2>1, FileKinds DEF Resume, FileInv, ExactResume
    <2>3. saved' = SavedAt(transitions)' /\ due' = {}
      BY <1>1, <1>5, SameTargets DEF Resume, SavedAt
    <2>4. transitions' < total + FleetSize
      BY <1>5, <2>1 DEF Resume, LatestInv, Schedule, TypeOK, Checkpoints, FleetSize
    <2> QED BY <1>1, <1>5, <2>2, <2>3, <2>4 DEF Resume, Schedule
  <1>6. CASE CloneEpoch
    <2>1. weights' = [epochs |-> epoch', transitions |-> transitions']
      BY <1>6 DEF CloneEpoch, Schedule, TypeOK
    <2> QED BY <1>1, <1>6, <2>1, SameTargets DEF CloneEpoch, Schedule
  <1>7. CASE Update
    <2>1. /\ Decisions \in Nat /\ Decisions >= 1 /\ NextStop <= total
          /\ transitions + Decisions * FleetSize < NextStop + FleetSize
          /\ \A t \in Targets : t > transitions => NextStop <= t
      BY <1>7, DecisionFacts DEF Update, TypeOK
    <2>2. transitions' = transitions + Decisions * FleetSize /\ transitions' > transitions
      BY <1>7, <2>1 DEF Update, TypeOK, FleetSize
    <2>3. weights' = [epochs |-> epoch', transitions |-> transitions']
      BY <1>7 DEF Update, Schedule
    <2>4. saved = SavedAt(transitions) /\ UNCHANGED saved
      BY <1>7 DEF Update, Schedule
    <2>5. saved' \cup due' = SavedAt(transitions)' /\ saved' \cap due' = {}
      <3>1. due' = SavedAt(transitions)' \ saved
        BY <1>1, <1>7, SameTargets DEF Update, Crossed, SavedAt
      <3>2. \A t \in SavedAt(transitions) : t \in SavedAt(transitions)'
        BY <1>1, <2>2, SameTargets, TargetFacts DEF SavedAt, TypeOK
      <3> QED BY <2>4, <3>1, <3>2
    <2>6. \A t \in due' : t \in Targets /\ t > transitions
      BY <1>7, <2>4, TargetFacts DEF Update, Crossed, SavedAt, TypeOK
    <2>7. NextStop \in Nat
      BY <2>1, <1>7, TargetFacts, MinFacts DEF NextStop, TypeOK
    <2>8. \A t \in due' : transitions' < t + FleetSize
      BY <2>1, <2>2, <2>6, <2>7, TargetFacts DEF FleetSize, TypeOK
    <2>9. transitions' < total + FleetSize
      BY <2>1, <2>2, <2>7 DEF FleetSize, TypeOK
    <2> QED BY <1>1, <1>7, <2>3, <2>5, <2>8, <2>9 DEF Update, Schedule
  <1>8. CASE Report
    <2>1. saved' \cup due' = saved \cup due /\ saved' \cap due' = {} /\ due' \subseteq due
      BY <1>8, FractionFacts DEF Report, Schedule
    <2>2. UNCHANGED <<transitions, epoch, weights>>
      BY <1>8 DEF Report
    <2>3. pc' \in Between => due' = {}
      BY <1>8 DEF Report
    <2>4. pc' \notin {"final", "finish", "completed"}
      BY <1>8 DEF Report, TypeOK
    <2> QED BY <1>1, <2>1, <2>2, <2>3, <2>4, SameTargets DEF Schedule
  <1>9. CASE UNCHANGED vars
    BY <1>2, <1>9 DEF vars, Schedule
  <1> QED BY <1>3, <1>4, <1>5, <1>6, <1>7, <1>8, <1>9 DEF Next, Work

-----------------------------------------------------------------------------
(* latest.pt.                                                               *)

LEMMA SameFraction == ASSUME UNCHANGED <<total, due>> PROVE Fraction' = Fraction
  BY SameTargets DEF Fraction

LEMMA LatestStep == TrainInv /\ [Next]_vars => LatestInv'
  <1> SUFFICES ASSUME TrainInv, [Next]_vars PROVE LatestInv'
    OBVIOUS
  <1> USE DEF TrainInv, Saved, Saving, memory
  <1>1. ASSUME UNCHANGED <<latest, reported, memory>>, pc' \notin Saved \cup {"new"}
        PROVE  LatestInv'
    BY <1>1 DEF LatestInv
  <1>2. CASE Start \/ Open \/ CancelClone \/ EndClone \/ EndTraining \/ SaveFinal
    BY <1>1, <1>2 DEF Start, Open, CancelClone, EndClone, EndTraining, SaveFinal, files
  <1>3. CASE CompleteRun \/ Stop
    BY <1>1, <1>3 DEF CompleteRun, Stop, files
  <1>4. CASE Resume
    <2>1. latest \in Checkpoints
      BY <1>4 DEF Resume, LatestInv, TypeOK
    <2> QED BY <1>4, <2>1 DEF Resume, LatestInv, Checkpoints, files
  <1>5. CASE CloneEpoch
    <2>1. latest # NoFile => latest.epoch \in Nat
      BY DEF TypeOK, Checkpoints
    <2> QED BY <1>5, <2>1 DEF CloneEpoch, LatestInv, TypeOK, files
  <1>6. CASE Update
    <2>1. Decisions \in Nat
      BY <1>6, DecisionFacts DEF Update, TypeOK
    <2>2. latest # NoFile => latest.transitions \in Nat
      BY DEF TypeOK, Checkpoints
    <2>3. \A t \in due' : t \in Nat /\ t > transitions
      BY <1>6, TargetFacts DEF Update, Crossed, Schedule, SavedAt, TypeOK, Between
    <2>4. transitions' \in Nat /\ transitions' >= transitions
      BY <1>6, <2>1 DEF Update, TypeOK, FleetSize
    <2>5. latest # NoFile =>
            latest.transitions <= transitions' /\ \A t \in due' : latest.transitions < t
      BY <2>2, <2>3, <2>4 DEF LatestInv, TypeOK
    <2> QED BY <1>6, <2>5 DEF Update, LatestInv, files
  <1>7. CASE SaveLatest
    <2>1. latest' = Checkpoint(Fraction, lineage')
      BY <1>7 DEF SaveLatest
    <2>2. lineage' \subseteq {0} \cup Percentages
      BY <1>7, FractionFacts DEF SaveLatest, TypeOK
    <2>3. latest' # NoFile
      BY <2>1, <2>2, FractionFacts, CheckpointType, FileKinds
    <2>4. /\ latest'.transitions = transitions' /\ latest'.epoch = epoch'
          /\ latest'.lineage = lineage'
      BY <1>7, <2>1 DEF SaveLatest, Checkpoint
    <2>5. due # {} => Fraction' \in lineage'
      BY <1>7, SameFraction DEF SaveLatest
    <2> QED BY <1>7, <2>3, <2>4, <2>5 DEF SaveLatest, LatestInv, TypeOK
  <1>8. CASE SaveSnapshot \/ BeginExport \/ EndExport
    <2>1. Fraction' = Fraction
      BY <1>8, SameFraction DEF SaveSnapshot, BeginExport, EndExport
    <2> QED BY <1>8, <2>1 DEF SaveSnapshot, BeginExport, EndExport, LatestInv
  <1>9. CASE Report
    <2>1. due' \subseteq due /\ pc' \notin Saved \cup {"new"}
      BY <1>9 DEF Report, TypeOK
    <2> QED BY <1>9, <2>1 DEF Report, LatestInv, files
  <1>10. CASE UNCHANGED vars
    <2>1. Fraction' = Fraction
      BY <1>10, SameFraction DEF vars
    <2> QED BY <1>10, <2>1 DEF vars, LatestInv, files
  <1> QED BY <1>2, <1>3, <1>4, <1>5, <1>6, <1>7, <1>8, <1>9, <1>10 DEF Next, Work

-----------------------------------------------------------------------------
(* The files of a fraction.                                                 *)

\* What ExactResume says of one file.
ExactFile(file) == Complete(file) =>
    /\ file.weights = [epochs |-> file.epoch, transitions |-> file.transitions]
    /\ file.transitions > 0 => file.epoch = Epochs

LEMMA ExactFiles ==
    ExactResume <=> /\ ExactFile(latest) /\ ExactFile(final)
                    /\ \A p \in Percentages : ExactFile(snapshot[p]) /\ ExactFile(policy[p])
  <1> DEFINE All == {latest, final} \cup {snapshot[p] : p \in Percentages}
                                   \cup {policy[p] : p \in Percentages}
  <1>1. ExactResume <=> \A file \in All : ExactFile(file)
    BY Zenon DEF ExactResume, ExactFile
  <1>2. (\A file \in All : ExactFile(file)) <=>
            /\ ExactFile(latest) /\ ExactFile(final)
            /\ \A p \in Percentages : ExactFile(snapshot[p]) /\ ExactFile(policy[p])
    OBVIOUS
  <1> QED BY <1>1, <1>2

LEMMA ExactCheckpoint ==
    ASSUME Schedule, CloneFirst, NEW f, NEW line
    PROVE  ExactFile(Checkpoint(f, line))
  BY DEF Schedule, CloneFirst, ExactFile, Checkpoint

LEMMA ExactResumeStep == TrainInv /\ [Next]_vars => ExactResume'
  <1> SUFFICES ASSUME TrainInv, [Next]_vars PROVE ExactResume'
    OBVIOUS
  <1> USE DEF TrainInv, FileInv
  <1>1. /\ ExactFile(latest) /\ ExactFile(final)
        /\ \A p \in Percentages : ExactFile(snapshot[p]) /\ ExactFile(policy[p])
    BY ExactFiles
  <1>2. /\ snapshot \in [Percentages -> Checkpoints \cup {NoFile}]
        /\ policy \in [Percentages -> Checkpoints \cup {NoFile, Torn}]
    BY DEF TypeOK
  <1>3. SUFFICES /\ ExactFile(latest') /\ ExactFile(final')
                 /\ \A p \in Percentages : ExactFile(snapshot'[p]) /\ ExactFile(policy'[p])
    <2> DEFINE All == {latest', final'} \cup {snapshot'[p] : p \in Percentages}
                                       \cup {policy'[p] : p \in Percentages}
    <2>1. \A file \in All : ExactFile(file)
      BY <1>3
    <2> QED BY <2>1, Zenon DEF ExactResume, ExactFile
  <1>4. CASE UNCHANGED files
    BY <1>1, <1>4 DEF files
  <1>5. CASE SaveLatest
    <2>1. ExactFile(latest')
      <3>1. PICK f, line : latest' = Checkpoint(f, line)
        BY <1>5 DEF SaveLatest
      <3> QED BY <3>1, ExactCheckpoint
    <2> QED BY <1>1, <1>5, <2>1 DEF SaveLatest
  <1>6. CASE SaveSnapshot
    <2>1. PICK f, line : f = Fraction /\ line = lineage
      OBVIOUS
    <2>2. ExactFile(Checkpoint(f, line))
      BY ExactCheckpoint
    <2>3. \A p \in Percentages : snapshot'[p] \in {snapshot[p], Checkpoint(f, line)}
      BY <1>2, <1>6, <2>1 DEF SaveSnapshot
    <2> QED BY <1>1, <1>6, <2>2, <2>3 DEF SaveSnapshot
  <1>7. CASE BeginExport
    <2>1. ExactFile(Torn)
      BY DEF ExactFile, Complete
    <2>2. \A p \in Percentages : policy'[p] \in {policy[p], Torn}
      BY <1>2, <1>7 DEF BeginExport
    <2> QED BY <1>1, <1>7, <2>1, <2>2 DEF BeginExport
  <1>8. CASE EndExport
    <2>1. Fraction \in Percentages
      BY <1>8, FractionFacts DEF EndExport, LatestInv, Saving
    <2>2. \A p \in Percentages : policy'[p] \in {policy[p], snapshot[Fraction]}
      BY <1>2, <1>8 DEF EndExport
    <2> QED BY <1>1, <1>8, <2>1, <2>2 DEF EndExport
  <1>9. CASE EndTraining
    <2>1. ExactFile(Torn)
      BY DEF ExactFile, Complete
    <2> QED BY <1>1, <1>9, <2>1 DEF EndTraining
  <1>10. CASE SaveFinal
    <2>1. ExactFile(final')
      <3>1. PICK f, line : final' = Checkpoint(f, line)
        BY <1>10 DEF SaveFinal
      <3> QED BY <3>1, ExactCheckpoint
    <2> QED BY <1>1, <1>10, <2>1 DEF SaveFinal
  <1>11. CASE Start \/ Resume \/ CancelClone \/ Stop
    BY <1>4, <1>11 DEF Start, Resume, CancelClone, Stop
  <1>12. CASE Open \/ CloneEpoch \/ EndClone \/ Update \/ Report \/ CompleteRun
    BY <1>4, <1>12 DEF Open, CloneEpoch, EndClone, Update, Report, CompleteRun
  <1> QED BY <1>4, <1>5, <1>6, <1>7, <1>8, <1>9, <1>10, <1>11, <1>12 DEF Next, Work, vars

LEMMA SnapshotStep == TrainInv /\ [Next]_vars => SnapshotInv'
  <1> SUFFICES ASSUME TrainInv, [Next]_vars, NEW p \in Percentages, snapshot'[p] # NoFile
               PROVE  /\ latest' # NoFile /\ p \in latest'.lineage
                      /\ TargetOf(p)' <= latest'.transitions
                      /\ snapshot'[p].fraction = p /\ p \in snapshot'[p].lineage
                      /\ TargetOf(p)' <= snapshot'[p].transitions
                      /\ snapshot'[p].transitions < TargetOf(p)' + FleetSize
                      /\ pc' # "down" =>
                           \/ TargetOf(p)' \in saved'
                           \/ pc' \in Saved \ {"snapshot"} /\ due' # {} /\ TargetOf(p)' = Min(due')
    BY DEF SnapshotInv
  <1> USE DEF TrainInv, FileInv, Saved, Saving, memory, files
  <1>1. UNCHANGED total
    BY DEF Next, Work, vars, Start, Resume, Open, CloneEpoch, CancelClone, EndClone, Update,
       SaveLatest, SaveSnapshot, BeginExport, EndExport, Report, EndTraining, SaveFinal,
       CompleteRun, Stop
  <1>2. TargetOf(p)' = TargetOf(p) /\ TargetOf(p) \in Nat /\ TargetOf(p) \in Targets
    BY <1>1, SameTargets, TargetFacts DEF TypeOK
  <1>3. ASSUME UNCHANGED <<latest, snapshot, saved>>, pc # "down", pc \notin Saved \ {"snapshot"}
        PROVE  /\ latest' # NoFile /\ p \in latest'.lineage
               /\ TargetOf(p)' <= latest'.transitions
               /\ snapshot'[p].fraction = p /\ p \in snapshot'[p].lineage
               /\ TargetOf(p)' <= snapshot'[p].transitions
               /\ snapshot'[p].transitions < TargetOf(p)' + FleetSize
               /\ TargetOf(p)' \in saved'
    BY <1>2, <1>3 DEF SnapshotInv
  <1>4. CASE Start \/ Open \/ CloneEpoch \/ CancelClone \/ EndClone
    BY <1>3, <1>4 DEF Start, Open, CloneEpoch, CancelClone, EndClone
  <1>5. CASE Update \/ EndTraining \/ SaveFinal \/ CompleteRun
    BY <1>3, <1>5 DEF Update, EndTraining, SaveFinal, CompleteRun
  <1>6. CASE Stop
    BY <1>2, <1>6 DEF Stop, SnapshotInv
  <1>7. CASE Resume
    BY <1>2, <1>7 DEF Resume, SnapshotInv, SavedAt
  <1>8. CASE SaveLatest
    <2>1. latest' = Checkpoint(Fraction, lineage') /\ lineage \subseteq lineage'
      BY <1>8 DEF SaveLatest
    <2>2. latest'.transitions = transitions /\ latest'.lineage = lineage'
      BY <2>1 DEF Checkpoint
    <2>3. /\ latest # NoFile /\ p \in latest.lineage /\ TargetOf(p) <= latest.transitions
          /\ TargetOf(p) \in saved
      BY <1>8 DEF SaveLatest, SnapshotInv
    <2>4. latest.transitions <= transitions /\ latest.lineage \subseteq lineage
      BY <2>3 DEF LatestInv
    <2>5. latest.transitions \in Nat /\ transitions \in Nat
      BY <2>3 DEF TypeOK, Checkpoints
    <2>6. latest' # NoFile
      <3>1. pc' \in Saved
        BY <1>8 DEF SaveLatest
      <3> QED BY <3>1, LatestStep DEF LatestInv
    <2> QED BY <1>2, <1>8, <2>1, <2>2, <2>3, <2>4, <2>5, <2>6 DEF SaveLatest, SnapshotInv
  <1>9. CASE SaveSnapshot
    <2>1. /\ due # {} /\ Fraction \in Percentages /\ TargetOf(Fraction) = Min(due)
          /\ Min(due) \in due
      BY <1>9, FractionFacts DEF SaveSnapshot, LatestInv
    <2>2. CASE p = Fraction
      <3>1. snapshot'[p] = Checkpoint(p, lineage)
        BY <1>9, <2>2 DEF SaveSnapshot, TypeOK
      <3>2. /\ snapshot'[p].fraction = p /\ snapshot'[p].lineage = lineage
            /\ snapshot'[p].transitions = transitions
        BY <3>1 DEF Checkpoint
      <3>3. /\ latest # NoFile /\ p \in latest.lineage /\ latest.lineage \subseteq lineage
            /\ latest.transitions = transitions
        BY <1>9, <2>2 DEF SaveSnapshot, LatestInv
      <3>4. TargetOf(p) <= transitions /\ transitions < TargetOf(p) + FleetSize
        <4>1. Min(due) \in SavedAt(transitions) /\ transitions < Min(due) + FleetSize
          BY <2>1 DEF Schedule
        <4> QED BY <2>1, <2>2, <4>1 DEF SavedAt
      <3> QED BY <1>2, <1>9, <2>1, <2>2, <3>2, <3>3, <3>4 DEF SaveSnapshot
    <2>3. CASE p # Fraction
      <3>1. snapshot'[p] = snapshot[p]
        BY <1>9, <2>3 DEF SaveSnapshot, TypeOK
      <3> QED BY <1>2, <1>9, <3>1 DEF SaveSnapshot, SnapshotInv
    <2> QED BY <2>2, <2>3
  <1>10. CASE BeginExport \/ EndExport
    BY <1>2, <1>10 DEF BeginExport, EndExport, SnapshotInv
  <1>11. CASE Report
    <2>1. TargetOf(p) \in saved'
      BY <1>11, <1>2 DEF Report, SnapshotInv
    <2> QED BY <1>2, <1>11, <2>1 DEF Report, SnapshotInv
  <1>12. CASE UNCHANGED vars
    BY <1>2, <1>12 DEF vars, SnapshotInv
  <1> QED BY <1>4, <1>5, <1>6, <1>7, <1>8, <1>9, <1>10, <1>11, <1>12 DEF Next, Work

\* A fraction that is being saved is not saved yet, and what is not saved has
\* no files yet: so they are written once.
LEMMA NotYetWritten ==
    ASSUME TrainInv, pc \in Saving
    PROVE  /\ due # {} /\ Fraction \in Percentages /\ Fraction \in Published
           /\ TargetOf(Fraction) = Min(due) /\ TargetOf(Fraction) \notin saved
           /\ pc = "snapshot" => snapshot[Fraction] = NoFile
           /\ pc # "exporting" => policy[Fraction] = NoFile
  <1> USE DEF TrainInv, FileInv, Saved, Saving
  <1>1. /\ due # {} /\ Fraction \in Percentages /\ Fraction \in Published
        /\ TargetOf(Fraction) = Min(due) /\ Min(due) \in due
    BY FractionFacts DEF LatestInv
  <1>2. TargetOf(Fraction) \notin saved
    BY <1>1 DEF Schedule
  <1>3. pc = "snapshot" => snapshot[Fraction] = NoFile
    BY <1>1, <1>2 DEF SnapshotInv
  <1>4. pc # "exporting" => policy[Fraction] = NoFile
    BY <1>1, <1>2 DEF PolicyInv
  <1> QED BY <1>1, <1>2, <1>3, <1>4

LEMMA PolicyStep == TrainInv /\ [Next]_vars => PolicyInv'
  <1> SUFFICES ASSUME TrainInv, [Next]_vars PROVE PolicyInv'
    OBVIOUS
  <1> USE DEF TrainInv, FileInv, Saved, Saving, memory, files
  <1>1. UNCHANGED total
    BY DEF Next, Work, vars, Start, Resume, Open, CloneEpoch, CancelClone, EndClone, Update,
       SaveLatest, SaveSnapshot, BeginExport, EndExport, Report, EndTraining, SaveFinal,
       CompleteRun, Stop
  <1>2. \A p \in Percentages : TargetOf(p)' = TargetOf(p) /\ TargetOf(p) \in Targets
    BY <1>1, SameTargets, TargetFacts DEF TypeOK
  <1>3. /\ snapshot \in [Percentages -> Checkpoints \cup {NoFile}]
        /\ policy \in [Percentages -> Checkpoints \cup {NoFile, Torn}]
    BY DEF TypeOK
  <1>4. ASSUME UNCHANGED <<snapshot, policy>>, saved \subseteq saved', pc # "down",
               pc \notin {"exporting", "report"},
               pc' \in {"export", "exporting", "report"} => pc' = "report" /\ due' = {}
        PROVE  PolicyInv'
    <2>1. \A p \in Percentages : policy'[p] # NoFile =>
            /\ snapshot'[p] # NoFile
            /\ Complete(policy'[p]) => policy'[p] = snapshot'[p]
            /\ TargetOf(p)' \in saved'
      BY <1>2, <1>4 DEF PolicyInv
    <2> QED BY <1>4, <2>1 DEF PolicyInv
  <1>5. CASE Start \/ Open \/ CloneEpoch \/ CancelClone \/ EndClone
    BY <1>4, <1>5 DEF Start, Open, CloneEpoch, CancelClone, EndClone
  <1>6. CASE Update \/ SaveLatest \/ EndTraining \/ SaveFinal \/ CompleteRun
    BY <1>4, <1>6 DEF Update, SaveLatest, EndTraining, SaveFinal, CompleteRun
  <1>7. CASE Stop
    BY <1>7 DEF Stop, PolicyInv
  <1>8. CASE Resume
    <2>1. \A p \in Percentages : policy[p] # NoFile => TargetOf(p) \in SavedAt(latest.transitions)
      BY <1>2 DEF PolicyInv, SnapshotInv, SavedAt
    <2> QED BY <1>2, <1>8, <2>1 DEF Resume, PolicyInv
  <1>9. CASE SaveSnapshot
    <2>1. /\ due # {} /\ Fraction \in Percentages /\ policy[Fraction] = NoFile
      BY <1>9, NotYetWritten DEF SaveSnapshot
    <2>2. Fraction' = Fraction
      BY <1>9, SameFraction DEF SaveSnapshot
    <2>3. /\ snapshot'[Fraction] # NoFile
          /\ \A p \in Percentages : p # Fraction => snapshot'[p] = snapshot[p]
      <3>1. Checkpoint(Fraction, lineage) \in Checkpoints
        BY FractionFacts, CheckpointType DEF TypeOK
      <3> QED BY <1>3, <1>9, <2>1, <3>1, FileKinds DEF SaveSnapshot
    <2> QED BY <1>2, <1>9, <2>1, <2>2, <2>3 DEF SaveSnapshot, PolicyInv
  <1>10. CASE BeginExport
    <2>1. /\ due # {} /\ Fraction \in Percentages /\ TargetOf(Fraction) = Min(due)
      BY <1>10, NotYetWritten DEF BeginExport
    <2>2. Fraction' = Fraction
      BY <1>10, SameFraction DEF BeginExport
    <2>3. /\ policy'[Fraction] = Torn /\ ~ Complete(Torn) /\ snapshot[Fraction] # NoFile
          /\ \A p \in Percentages : p # Fraction => policy'[p] = policy[p]
      BY <1>3, <1>10, <2>1 DEF BeginExport, Complete, PolicyInv
    <2> QED BY <1>2, <1>10, <2>1, <2>2, <2>3 DEF BeginExport, PolicyInv
  <1>11. CASE EndExport
    <2>1. /\ due # {} /\ Fraction \in Percentages /\ TargetOf(Fraction) = Min(due)
      BY <1>11, NotYetWritten DEF EndExport
    <2>2. Fraction' = Fraction
      BY <1>11, SameFraction DEF EndExport
    <2>3. /\ policy'[Fraction] = snapshot[Fraction] /\ snapshot[Fraction] # NoFile
          /\ \A p \in Percentages : p # Fraction => policy'[p] = policy[p]
      BY <1>3, <1>11, <2>1 DEF EndExport, PolicyInv
    <2>4. Complete(policy'[Fraction])
      BY <1>3, <2>1, <2>3, FileKinds
    <2> QED BY <1>2, <1>11, <2>1, <2>2, <2>3, <2>4 DEF EndExport, PolicyInv
  <1>12. CASE Report
    <2>1. \A p \in Percentages : policy[p] # NoFile => TargetOf(p) \in saved'
      BY <1>12 DEF Report, PolicyInv
    <2>2. pc' \notin {"export", "exporting", "report"}
      BY <1>12 DEF Report, TypeOK
    <2> QED BY <1>2, <1>12, <2>1, <2>2 DEF Report, PolicyInv
  <1>13. CASE UNCHANGED vars
    <2>1. Fraction' = Fraction
      BY <1>13, SameFraction DEF vars
    <2> QED BY <1>2, <1>13, <2>1 DEF vars, PolicyInv
  <1> QED BY <1>5, <1>6, <1>7, <1>8, <1>9, <1>10, <1>11, <1>12, <1>13 DEF Next, Work

LEMMA PublishStep == TrainInv /\ [Next]_vars => PublishInv'
  <1> SUFFICES ASSUME TrainInv, [Next]_vars PROVE PublishInv'
    OBVIOUS
  <1> USE DEF TrainInv, FileInv, Saved, Saving, memory, files
  <1>1. UNCHANGED total
    BY DEF Next, Work, vars, Start, Resume, Open, CloneEpoch, CancelClone, EndClone, Update,
       SaveLatest, SaveSnapshot, BeginExport, EndExport, Report, EndTraining, SaveFinal,
       CompleteRun, Stop
  <1>2. /\ Published' = Published /\ Published \subseteq Percentages
        /\ \A p \in Published : /\ TargetOf(p)' = TargetOf(p) /\ TargetOf(p) \in Targets
                                /\ TargetOf(p) \in Nat /\ FractionAt(TargetOf(p)) = p
    <2>1. Published' = Published /\ \A p : TargetOf(p)' = TargetOf(p)
      BY <1>1, SameTargets
    <2>2. total \in Totals
      BY DEF TypeOK
    <2>3. /\ Published \subseteq Percentages /\ Targets \subseteq Nat
          /\ \A p \in Published : FractionAt(TargetOf(p)) = p
      BY <2>2, TargetFacts
    <2>4. \A p \in Percentages : TargetOf(p) \in Targets
      BY <2>2, TargetFacts
    <2> QED BY <2>1, <2>3, <2>4
  <1>3. /\ snapshot \in [Percentages -> Checkpoints \cup {NoFile}]
        /\ policy \in [Percentages -> Checkpoints \cup {NoFile, Torn}]
    BY DEF TypeOK
  <1>4. ASSUME UNCHANGED <<saved, policy, cut>>, pc # "down", pc' # "down" PROVE PublishInv'
    BY <1>2, <1>4 DEF PublishInv
  <1>5. CASE Start \/ Open \/ CloneEpoch \/ CancelClone \/ EndClone
    BY <1>4, <1>5 DEF Start, Open, CloneEpoch, CancelClone, EndClone
  <1>6. CASE Update \/ SaveLatest \/ SaveSnapshot \/ EndTraining \/ SaveFinal \/ CompleteRun
    BY <1>4, <1>6 DEF Update, SaveLatest, SaveSnapshot, EndTraining, SaveFinal, CompleteRun
  <1>7. CASE Resume
    <2>1. \A p \in Published : TargetOf(p) \in SavedAt(latest.transitions) =>
            Complete(policy[p]) \/ p \in cut
      BY <1>7 DEF Resume, PublishInv, SavedAt, LatestInv
    <2> QED BY <1>2, <1>7, <2>1 DEF Resume, PublishInv
  <1>8. CASE BeginExport \/ EndExport
    <2>1. /\ Fraction \in Percentages /\ TargetOf(Fraction) \notin saved
      BY <1>8, NotYetWritten DEF BeginExport, EndExport
    <2>2. \A p \in Percentages : p # Fraction => policy'[p] = policy[p]
      BY <1>3, <1>8, <2>1 DEF BeginExport, EndExport
    <2> QED BY <1>2, <1>8, <2>1, <2>2 DEF BeginExport, EndExport, PublishInv
  <1>9. CASE Report
    <2>1. SUFFICES ASSUME NEW p \in Published, TargetOf(p) \in saved'
                   PROVE  Complete(policy[p]) \/ p \in cut
      <3>1. /\ UNCHANGED <<latest, policy, cut>> /\ latest.transitions = transitions
            /\ due' = {} => saved' = saved \cup due
        BY <1>9, FractionFacts DEF Report, LatestInv
      <3>2. pc' = "down" => due' = {}
        BY <1>9 DEF Report
      <3>3. ASSUME pc' = "down", NEW p \in Published, TargetOf(p) <= latest.transitions
            PROVE  TargetOf(p) \in saved'
        BY <1>2, <3>1, <3>2, <3>3 DEF Schedule, SavedAt
      <3> QED BY <1>2, <2>1, <3>1, <3>3 DEF PublishInv
    <2>2. CASE TargetOf(p) \in saved
      BY <1>9, <2>2 DEF Report, PublishInv
    <2>3. CASE TargetOf(p) \notin saved
      <3>1. due # {} /\ TargetOf(p) = Min(due)
        BY <1>9, <2>1, <2>3 DEF Report
      <3>2. p = Fraction
        BY <1>2, <3>1 DEF Fraction
      <3> QED BY <1>9, <3>1, <3>2 DEF Report, PolicyInv
    <2> QED BY <2>2, <2>3
  <1>10. CASE Stop
    <2>1. SUFFICES ASSUME NEW p \in Published, latest # NoFile, TargetOf(p) <= latest.transitions
                   PROVE  Complete(policy[p]) \/ p \in cut'
      BY <1>2, <1>10 DEF Stop, PublishInv
    <2>2. /\ latest.transitions \in Nat /\ transitions \in Nat
          /\ latest.transitions <= transitions
      BY <2>1 DEF TypeOK, Checkpoints, LatestInv
    <2>3. TargetOf(p) \in saved \cup due
      BY <1>2, <2>1, <2>2 DEF Schedule, SavedAt
    <2>4. TargetOf(p) \in due => latest.transitions = transitions
      BY <1>2, <2>1, <2>2 DEF LatestInv
    <2>5. TargetOf(p) \in due => p \in cut'
      BY <1>2, <1>10, <2>1, <2>4 DEF Stop
    <2>6. TargetOf(p) \in saved => Complete(policy[p]) \/ p \in cut'
      BY <1>10 DEF Stop, PublishInv
    <2> QED BY <2>3, <2>5, <2>6
  <1>11. CASE UNCHANGED vars
    BY <1>2, <1>11 DEF vars, PublishInv
  <1> QED BY <1>5, <1>6, <1>7, <1>8, <1>9, <1>10, <1>11 DEF Next, Work

LEMMA FinalStep == TrainInv /\ [Next]_vars => FinalInv'
  <1> SUFFICES ASSUME TrainInv, [Next]_vars PROVE FinalInv'
    OBVIOUS
  <1> USE DEF TrainInv, FileInv, FinalInv, Checkpoint, memory, files
  <1>1. CASE Start \/ Resume \/ Open \/ CloneEpoch \/ CancelClone \/ EndClone
    BY <1>1 DEF Start, Resume, Open, CloneEpoch, CancelClone, EndClone
  <1>2. CASE Update \/ SaveLatest \/ SaveSnapshot \/ BeginExport \/ EndExport \/ Stop
    BY <1>2 DEF Update, SaveLatest, SaveSnapshot, BeginExport, EndExport, Stop
  <1>3. CASE Report
    BY <1>3 DEF Report, TypeOK
  <1>4. CASE EndTraining \/ SaveFinal \/ CompleteRun
    BY <1>4 DEF EndTraining, SaveFinal, CompleteRun
  <1>5. CASE UNCHANGED vars
    BY <1>5 DEF vars
  <1> QED BY <1>1, <1>2, <1>3, <1>4, <1>5 DEF Next, Work

LEMMA TrainInit == Init => TrainInv
  <1> SUFFICES ASSUME Init PROVE TrainInv
    OBVIOUS
  <1>1. TypeOK
    BY TypeInit
  <1>2. CloneFirst
    BY DEF Init, CloneFirst, Saved, Saving
  <1>3. Schedule
    <2>1. SavedAt(0) = {}
      BY <1>1, TargetFacts DEF TypeOK, SavedAt
    <2> QED BY <1>1, <2>1 DEF Init, TypeOK, Schedule, FleetSize
  <1>4. LatestInv
    BY DEF Init, LatestInv, Saved, Saving
  <1>5. ExactResume
    BY ExactFiles DEF Init, ExactFile, Complete
  <1>6. SnapshotInv /\ PolicyInv /\ FinalInv
    BY DEF Init, SnapshotInv, PolicyInv, FinalInv
  <1>7. PublishInv
    BY DEF Init, PublishInv
  <1> QED BY <1>1, <1>2, <1>3, <1>4, <1>5, <1>6, <1>7 DEF TrainInv, FileInv

LEMMA TrainStep == TrainInv /\ [Next]_vars => TrainInv'
  BY TypeStep, CloneFirstStep, ScheduleStep, LatestStep, ExactResumeStep, SnapshotStep,
     PolicyStep, PublishStep, FinalStep DEF TrainInv, FileInv

LEMMA TrainInvariant == Spec => []TrainInv
  BY TrainInit, TrainStep, PTL DEF Spec

-----------------------------------------------------------------------------
(* The theorems.                                                            *)

\* TypeOK: every variable keeps to its type, through any number of attempts.
THEOREM TypeCorrect == Spec => []TypeOK
  <1>1. TrainInv => TypeOK
    BY DEF TrainInv
  <1> QED BY <1>1, TrainInvariant, PTL

\* ExactResume: the counters of every file are what its weights absorbed.
THEOREM ResumesExactly == Spec => []ExactResume
  <1>1. TrainInv => ExactResume
    BY DEF TrainInv, FileInv
  <1> QED BY <1>1, TrainInvariant, PTL

\* CandidateUsable: a policy file that can be loaded is what its name says.
THEOREM CandidatesUsable == Spec => []CandidateUsable
  <1>1. TrainInv => CandidateUsable
    <2> SUFFICES ASSUME TrainInv, NEW p \in Percentages, Complete(policy[p])
                 PROVE  /\ policy[p] = snapshot[p]
                        /\ policy[p].fraction = p /\ p \in policy[p].lineage
                        /\ TargetOf(p) <= policy[p].transitions
                        /\ policy[p].transitions < TargetOf(p) + FleetSize
      BY DEF CandidateUsable
    <2>1. policy[p] # NoFile
      BY DEF Complete
    <2>2. policy[p] = snapshot[p] /\ snapshot[p] # NoFile
      BY <2>1 DEF TrainInv, FileInv, PolicyInv
    <2> QED BY <2>2 DEF TrainInv, FileInv, SnapshotInv
  <1> QED BY <1>1, TrainInvariant, PTL

\* LineageComplete: latest.pt lists every snapshot that exists.
THEOREM LineageKept == Spec => []LineageComplete
  <1>1. TrainInv => LineageComplete
    BY DEF TrainInv, FileInv, SnapshotInv, LineageComplete
  <1> QED BY <1>1, TrainInvariant, PTL

\* MissingOnlyIfCut: a completed run is trained to its end, and misses the
\* policy file of a fraction only if an attempt was cut short while saving it.
THEOREM CompletedRunPublishes == Spec => []MissingOnlyIfCut
  <1>1. TrainInv => MissingOnlyIfCut
    <2> SUFFICES ASSUME TrainInv, pc = "completed"
                 PROVE  /\ total <= final.transitions /\ final.transitions < total + FleetSize
                        /\ final.epoch = Epochs
                        /\ \A p \in Published \ cut : Complete(policy[p])
      BY DEF MissingOnlyIfCut
    <2> USE DEF TrainInv, FileInv
    <2>1. final.transitions = transitions /\ final.epoch = epoch
      BY DEF FinalInv, Checkpoint
    <2>2. total <= transitions /\ transitions < total + FleetSize /\ epoch = Epochs
      BY DEF Schedule, CloneFirst
    <2>3. saved = SavedAt(transitions)
      BY DEF Schedule, Between
    <2>4. \A p \in Published : TargetOf(p) \in saved
      <3> SUFFICES ASSUME NEW p \in Published PROVE TargetOf(p) \in saved
        OBVIOUS
      <3>1. TargetOf(p) \in Targets /\ TargetOf(p) \in 1..total
        BY TargetFacts DEF TypeOK
      <3> QED BY <2>2, <2>3, <3>1, TargetFacts DEF SavedAt, TypeOK
    <2> QED BY <2>1, <2>2, <2>4 DEF PublishInv
  <1> QED BY <1>1, TrainInvariant, PTL

\* LatestForward: latest.pt is never replaced by an older state.
THEOREM LatestNeverBack == Spec => LatestForward
  <1> DEFINE Forward == latest # NoFile =>
                          /\ latest'.transitions >= latest.transitions
                          /\ latest'.epoch >= latest.epoch
  <1>1. TrainInv /\ [Next]_vars => [Forward]_vars
    <2> SUFFICES ASSUME TrainInv, Next, latest # NoFile
                 PROVE  /\ latest'.transitions >= latest.transitions
                        /\ latest'.epoch >= latest.epoch
      OBVIOUS
    <2>1. latest.transitions \in Nat /\ latest.epoch \in Nat
      BY DEF TrainInv, TypeOK, Checkpoints
    <2>2. CASE SaveLatest
      BY <2>1, <2>2 DEF SaveLatest, Checkpoint, TrainInv, LatestInv, TypeOK
    <2>3. CASE UNCHANGED latest
      BY <2>1, <2>3
    <2> QED BY <2>2, <2>3 DEF Next, Work, Start, Resume, Open, CloneEpoch, CancelClone,
          EndClone, Update, SaveSnapshot, BeginExport, EndExport, Report, EndTraining,
          SaveFinal, CompleteRun, Stop, files
  <1> QED BY <1>1, TrainInvariant, PTL DEF Spec, LatestForward

\* SnapshotImmutable: snapshots and loadable policy files are written once.
THEOREM FractionsWrittenOnce == Spec => SnapshotImmutable
  <1> DEFINE Once == \A p \in Percentages :
                       /\ snapshot[p] # NoFile => snapshot'[p] = snapshot[p]
                       /\ Complete(policy[p]) => policy'[p] = policy[p]
  <1>1. TrainInv /\ [Next]_vars => [Once]_vars
    <2> SUFFICES ASSUME TrainInv, Next PROVE Once
      OBVIOUS
    <2>1. /\ snapshot \in [Percentages -> Checkpoints \cup {NoFile}]
          /\ policy \in [Percentages -> Checkpoints \cup {NoFile, Torn}]
      BY DEF TrainInv, TypeOK
    <2>2. CASE SaveSnapshot
      <3>1. snapshot[Fraction] = NoFile
        BY <2>2, NotYetWritten DEF SaveSnapshot, Saving
      <3> QED BY <2>1, <2>2, <3>1 DEF SaveSnapshot
    <2>3. CASE BeginExport
      <3>1. policy[Fraction] = NoFile
        BY <2>3, NotYetWritten DEF BeginExport, Saving
      <3> QED BY <2>1, <2>3, <3>1 DEF BeginExport, Complete
    <2>4. CASE EndExport
      <3>1. policy[Fraction] = Torn
        BY <2>4 DEF EndExport, TrainInv, FileInv, PolicyInv
      <3> QED BY <2>1, <2>4, <3>1 DEF EndExport, Complete
    <2>5. CASE UNCHANGED <<snapshot, policy>>
      BY <2>5
    <2> QED BY <2>2, <2>3, <2>4, <2>5 DEF Next, Work, Start, Resume, Open, CloneEpoch,
          CancelClone, EndClone, Update, SaveLatest, Report, EndTraining, SaveFinal,
          CompleteRun, Stop, files
  <1> QED BY <1>1, TrainInvariant, PTL DEF Spec, SnapshotImmutable

=============================================================================
