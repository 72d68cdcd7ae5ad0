------------------------- MODULE TrainingCheckpoint -------------------------
(***************************************************************************)
(* The training loop of one durable run and the checkpoint files it leaves *)
(* behind (training.py), over the attempts that the queue gives the run.   *)
(* latest.pt is what the next attempt resumes from; the snapshot and the   *)
(* policy file of a fraction are what the policy selection evaluates.      *)
(* The files are written one after the other, and the attempt may end      *)
(* between any two steps: a crash, an exception out of torch, the disk or  *)
(* the progress callback, or a cancellation.  At most one attempt runs at  *)
(* a time, which LabQueue!OneExecutor promises.                            *)
(*                                                                         *)
(* The weights of the policy are the training they have absorbed: a number *)
(* of behaviour-cloning epochs and a number of transitions.  A fraction is *)
(* named by its percentage, as its files are.                              *)
(***************************************************************************)
EXTENDS Naturals, FiniteSetsExt

CONSTANTS
    Totals,       \* values config.transitions may have
    Percentages,  \* config.checkpoint_fractions, distinct, with 1.0
    Rollout,      \* config.rollout_decisions
    Epochs,       \* config.behavior_clone_epochs, or 0 without expert episodes
    MaxAttempts   \* bound: the run is not resumed after this many attempts

ASSUME TrainingAssumption ==
    /\ Totals \subseteq Nat \ {0}
    /\ Percentages \subseteq 1..100 /\ 100 \in Percentages
    /\ Rollout \in Nat \ {0}
    /\ Epochs \in Nat
    /\ MaxAttempts \in Nat \ {0}

FleetSize == 4   \* every decision is a transition of each robot

VARIABLES
    total,     \* config.transitions of the run
    pc,        \* where the attempt is; "down" between two attempts
    after,     \* where it goes on when the checkpoint at hand is saved
    attempt,
    \* the memory of the attempt
    transitions, epoch, weights, saved, lineage,
    due,       \* targets crossed by the last update and not yet reported
    \* the files of the run directory
    latest, snapshot, policy, final,
    reported,  \* whether the registry knows the path of latest.pt
    \* history: fractions whose files an attempt left unwritten when it ended
    \* after latest.pt had already moved past them
    cut

memory == <<transitions, epoch, weights, saved, lineage, due>>
files  == <<latest, snapshot, policy, final>>
vars   == <<total, pc, after, attempt, memory, files, reported, cut>>

\* Contents of a missing file, and of one whose writing has begun: torch.save
\* truncates a policy file and writes it in place, while latest.pt and the
\* snapshots are replaced atomically.
NoFile == [kind |-> "missing"]
Torn   == [kind |-> "torn"]
Complete(file) == file \notin {NoFile, Torn}

-----------------------------------------------------------------------------
(* checkpoint_transition_targets: rounded half up, at least one, and a     *)
(* target shared by several fractions belongs to the largest of them.      *)

\* A definition marked "Seeded fault" is not part of the specification; see
\* README, "Seeded faults".
\* Seeded fault: a small fraction is rounded to a target of no transitions.
TargetUnclamped(p) == (total * p + 50) \div 100

TargetOf(p)   == Max({1, (total * p + 50) \div 100})
Targets       == {TargetOf(p) : p \in Percentages}
FractionAt(t) == Max({p \in Percentages : TargetOf(p) = t})
Published     == {FractionAt(t) : t \in Targets}

\* Seeded fault: a resumed attempt has saved nothing yet.
NothingSaved(n) == {}

\* A fraction counts as saved when a resumed attempt starts at or past it.
SavedAt(n) == {t \in Targets : t <= n}

\* The fraction whose files are being saved; 0 for a plain checkpoint.
Fraction == IF due = {} THEN 0 ELSE FractionAt(Min(due))

\* What save_training_checkpoint stores.
Checkpoint(fraction, line) ==
    [transitions |-> transitions, epoch |-> epoch, weights |-> weights,
     fraction |-> fraction, lineage |-> line]

-----------------------------------------------------------------------------
Init ==
    /\ total \in Totals
    /\ pc = "new" /\ after = "clone" /\ attempt = 0
    /\ transitions = 0 /\ epoch = 0 /\ saved = {} /\ lineage = {} /\ due = {}
    /\ weights = [epochs |-> 0, transitions |-> 0]
    /\ latest = NoFile /\ final = NoFile
    /\ snapshot = [p \in Percentages |-> NoFile]
    /\ policy = [p \in Percentages |-> NoFile]
    /\ reported = FALSE /\ cut = {}

\* The first attempt, in a run directory of its own.
Start ==
    /\ pc = "new"
    /\ pc' = "opened" /\ attempt' = 1
    /\ UNCHANGED <<total, after, memory, files, reported, cut>>

\* Seeded fault: the epoch counter is not restored.
ResumeWithoutEpoch ==
    /\ pc = "down" /\ reported /\ attempt < MaxAttempts
    /\ pc' = "opened" /\ attempt' = attempt + 1
    /\ transitions' = latest.transitions /\ epoch' = 0
    /\ weights' = latest.weights
    /\ lineage' = latest.lineage \cup {0}
    /\ saved' = SavedAt(latest.transitions) /\ due' = {}
    /\ UNCHANGED <<total, after, files, reported, cut>>

\* Seeded fault: the retried job starts from scratch in the same directory.
Restart ==
    /\ pc = "down" /\ reported /\ attempt < MaxAttempts
    /\ pc' = "opened" /\ attempt' = attempt + 1
    /\ transitions' = 0 /\ epoch' = 0 /\ saved' = {} /\ lineage' = {} /\ due' = {}
    /\ weights' = [epochs |-> 0, transitions |-> 0]
    /\ UNCHANGED <<total, after, files, reported, cut>>

\* A later attempt, possible once the registry knows a checkpoint.
Resume ==
    /\ pc = "down" /\ reported /\ attempt < MaxAttempts
    /\ pc' = "opened" /\ attempt' = attempt + 1
    /\ transitions' = latest.transitions /\ epoch' = latest.epoch
    /\ weights' = latest.weights
    /\ lineage' = latest.lineage \cup {0}
    /\ saved' = SavedAt(latest.transitions) /\ due' = {}
    /\ UNCHANGED <<total, after, files, reported, cut>>

\* A run directory without latest.pt gets one before anything is trained.
Open ==
    /\ pc = "opened"
    /\ pc' = IF latest = NoFile THEN "persist" ELSE "clone"
    /\ after' = "clone"
    /\ UNCHANGED <<total, attempt, memory, files, reported, cut>>

-----------------------------------------------------------------------------
(* Behaviour cloning.                                                      *)

CloneEpoch ==
    /\ pc = "clone" /\ epoch < Epochs
    /\ weights' = [weights EXCEPT !.epochs = @ + 1]
    /\ epoch' = epoch + 1
    /\ pc' = "persist" /\ after' = "clone"
    /\ UNCHANGED <<total, attempt, transitions, saved, lineage, due, files, reported, cut>>

\* A cancellation seen between two epochs is raised after a checkpoint.
CancelClone ==
    /\ pc = "clone" /\ epoch < Epochs
    /\ pc' = "persist" /\ after' = "down"
    /\ UNCHANGED <<total, attempt, memory, files, reported, cut>>

EndClone ==
    /\ pc = "clone" /\ epoch >= Epochs
    /\ pc' = "train"
    /\ UNCHANGED <<total, after, attempt, memory, files, reported, cut>>

-----------------------------------------------------------------------------
(* Reinforcement learning: an update trains on a rollout that stops at the *)
(* next target, up to the transitions of one decision.                     *)

\* Seeded fault: the rollout stops at the end of the run only.
NextStopAtEnd == total

NextStop == Min({total} \cup {t \in Targets : t > transitions})

\* Seeded fault: the last, incomplete decision is rounded away.
DecisionsRoundedDown == Min({Rollout, (NextStop - transitions) \div FleetSize})

Decisions ==
    Min({Rollout, Max({(NextStop - transitions + FleetSize - 1) \div FleetSize, 1})})

\* Seeded fault: a target that is hit exactly is not crossed.
CrossedPast(now) == {t \in Targets : t < now} \ saved

Crossed(now) == {t \in Targets : t <= now} \ saved

Update ==
    /\ pc = "train" /\ transitions < total
    /\ transitions' = transitions + Decisions * FleetSize
    /\ weights' = [weights EXCEPT !.transitions = @ + Decisions * FleetSize]
    /\ due' = Crossed(transitions')
    /\ pc' = "persist" /\ after' = "train"
    /\ UNCHANGED <<total, attempt, epoch, saved, lineage, files, reported, cut>>

-----------------------------------------------------------------------------
(* persist_checkpoint: latest.pt first, then the snapshot and the policy   *)
(* file of a fraction, then the report to the registry.                    *)

\* Seeded fault: the fraction enters the lineage after latest.pt is saved.
SaveLatestFirst ==
    /\ pc = "persist"
    /\ lineage' = IF due = {} THEN lineage ELSE lineage \cup {Fraction}
    /\ latest' = Checkpoint(Fraction, lineage)
    /\ pc' = IF due = {} THEN "report" ELSE "snapshot"
    /\ UNCHANGED <<total, after, attempt, transitions, epoch, weights, saved, due,
                   snapshot, policy, final, reported, cut>>

SaveLatest ==
    /\ pc = "persist"
    /\ lineage' = IF due = {} THEN lineage ELSE lineage \cup {Fraction}
    /\ latest' = Checkpoint(Fraction, lineage')
    /\ pc' = IF due = {} THEN "report" ELSE "snapshot"
    /\ UNCHANGED <<total, after, attempt, transitions, epoch, weights, saved, due,
                   snapshot, policy, final, reported, cut>>

SaveSnapshot ==
    /\ pc = "snapshot"
    /\ snapshot' = [snapshot EXCEPT ![Fraction] = Checkpoint(Fraction, lineage)]
    /\ pc' = "export"
    /\ UNCHANGED <<total, after, attempt, memory, latest, policy, final, reported, cut>>

\* The policy file is converted from the snapshot that was read back.
BeginExport ==
    /\ pc = "export"
    /\ policy' = [policy EXCEPT ![Fraction] = Torn]
    /\ pc' = "exporting"
    /\ UNCHANGED <<total, after, attempt, memory, latest, snapshot, final, reported, cut>>

EndExport ==
    /\ pc = "exporting"
    /\ policy' = [policy EXCEPT ![Fraction] = snapshot[Fraction]]
    /\ pc' = "report"
    /\ UNCHANGED <<total, after, attempt, memory, latest, snapshot, final, reported, cut>>

\* The saved targets are updated once, after the last crossed target; nothing
\* reads them before.
Report ==
    /\ pc = "report"
    /\ reported' = TRUE
    /\ LET now == IF due = {} THEN {} ELSE {Min(due)}
       IN  /\ due' = due \ now
           /\ saved' = saved \cup now
    /\ pc' = IF due' # {} THEN "persist" ELSE after
    /\ UNCHANGED <<total, after, attempt, transitions, epoch, weights, lineage,
                   files, cut>>

-----------------------------------------------------------------------------
(* The artifacts of a finished run, and the end of an attempt.             *)

EndTraining ==
    /\ pc = "train" /\ transitions >= total
    /\ final' = Torn /\ pc' = "final"
    /\ UNCHANGED <<total, after, attempt, memory, latest, snapshot, policy, reported, cut>>

SaveFinal ==
    /\ pc = "final"
    /\ final' = Checkpoint(0, lineage) /\ pc' = "finish"
    /\ UNCHANGED <<total, after, attempt, memory, latest, snapshot, policy, reported, cut>>

\* finalize_run commits.
CompleteRun ==
    /\ pc = "finish" /\ pc' = "completed"
    /\ UNCHANGED <<total, after, attempt, memory, files, reported, cut>>

\* The attempt ends early, wherever it is: its memory is lost.
Stop ==
    /\ pc \notin {"new", "down", "completed"}
    /\ pc' = "down"
    /\ cut' = IF latest # NoFile /\ latest.transitions = transitions
              THEN cut \cup {FractionAt(t) : t \in due}
              ELSE cut
    /\ UNCHANGED <<total, after, attempt, memory, files, reported>>

-----------------------------------------------------------------------------
Work ==
    \/ Open \/ CloneEpoch \/ EndClone \/ Update
    \/ SaveLatest \/ SaveSnapshot \/ BeginExport \/ EndExport \/ Report
    \/ EndTraining \/ SaveFinal \/ CompleteRun

Next == Start \/ Resume \/ Work \/ CancelClone \/ Stop

\* A worker that is neither killed nor interrupted computes: every step of the
\* loop is a bounded computation or a write.
Spec == Init /\ [][Next]_vars /\ WF_vars(Work)

-----------------------------------------------------------------------------
(* Properties.                                                              *)

Running == pc \notin {"new", "down", "completed"}

PCs == {"new", "opened", "clone", "train", "persist", "snapshot", "export",
        "exporting", "report", "final", "finish", "completed", "down"}

Checkpoints ==
    [transitions : Nat, epoch : 0..Epochs,
     weights : [epochs : Nat, transitions : Nat],
     fraction : {0} \cup Percentages, lineage : SUBSET ({0} \cup Percentages)]

\* The value each variable may take.
TypeOK ==
    /\ total \in Totals
    /\ pc \in PCs
    /\ after \in {"clone", "train", "down"}
    /\ attempt \in 0..MaxAttempts
    /\ transitions \in Nat /\ epoch \in 0..Epochs
    /\ weights \in [epochs : Nat, transitions : Nat]
    /\ saved \subseteq 1..total /\ due \subseteq 1..total
    /\ lineage \subseteq {0} \cup Percentages
    /\ latest \in Checkpoints \cup {NoFile}
    /\ snapshot \in [Percentages -> Checkpoints \cup {NoFile}]
    /\ policy \in [Percentages -> Checkpoints \cup {NoFile, Torn}]
    /\ final \in Checkpoints \cup {NoFile, Torn}
    /\ reported \in BOOLEAN
    /\ cut \subseteq Percentages

\* "All state required for an exact local resume" (save_training_checkpoint):
\* in every file the counters say what the weights have absorbed, so that over
\* any sequence of interrupted attempts no epoch and no transition is trained
\* twice or skipped.
ExactResume ==
    \A file \in {latest, final} \cup {snapshot[p] : p \in Percentages}
                                \cup {policy[p] : p \in Percentages} :
      Complete(file) =>
        /\ file.weights = [epochs |-> file.epoch, transitions |-> file.transitions]
        /\ file.transitions > 0 => file.epoch = Epochs

\* A policy file that a selection can load is the candidate of its fraction:
\* it carries that fraction, was taken at most one decision past its target,
\* and names itself in its lineage; the snapshot it came from is there.
CandidateUsable ==
    \A p \in Percentages : Complete(policy[p]) =>
      /\ policy[p] = snapshot[p]
      /\ policy[p].fraction = p /\ p \in policy[p].lineage
      /\ TargetOf(p) <= policy[p].transitions
      /\ policy[p].transitions < TargetOf(p) + FleetSize

\* Whatever attempt wrote a snapshot, the checkpoint that the next attempt
\* resumes from lists it, so that the lineage of the finished policy misses
\* none (persist_checkpoint appends before it saves).
LineageComplete ==
    \A p \in Percentages : snapshot[p] # NoFile => p \in latest.lineage

\* The finished policy is one that was trained to the end, and a fraction has
\* no loadable policy file only because an attempt ended between latest.pt and
\* that file; a run that is never interrupted there publishes all of them.
MissingOnlyIfCut ==
    pc = "completed" =>
      /\ total <= final.transitions /\ final.transitions < total + FleetSize
      /\ final.epoch = Epochs
      /\ \A p \in Published \ cut : Complete(policy[p])

\* latest.pt never loses training: an attempt that resumes, repeats or is
\* cancelled does not replace it with an older state.
LatestForward ==
    [][latest # NoFile =>
         /\ latest'.transitions >= latest.transitions
         /\ latest'.epoch >= latest.epoch]_vars

\* "Configured fraction snapshots are immutable named checkpoints": neither a
\* snapshot nor a loadable policy file is ever written again.
SnapshotImmutable ==
    [][\A p \in Percentages :
         /\ snapshot[p] # NoFile => snapshot'[p] = snapshot[p]
         /\ Complete(policy[p]) => policy'[p] = policy[p]]_vars

\* An attempt ends: whatever the sizes of the run, of its rollouts and of the
\* gaps between its targets, the loop makes progress.
AttemptEnds == Running ~> ~Running

\* "Every run saves resumable and evaluation-ready checkpoints at 10%, 25%,
\* 50%, 75%, and 100%" (construction-intelligence-v1-protocol.md).
AllFractionsSaved ==
    pc = "completed" => \A p \in Percentages : Complete(policy[p])

=============================================================================
