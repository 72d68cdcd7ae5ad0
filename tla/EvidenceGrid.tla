---------------------------- MODULE EvidenceGrid ----------------------------
(***************************************************************************)
(* The grids of episodes behind a verdict (evaluation.py,                  *)
(* experiment_execution.py, phase3_verification.py): an evaluation runs a  *)
(* controller or policy for every scenario seed, with and without          *)
(* failures, and checks the grid only at its end; the five candidates of a *)
(* selection have no such check, and the phase-3 driver counts what it     *)
(* finds in the files of both.                                             *)
(*                                                                         *)
(* An entry is a controller, its variant and its training seed; a cell is  *)
(* an entry, a scenario seed and a failure mode.                           *)
(***************************************************************************)
EXTENDS Integers, Sequences, SequencesExt, FiniteSets

CONSTANTS
    Seeds, Expected,    \* scenario seeds, and those of the split asked for
    Baselines, Policies \* sequences of entries: those of the held-out evaluation

VARIABLES
    request,     \* what is evaluated
    episodes,    \* sequence of cells
    outcome      \* running, stored, refused, cancelled, accepted

vars == <<request, episodes, outcome>>

-----------------------------------------------------------------------------
Entries == ToSet(Baselines) \cup ToSet(Policies)
Modes == <<FALSE, TRUE>>
Lists(S) == UNION {[1..n -> S] : n \in 0..2}

\* Policies and manifests are looked up by the name of their controller.
Consistent(entries) ==
    \A i, j \in DOMAIN entries :
        entries[i].controller = entries[j].controller => entries[i] = entries[j]

\* The protocol lists the seeds of its grids once, in order (_require_unique_sorted).
Protocol ==
    CHOOSE list \in SetToSeqs(Expected) : \A i, j \in DOMAIN list : i < j => list[i] < list[j]

\* Whoever asks for an evaluation chooses controllers, seeds and modes; a held-out
\* evaluation and that of a candidate take them from the protocol.
Inline ==
    [kind : {"inline"}, entries : {l \in Lists(Entries) : Consistent(l)}, seeds : Lists(Seeds),
     modes : {<<FALSE>>, Modes}, split : BOOLEAN]
Heldout ==
    [kind : {"heldout"}, entries : {Baselines \o Policies}, seeds : {Protocol},
     modes : {Modes}, split : {TRUE}]
Candidates(kind) ==
    [kind : {kind}, entries : {<<p>> : p \in ToSet(Policies)}, seeds : {Protocol},
     modes : {Modes}, split : {TRUE}]

Cell(entry, seed, mode) == [entry |-> entry, seed |-> seed, failure |-> mode]

\* The nested loops; which of them is the outer one makes no difference to a grid.
Plan(r) ==
    FlattenSeq([c \in DOMAIN r.entries |->
        FlattenSeq([m \in DOMAIN r.modes |->
            [s \in DOMAIN r.seeds |-> Cell(r.entries[c], r.seeds[s], r.modes[m])]])])

Grid(r) == ToSet(Plan(r))

\* An evaluation starts without episodes; the evidence of a candidate, which nothing
\* checked when it was stored, is found with up to one episode more than it should have.
Init ==
    \/ /\ request \in Inline \cup Heldout \cup Candidates("candidate")
       /\ episodes = <<>> /\ outcome = "running"
    \/ /\ request \in Candidates("found")
       /\ \E n \in 0..Len(Plan(request)) + 1 :
             episodes \in [1..n -> {Cell(request.entries[1], s, m) : s \in Seeds, m \in BOOLEAN}]
       /\ outcome = "stored"

-----------------------------------------------------------------------------
\* evaluate_controller_episode: a seed of another split is refused before it is run.
Evaluate ==
    /\ outcome = "running" /\ Len(episodes) < Len(Plan(request))
    /\ LET next == Plan(request)[Len(episodes) + 1] IN
       IF request.split /\ next.seed \notin Expected
         THEN outcome' = "refused" /\ UNCHANGED episodes
         ELSE episodes' = Append(episodes, next) /\ UNCHANGED outcome
    /\ UNCHANGED request

\* Only the worker of a held-out evaluation looks for a cancellation, between episodes.
Cancel ==
    /\ outcome = "running" /\ request.kind = "heldout"
    /\ outcome' = "cancelled"
    /\ UNCHANGED <<request, episodes>>

-----------------------------------------------------------------------------
(* What is made of the episodes.                                           *)

\* The group of an episode, and how the hierarchical mean divides it: by training
\* seed, then by scenario.
Group(i) ==
    {j \in DOMAIN episodes :
        /\ episodes[j].entry.controller = episodes[i].entry.controller
        /\ episodes[j].entry.variant = episodes[i].entry.variant
        /\ episodes[j].failure = episodes[i].failure}
Trained(i) == {j \in Group(i) : episodes[j].entry.training = episodes[i].entry.training}
Repeats(i) == {j \in Trained(i) : episodes[j].seed = episodes[i].seed}
Scenarios(i) == {episodes[j].seed : j \in Trained(i)}
Trainings(i) == {episodes[j].entry.training : j \in Group(i)}

\* _hierarchical_metric_summary raises unless all training seeds have one scenario grid.
Aggregates == \A i \in DOMAIN episodes : \A j \in Group(i) : Scenarios(j) = Scenarios(i)

Unique(list) == Len(list) = Cardinality(ToSet(list))

\* Seeded fault: policies that differ only in their training seed have one key.
KeyWithoutTraining(entry) == <<entry.controller, entry.variant>>

Key(entry) == <<entry.controller, entry.variant, entry.training>>

Named(cell) == <<Key(cell.entry), cell.seed, cell.failure>>

\* validate_evaluation_grid.
Validates(r) ==
    /\ r.seeds # <<>> /\ r.entries # <<>>
    /\ Unique(r.seeds) /\ Unique([i \in DOMAIN r.entries |-> Key(r.entries[i])])
    /\ Unique([i \in DOMAIN episodes |-> Named(episodes[i])])
    /\ {Named(episodes[i]) : i \in DOMAIN episodes} = {Named(c) : c \in Grid(r)}
    /\ r.split => \A i \in DOMAIN episodes : episodes[i].seed \in Expected

\* The summaries come first, then the check, then the files.  A candidate is stored as
\* it is.
Store ==
    /\ outcome = "running" /\ Len(episodes) = Len(Plan(request))
    /\ outcome' = IF request.kind = "candidate" \/ (Aggregates /\ Validates(request))
                    THEN "stored" ELSE "refused"
    /\ UNCHANGED <<request, episodes>>

\* Seeded fault: the cells are compared, not counted.
CandidateCellsOnly ==
    /\ ToSet(episodes) = Grid(request)
    /\ \A i \in DOMAIN episodes : episodes[i].seed \in Expected

\* _verify_validation_evidence: the number of episodes and the set of their cells.
CandidatePasses ==
    /\ Len(episodes) = Cardinality(Grid(request))
    /\ ToSet(episodes) = Grid(request)
    /\ \A i \in DOMAIN episodes : episodes[i].seed \in Expected

\* _verify_heldout_evidence: numbers of episodes, in all and of either sort.
HeldoutPasses ==
    LET of(S) == {i \in DOMAIN episodes : episodes[i].entry \in ToSet(S)}
        share(S) == Len(S) * Len(request.seeds) * Len(request.modes)
    IN  /\ Len(episodes) = share(Baselines) + share(Policies)
        /\ Cardinality(of(Policies)) = share(Policies)
        /\ Cardinality(of(Baselines)) = share(Baselines)
        /\ \A i \in DOMAIN episodes : episodes[i].seed \in Expected

Verify ==
    /\ outcome = "stored" /\ request.kind # "inline"
    /\ outcome' = IF (request.kind = "heldout" /\ HeldoutPasses)
                        \/ (request.kind # "heldout" /\ CandidatePasses)
                    THEN "accepted" ELSE "refused"
    /\ UNCHANGED <<request, episodes>>

Next == Evaluate \/ Cancel \/ Store \/ Verify

Spec == Init /\ [][Next]_vars

-----------------------------------------------------------------------------
\* Every cell of the grid has one episode, of the split asked for.
Complete ==
    /\ \A c \in Grid(request) : Cardinality({i \in DOMAIN episodes : episodes[i] = c}) = 1
    /\ ToSet(episodes) = Grid(request)
    /\ request.split => \A c \in Grid(request) : c.seed \in Expected

\* The mean of the means of a group weighs every episode alike, so it is the group's mean.
WeighedAlike ==
    \A i \in DOMAIN episodes :
        Cardinality(Group(i))
            = Cardinality(Trainings(i)) * Cardinality(Scenarios(i)) * Cardinality(Repeats(i))

Sound ==
    IF request.kind = "found" THEN Complete
    ELSE /\ request.seeds # <<>> /\ request.entries # <<>>
         /\ Unique(request.seeds) /\ Unique(request.entries)
         /\ request.split => ToSet(request.seeds) \subseteq Expected

\* A grid that is stored after its own check, or accepted by the driver of phase 3, has
\* every cell once and aggregates without bias; and neither turns down a grid that was
\* asked for properly and is complete, although one compares cells and the other counts.
GridFaithful ==
    /\ outcome = "accepted" \/ (outcome = "stored" /\ request.kind \in {"inline", "heldout"})
         => Complete /\ WeighedAlike
    /\ outcome = "refused" => ~Sound
=============================================================================
