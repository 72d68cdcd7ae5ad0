---------------------------- MODULE ResearchRules ----------------------------
(***************************************************************************)
(* The decision rules of the frozen protocol (experiment_protocol.py,      *)
(* experiment_execution.py): which checkpoint is selected, whether the     *)
(* primary thresholds are met, whether an ablation hypothesis is           *)
(* supported, and whether the evidence is complete.  Rates are in percent, *)
(* ratios are compared by cross-multiplication.                            *)
(*                                                                         *)
(* The state is one piece of evidence; a step makes one part of it better. *)
(***************************************************************************)
EXTENDS Integers, FiniteSetsExt

CONSTANTS
    Checkpoints,    \* 1..n, the checkpoint fractions in order
    Transitions,    \* of each checkpoint
    Rates, Spans,   \* completion rates and makespans that occur
    Runs,           \* runs of the matrix
    CompletionMin, FailureMin, RatioMax,      \* acceptance, RatioMax in percent
    GainMin, ReductionMin,                    \* behavior cloning
    FailureGainMin, DeltaMin                  \* failure curriculum

VARIABLE evidence

Never == 0    \* no checkpoint reaches the rate (None)

-----------------------------------------------------------------------------
(* select_validation_checkpoint.                                           *)

\* The preregistered order of two candidates; fractions order the ids and, since
\* no two checkpoints are equal in all else, the transitions too.
Better(results, c, d) ==
    \/ results[c].rate > results[d].rate
    \/ /\ results[c].rate = results[d].rate
       /\ \/ results[c].span < results[d].span
          \/ /\ results[c].span = results[d].span
             /\ \/ Transitions[c] < Transitions[d]
                \/ Transitions[c] = Transitions[d] /\ c < d

\* The first of the ranking.
Selected(results) ==
    CHOOSE c \in Checkpoints : \A d \in Checkpoints \ {c} : Better(results, c, d)

-----------------------------------------------------------------------------
(* Ablations.                                                              *)

\* validation_transitions_to_completion, for the means of a variant.
TransitionsTo(curve) ==
    LET reached == {c \in Checkpoints : curve[c] >= CompletionMin}
    IN  IF reached = {} THEN Never ELSE Transitions[Min(reached)]

\* Seeded fault: without both numbers there is no reduction.
ReducedIfBoth(full, ablated) ==
    full # Never /\ ablated # Never /\ (ablated - full) * 100 >= ReductionMin * ablated

\* _transition_reduction: a variant that arrives where the ablated one never does
\* has saved everything.
Reduced(full, ablated) ==
    /\ full # Never
    /\ ablated = Never \/ (ablated - full) * 100 >= ReductionMin * ablated

CloningSupported(e) ==
    \/ e.full - e.ablated >= GainMin
    \/ Reduced(TransitionsTo(e.curve), TransitionsTo(e.ablatedCurve))

CurriculumSupported(e) ==
    e.failure - e.ablatedFailure >= FailureGainMin /\ e.full - e.ablated >= DeltaMin

-----------------------------------------------------------------------------
(* Release.                                                                *)

\* audit_primary_acceptance.
Accepted(e) ==
    /\ e.mappo >= CompletionMin /\ e.ippo >= CompletionMin
    /\ e.failure >= FailureMin
    /\ e.makespan * 100 <= RatioMax * e.optimum

Hypotheses == {"behavior_cloning", "failure_curriculum"}

\* decide_release_completeness: decided hypotheses need not be supported ones.
Complete(e) ==
    /\ e.trained = Runs /\ e.selected = Runs /\ e.evaluated = Runs
    /\ e.decided = Hypotheses
    /\ e.accepted /\ e.report /\ e.artifacts /\ ~e.leak

-----------------------------------------------------------------------------
Curves == [Checkpoints -> Rates]

Evidence ==
    [rule : {"selection"}, candidate : Checkpoints,
     results : [Checkpoints -> [rate : Rates, span : Spans]]]
    \cup [rule : {"cloning"}, full : Rates, ablated : Rates, curve : Curves, ablatedCurve : Curves]
    \cup [rule : {"curriculum"}, full : Rates, ablated : Rates, failure : Rates, ablatedFailure : Rates]
    \cup [rule : {"acceptance"}, mappo : Rates, ippo : Rates, failure : Rates,
          makespan : Spans, optimum : Spans]
    \cup [rule : {"release"}, trained : SUBSET Runs, selected : SUBSET Runs,
          evaluated : SUBSET Runs, decided : SUBSET Hypotheses,
          accepted : BOOLEAN, report : BOOLEAN, artifacts : BOOLEAN, leak : BOOLEAN]

Verdict(e) ==
    CASE e.rule = "selection"  -> Selected(e.results) = e.candidate
      [] e.rule = "cloning"    -> CloningSupported(e)
      [] e.rule = "curriculum" -> CurriculumSupported(e)
      [] e.rule = "acceptance" -> Accepted(e)
      [] e.rule = "release"    -> Complete(e)

Init == evidence \in Evidence

\* The parts of which more is better, and those of which less is.
More == {"full", "failure", "mappo", "ippo", "optimum"}
Less == {"ablated", "ablatedFailure", "makespan"}
Sets == {"trained", "selected", "evaluated", "decided"}
Flags == {"accepted", "report", "artifacts"}

ImproveNumber ==
    \E f \in DOMAIN evidence \cap (More \cup Less), v \in Rates \cup Spans :
        /\ IF f \in More THEN v > evidence[f] ELSE v < evidence[f]
        /\ evidence' = [evidence EXCEPT ![f] = v]
        /\ evidence' \in Evidence

ImproveCurve ==
    /\ evidence.rule = "cloning"
    /\ \E c \in Checkpoints, v \in Rates :
        \/ v > evidence.curve[c] /\ evidence' = [evidence EXCEPT !.curve[c] = v]
        \/ v < evidence.ablatedCurve[c] /\ evidence' = [evidence EXCEPT !.ablatedCurve[c] = v]

ImproveCandidate ==
    /\ evidence.rule = "selection"
    /\ \E c \in Checkpoints, rate \in Rates, span \in Spans :
        LET old == evidence.results[c] IN
        /\ IF c = evidence.candidate THEN rate >= old.rate /\ span <= old.span
                                     ELSE rate <= old.rate /\ span >= old.span
        /\ evidence' = [evidence EXCEPT !.results[c] = [rate |-> rate, span |-> span]]

ImproveRelease ==
    /\ evidence.rule = "release"
    /\ \/ \E f \in Sets : \E x \in IF f = "decided" THEN Hypotheses ELSE Runs :
            evidence' = [evidence EXCEPT ![f] = @ \cup {x}]
       \/ \E f \in Flags : evidence' = [evidence EXCEPT ![f] = TRUE]
       \/ evidence' = [evidence EXCEPT !.leak = FALSE]

Next == ImproveNumber \/ ImproveCurve \/ ImproveCandidate \/ ImproveRelease

Spec == Init /\ [][Next]_evidence

-----------------------------------------------------------------------------
\* Better evidence never costs a verdict: a checkpoint stays selected when it gets
\* better or another one worse, a hypothesis stays supported when the full variant
\* gains or the ablated one loses, down to never reaching the rate at all, and an
\* accepted or complete result stays so.
EvidenceMonotone == [][Verdict(evidence) => Verdict(evidence')]_evidence
=============================================================================
