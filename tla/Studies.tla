------------------------------ MODULE Studies ------------------------------
(***************************************************************************)
(* What a study decides: policies are selected and held out by API threads *)
(* (PolicySelection), or by a thread next to the script, and evidence is   *)
(* judged by the rules of the protocol (ResearchRules).  These share no    *)
(* state; every behaviour is one of the three.                             *)
(***************************************************************************)
EXTENDS PolicySelection

CONSTANTS
    ScriptRoot,     \* of each handler, with the script among them
    Checkpoints, Transitions, Rates, Spans, CompletionMin, FailureMin, RatioMax,
    GainMin, ReductionMin, FailureGainMin, DeltaMin     \* of ResearchRules

VARIABLES
    world,
    basis        \* the evidence that a rule judges

Script == INSTANCE PolicySelection WITH Root <- ScriptRoot, MaxJobs <- 0
Rules == INSTANCE ResearchRules WITH evidence <- basis

\* What the protocol says of its numbers: later checkpoints have seen no fewer
\* transitions, rates and the least reduction are percentages.
ProtocolNumbers ==
    /\ Checkpoints \subseteq Nat /\ Checkpoints # {}
    /\ Transitions \in [Checkpoints -> Nat \ {0}]
    /\ \A c, d \in Checkpoints : c < d => Transitions[c] <= Transitions[d]
    /\ Rates \subseteq 0..100 /\ Spans \subseteq Nat
    /\ CompletionMin \in Int /\ FailureMin \in Int /\ GainMin \in Int
    /\ FailureGainMin \in Int /\ DeltaMin \in Int
    /\ RatioMax \in Nat /\ ReductionMin \in 0..100

ASSUME ProtocolAssumption == ProtocolNumbers

allVars == <<world, vars, basis>>

\* Nothing has been collected.
NoBasis == [rule |-> "release", trained |-> {}, selected |-> {}, evaluated |-> {}, decided |-> {},
            accepted |-> FALSE, report |-> FALSE, artifacts |-> FALSE, leak |-> FALSE]

InitRegistry == world \in {"api", "script"} /\ Init /\ basis = NoBasis
InitRules == world = "rules" /\ Init /\ Rules!Init

ApiStep == world = "api" /\ Next /\ UNCHANGED <<world, basis>>
ScriptStep == world = "script" /\ Script!Next /\ UNCHANGED <<world, basis>>
RulesStep == world = "rules" /\ Rules!Next /\ UNCHANGED <<world, vars>>

StudiesInit == InitRegistry \/ InitRules
StudiesNext == ApiStep \/ ScriptStep \/ RulesStep

StudiesSpec == StudiesInit /\ [][StudiesNext]_allVars

-----------------------------------------------------------------------------
\* Better evidence never costs a verdict: of ResearchRules.
EvidenceMonotone == Rules!EvidenceMonotone
=============================================================================
