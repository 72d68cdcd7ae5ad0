----------------------------- MODULE BuildOrder -----------------------------
(***************************************************************************)
(* What every executor of a build plan promises, whatever its robots do:   *)
(* parts are installed once, each after the parts it depends on, and never *)
(* taken away before the next build begins.                                *)
(***************************************************************************)
VARIABLES
    parts, needs,   \* the plan; needs[p]: the parts that p rests on
    installed

Init == installed = {}

\* Several parts may be installed at once, but none of them on another one.
Install ==
    /\ installed' \in SUBSET parts /\ installed \subseteq installed'
    /\ \A p \in installed' \ installed : needs[p] \subseteq installed
    /\ UNCHANGED <<parts, needs>>

Begin == installed' = {} /\ UNCHANGED <<parts, needs>>

Next == Begin \/ Install

Spec == Init /\ [][Next]_<<parts, needs, installed>>
=============================================================================
