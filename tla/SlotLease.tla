------------------------------ MODULE SlotLease ------------------------------
(***************************************************************************)
(* What the durable queue promises, without services, rows, heartbeats or  *)
(* processes: one slot that is granted to a waiting job, ticket by ticket, *)
(* and never granted or given back while somebody works in it.             *)
(***************************************************************************)
EXTENDS Naturals

CONSTANT Jobs

VARIABLES
    waiting,   \* jobs that ask for the slot
    holding,   \* the jobs that have the slot: none or one
    ticket,    \* per job, how often it was granted the slot
    working,   \* <<job, ticket>> pairs whose worker is at work: none or one
    finished   \* jobs that completed

slotVars == <<waiting, holding, ticket, working, finished>>

SlotInit ==
    /\ waiting = {} /\ holding = {} /\ working = {} /\ finished = {}
    /\ ticket = [j \in Jobs |-> 0]

\* A job asks for the slot, for the first time or again; never once finished.
Ask(j) ==
    /\ j \notin waiting \cup holding \cup finished
    /\ waiting' = waiting \cup {j}
    /\ UNCHANGED <<holding, ticket, working, finished>>

Withdraw(j) ==
    /\ j \in waiting
    /\ waiting' = waiting \ {j}
    /\ UNCHANGED <<holding, ticket, working, finished>>

\* The slot is free and nobody works in it any more.
Grant(j) ==
    /\ j \in waiting /\ holding = {} /\ working = {}
    /\ waiting' = waiting \ {j}
    /\ holding' = {j}
    /\ ticket' = [ticket EXCEPT ![j] = @ + 1]
    /\ UNCHANGED <<working, finished>>

\* Work begins under the last ticket only, and ends at any time.
Begin(j) ==
    /\ j \in holding /\ working = {}
    /\ working' = {<<j, ticket[j]>>}
    /\ UNCHANGED <<waiting, holding, ticket, finished>>

End ==
    /\ working # {}
    /\ working' = {}
    /\ UNCHANGED <<waiting, holding, ticket, finished>>

\* The slot is given back once nobody works in it.
GiveBack(j) ==
    /\ j \in holding /\ working = {}
    /\ holding' = {}
    /\ UNCHANGED <<waiting, ticket, working, finished>>

\* The worker gives it back itself, with or without a finished job.
Deliver(j) ==
    /\ j \in holding /\ working = {<<j, ticket[j]>>}
    /\ holding' = {} /\ working' = {}
    /\ \/ finished' = finished \cup {j}
       \/ UNCHANGED finished
    /\ UNCHANGED <<waiting, ticket>>

SlotNext ==
    \/ End
    \/ \E j \in Jobs :
         \/ Ask(j) \/ Withdraw(j) \/ Grant(j)
         \/ Begin(j) \/ GiveBack(j) \/ Deliver(j)

SlotSpec == SlotInit /\ [][SlotNext]_slotVars

=============================================================================
