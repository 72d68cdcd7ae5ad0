---------------------------- MODULE SkillExecutor ----------------------------
(***************************************************************************)
(* A task carried out by skills (core/, pipelines/collection.py): a plan   *)
(* is a chain of steps, each is checked, tried and retried, and the first  *)
(* one that fails for good ends the plan.  A collection perceives, plans   *)
(* and executes for several cycles over a warehouse that keeps what        *)
(* earlier cycles left; a tabletop task has one plan.                      *)
(***************************************************************************)
EXTENDS Integers, SequencesExt, FiniteSetsExt

CONSTANTS
    Objects,      \* 1..n, in the order of their positions within a station
    Colour,       \* of every object
    Stations,     \* 1..k, the pickup stations in the order of their names
    Tasks,        \* [kind, targets, drop, sight]; targets may name unknown objects
    MaxCycles,    \* max_cycles
    MaxRetries    \* max_retries of the steps that grasp

VARIABLES
    task,
    robot,        \* holding (0 for nothing) and navigation_node
    object,       \* station_name, held, collected, and whether it was placed
    loop          \* the runner and the executor: pc, cycle, plan, place in it, outcome

vars == <<task, robot, object, loop>>

Nothing  == 0
DropZone == 0     \* the zone of the scene
Unknown  == -1    \* a name that the scene does not have
Nowhere  == -2    \* station_name None
Dock     == -3

Init ==
    /\ task \in Tasks
    /\ robot = [holding |-> Nothing, node |-> Dock]
    /\ \E place \in [Objects -> Stations] :
        object = [o \in Objects |->
            [station |-> place[o], held |-> FALSE, collected |-> FALSE, placed |-> FALSE]]
    /\ loop = [pc |-> "perceive", cycle |-> 0, plan |-> <<>>, step |-> 1, attempt |-> 0,
               failure |-> "none", success |-> FALSE]

-----------------------------------------------------------------------------
(* Perception and planning.                                                *)

Visible == {o \in Objects : object[o].station \in Stations}

\* The oracle sees everything.  A camera sees at most one object of a colour at a
\* station, whichever the scene lists first, and may miss what is behind others.
Perceptions ==
    IF task.sight = "oracle" THEN {Objects}
    ELSE {seen \in SUBSET Visible : \A o, p \in seen :
            Colour[p] = Colour[o] /\ object[p].station = object[o].station => o = p}

Step(name, to, o) == [name |-> name, to |-> to, object |-> o]

\* Seeded fault: the way to the drop zone is left out.
ErrandWithoutWay(o) ==
    << Step("navigate", object[o].station, o), Step("pick", Nowhere, o),
       Step("deliver", task.drop, o) >>

Errand(o) ==
    << Step("navigate", object[o].station, o), Step("pick", Nowhere, o),
       Step("navigate", task.drop, o), Step("deliver", task.drop, o) >>

\* Errands go by station, and within one by position.
Sooner(o, p) ==
    object[o].station < object[p].station \/ (object[o].station = object[p].station /\ o < p)

Order(S) ==
    CHOOSE order \in SetToSeqs(S) :
        \A i, j \in DOMAIN order : i < j => Sooner(order[i], order[j])

\* _build_collection_steps: what is at no station is skipped.
CollectionSteps(pending) ==
    LET targets == Order({o \in pending : object[o].station # Nowhere})
    IN  <<Step("observe", Nowhere, Nothing)>>
        \o FlattenSeq([i \in DOMAIN targets |-> Errand(targets[i])])

\* _build_steps of a tabletop task.
TabletopSteps(o) ==
    << Step("open", Nowhere, o), Step("approach", Nowhere, o), Step("grasp", Nowhere, o),
       Step("lift", Nowhere, o), Step("carry", Nowhere, o), Step("place", Nowhere, o) >>

AllCollected == \A o \in task.targets \cap Objects : object[o].collected

\* The report of a collection.
Finished ==
    [loop EXCEPT !.pc = "over", !.success = loop.cycle > 0 /\ AllCollected,
                 !.failure = IF loop.cycle = 0 THEN "perception"
                             ELSE IF AllCollected THEN "none" ELSE @]

Planned(plan) ==
    [loop EXCEPT !.pc = "run", !.cycle = @ + 1, !.plan = plan, !.step = 1, !.attempt = 0,
                 !.failure = "none"]

Perceive ==
    /\ loop.pc = "perceive" /\ task.kind = "collection"
    /\ \E seen \in Perceptions :
        LET pending == {o \in task.targets \cap seen : ~object[o].collected}
        IN  loop' = IF loop.cycle = MaxCycles \/ pending = {} THEN Finished
                    ELSE Planned(CollectionSteps(pending))
    /\ UNCHANGED <<task, robot, object>>

PlanTabletop ==
    /\ loop.pc = "perceive" /\ task.kind = "tabletop"
    /\ loop' = Planned(TabletopSteps(Min(task.targets)))
    /\ UNCHANGED <<task, robot, object>>

-----------------------------------------------------------------------------
(* The executor, and what the skills do.                                   *)

\* check_preconditions
Allowed(s) ==
    CASE s.name = "navigate" -> s.to \in Stations \cup {DropZone}
      [] s.name = "pick"     -> ~object[s.object].collected /\ robot.holding = Nothing
      [] s.name = "grasp"    -> robot.holding = Nothing
      [] s.name = "deliver"  -> robot.holding # Nothing /\ s.to = DropZone
      [] s.name \in {"lift", "place"} -> robot.holding # Nothing
      [] OTHER -> TRUE

\* Picking depends on chance; the arm may miss a pose and the gripper an object.
Outcomes(s) ==
    CASE s.name = "pick" -> IF object[s.object].station = robot.node THEN BOOLEAN ELSE {FALSE}
      [] s.name \in {"approach", "grasp", "lift", "carry", "place"} -> BOOLEAN
      [] OTHER -> {TRUE}

\* Seeded fault: a delivered object stays in the gripper.
EffectKeeping(s) ==
    CASE s.name = "navigate" -> robot' = [robot EXCEPT !.node = s.to] /\ UNCHANGED object
      [] s.name \in {"pick", "grasp"} ->
            /\ robot' = [robot EXCEPT !.holding = s.object]
            /\ object' = [object EXCEPT ![s.object].held = TRUE, ![s.object].station = Nowhere]
      [] s.name = "deliver" ->
            /\ UNCHANGED robot
            /\ object' = [object EXCEPT ![robot.holding].held = FALSE,
                            ![robot.holding].collected = TRUE, ![robot.holding].station = DropZone]
      [] s.name = "place" ->
            /\ robot' = [robot EXCEPT !.holding = Nothing]
            /\ object' = [object EXCEPT ![robot.holding].held = FALSE, ![robot.holding].placed = TRUE]
      [] OTHER -> UNCHANGED <<robot, object>>

Effect(s) ==
    CASE s.name = "navigate" -> robot' = [robot EXCEPT !.node = s.to] /\ UNCHANGED object
      [] s.name \in {"pick", "grasp"} ->
            /\ robot' = [robot EXCEPT !.holding = s.object]
            /\ object' = [object EXCEPT ![s.object].held = TRUE, ![s.object].station = Nowhere]
      [] s.name = "deliver" ->
            /\ robot' = [robot EXCEPT !.holding = Nothing]
            /\ object' = [object EXCEPT ![robot.holding].held = FALSE,
                            ![robot.holding].collected = TRUE, ![robot.holding].station = DropZone]
      [] s.name = "place" ->
            /\ robot' = [robot EXCEPT !.holding = Nothing]
            /\ object' = [object EXCEPT ![robot.holding].held = FALSE, ![robot.holding].placed = TRUE]
      [] OTHER -> UNCHANGED <<robot, object>>

Retries(s) == IF s.name \in {"pick", "grasp"} THEN MaxRetries ELSE 0

Running == loop.pc = "run" /\ loop.failure = "none" /\ loop.step <= Len(loop.plan)
Current == loop.plan[loop.step]

\* A step that must not be tried is not retried either.
Refuse ==
    /\ Running /\ ~Allowed(Current)
    /\ loop' = [loop EXCEPT !.failure = Current.name]
    /\ UNCHANGED <<task, robot, object>>

Succeed ==
    /\ Running /\ Allowed(Current) /\ TRUE \in Outcomes(Current)
    /\ Effect(Current)
    /\ loop' = [loop EXCEPT !.step = @ + 1, !.attempt = 0]
    /\ UNCHANGED task

Fail ==
    /\ Running /\ Allowed(Current) /\ FALSE \in Outcomes(Current)
    /\ loop' = IF loop.attempt = Retries(Current) THEN [loop EXCEPT !.failure = Current.name]
               ELSE [loop EXCEPT !.attempt = @ + 1]
    /\ UNCHANGED <<task, robot, object>>

Return ==
    /\ loop.pc = "run" /\ ~Running
    /\ loop' = IF task.kind = "tabletop"
               THEN [loop EXCEPT !.pc = "over", !.success = loop.failure = "none"]
               ELSE IF AllCollected THEN Finished ELSE [loop EXCEPT !.pc = "perceive"]
    /\ UNCHANGED <<task, robot, object>>

Next == Perceive \/ PlanTabletop \/ Refuse \/ Succeed \/ Fail \/ Return

Spec == Init /\ [][Next]_vars /\ WF_vars(Next)

-----------------------------------------------------------------------------
Held == {o \in Objects : object[o].held}
InPlan(o) == \E i \in DOMAIN loop.plan : loop.plan[i].object = o

\* What the robot holds and what the objects say of themselves agree, however a plan
\* was cut short.  Between the cycles of a collection the gripper is empty, or the
\* task's drop zone is none and nothing was ever delivered; nothing is delivered but at
\* the zone, which no skill checks.  A report of success means that every target of the
\* scene is where it should be and nothing is in the gripper; one of failure that names
\* no step, that every target that was seen and stood at a station has been delivered.
TasksSound ==
    /\ Held = {robot.holding} \ {Nothing}
    /\ \A o \in Objects : object[o].held => object[o].station = Nowhere /\ ~object[o].collected
    /\ task.kind = "collection" /\ loop.pc # "run" =>
        IF task.drop = DropZone THEN Held = {} ELSE \A o \in Objects : ~object[o].collected
    /\ Running /\ Current.name = "deliver" /\ Allowed(Current) => robot.node = DropZone
    /\ loop.pc = "over" =>
        /\ loop.success => loop.failure = "none" /\ Held = {}
        /\ loop.success /\ task.kind = "tabletop" => object[Min(task.targets)].placed
        /\ ~loop.success /\ loop.failure = "none" =>
            /\ task.kind = "collection"
            /\ \A o \in Objects : InPlan(o) => object[o].collected
        /\ task.kind = "tabletop" /\ Held # {} => loop.failure \in {"lift", "carry", "place"}

\* Every task ends.
TaskEnds == <>(loop.pc = "over")
=============================================================================
