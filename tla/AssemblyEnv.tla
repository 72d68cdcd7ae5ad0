----------------------------- MODULE AssemblyEnv -----------------------------
(***************************************************************************)
(* Two robots that build a site together (assembly/env.py): a blueprint is *)
(* compiled or a scenario loaded, and episode after episode a controller   *)
(* chooses joint actions, or options that run for several steps.  Physics  *)
(* (mujoco_backend.py) may fail a grasp or an install that the logic allows.*)
(* Poses, rewards and observations are left out; cells are <<x, y>>.       *)
(***************************************************************************)
EXTENDS Integers, SequencesExt, FiniteSetsExt

CONSTANTS
    Size,        \* grid_size
    Sites,       \* blueprints and scenarios, see Compile and Load
    Physics,     \* subset of {"local", "mujoco"}
    Budget,      \* option_max_primitive_steps
    RecoveryLimit   \* option_recovery_limit of the option trainer

VARIABLES
    site,        \* the site at hand, its controller and its physics
    order,       \* installation_order; a part is its place in the declaration
    env,         \* AssemblyState and the failures queued by the physics
    attached,    \* _active_attachment_beam, 0 for none
    run          \* where the controller's loop is

vars == <<site, order, env, attached, run>>

Pair == 1..2
Phases == {"grasp", "install"}
Terminal == {"grab", "install"}
Directions == {"up", "down", "left", "right"}
Actions == {"stay"} \cup Directions \cup Terminal
Parts(s) == DOMAIN s.needs
NoPart == 0

Grid == (0..Size - 1) \X (0..Size - 1)

\* The first of a sequence that belongs to a set.
FirstIn(seq, S) == seq[SelectInSeq(seq, LAMBDA x : x \in S)]

Fresh(s) ==
    [at |-> s.starts, index |-> 0, carrying |-> FALSE, installed |-> <<>>, steps |-> 0,
     attempts |-> [k \in Parts(s) \X Phases |-> 0], queued |-> [k \in Parts(s) \X Phases |-> 0],
     failed |-> {}, recovered |-> {}, failures |-> 0, recoveries |-> 0,
     collisions |-> 0, hits |-> 0, invalid |-> 0, deadlocks |-> 0, wasted |-> 0]

NoMilestones == [first |-> 0, pickup |-> 0, second |-> 0]
Loop(phase, active) ==
    [phase |-> phase, active |-> active, option |-> "none", used |-> 0, decisions |-> 0,
     reset |-> 0, reposition |-> 0, milestones |-> NoMilestones]

\* A site whose joint actions are played by some physics.
PlayedBy(s, p) ==
    [f \in DOMAIN s \cup {"physics"} |-> IF f = "physics" THEN p ELSE s[f]]

Init ==
    /\ \E s \in Sites, p \in Physics : site = PlayedBy(s, p)
    /\ order = <<>> /\ env = Fresh(site) /\ attached = NoPart
    /\ run = Loop("load", 0)

-----------------------------------------------------------------------------
(* From a blueprint to a scenario (blueprint.py, models.py).               *)

\* Seeded fault: dependencies are looked up, but not waited for.
OrderAsDeclared(s) == [i \in Parts(s) |-> i]

\* _stable_topological_order; shorter than the parts when there is a cycle.
InstallationOrder(s) ==
    LET upTo[k \in 0..Cardinality(Parts(s))] ==
            IF k = 0 THEN <<>>
            ELSE LET done  == upTo[k - 1]
                     ready == {p \in Parts(s) : p \notin Range(done) /\ s.needs[p] \subseteq Range(done)}
                 IN IF ready = {} THEN done ELSE Append(done, Min(ready))
    IN upTo[Cardinality(Parts(s))]

Reserved(s) == s.starts \o FlattenSeq(s.pickup) \o FlattenSeq(s.assembly)

\* _validate_geometry: every cell is in the grid and has one use.
GeometryValid(s) ==
    /\ Range(Reserved(s)) \cup s.obstacles \subseteq Grid
    /\ IsInjective(Reserved(s)) /\ Range(Reserved(s)) \cap s.obstacles = {}

\* validate_obstacle_geometry: a scenario may use a cell twice.
ObstaclesValid(s) == s.obstacles \subseteq Grid /\ Range(Reserved(s)) \cap s.obstacles = {}

\* compile_modular_blueprint; the checks of materials and assets are left out.
Compile ==
    /\ run.phase = "load" /\ site.kind = "blueprint"
    /\ LET sorted == InstallationOrder(site)
           valid  == GeometryValid(site) /\ Len(sorted) = Cardinality(Parts(site))
       IN IF valid THEN order' = sorted /\ run' = Loop("decide", Len(sorted))
                   ELSE order' = order /\ run' = Loop("refused", 0)
    /\ UNCHANGED <<site, env, attached>>

Load ==
    /\ run.phase = "load" /\ site.kind = "scenario"
    /\ IF ObstaclesValid(site)
       THEN order' = OrderAsDeclared(site) /\ run' = Loop("decide", Len(order'))
       ELSE order' = order /\ run' = Loop("refused", 0)
    /\ UNCHANGED <<site, env, attached>>

-----------------------------------------------------------------------------
(* Where the robots are, and where they should be.                         *)

\* _current_beam: past the end, the last one.
Part(e) == order[Min({e.index + 1, run.active})]
Previous(e) == order[e.index]

At(e, cells) == e.at = cells
Gap(m, n) == Max({m - n, n - m})
Apart(c, d) == Gap(c[1], d[1]) + Gap(c[2], d[2])
Distance(e, cells) == Apart(e.at[1], cells[1]) + Apart(e.at[2], cells[2])

Pickup(e)   == site.pickup[Part(e)]
Assembly(e) == site.assembly[Part(e)]
Goal(e)     == IF e.carrying THEN Assembly(e) ELSE Pickup(e)

Column(x, cells) == <<<<x, cells[1][2]>>, <<x, cells[2][2]>>>>
Staging(e) == Column(Min({Size - 1, Pickup(e)[1][1] + 1}), Pickup(e))

\* Seeded fault: the column next to the last part is not left.
CloseBy(e) ==
    IF e.index = 0 THEN Staging(e)
    ELSE LET built == site.assembly[Previous(e)]
         IN Column(Max({Pickup(e)[1][1] + 1, built[1][1]}), built)

\* _reposition_targets; the column may be one that is outside the grid.
Clear(e) ==
    IF e.index = 0 THEN Staging(e)
    ELSE LET built == site.assembly[Previous(e)]
         IN Column(Max({Pickup(e)[1][1] + 1, built[1][1] - 1}), built)

ShouldReposition(e) == ~e.carrying /\ e.index > 0 /\ At(e, site.assembly[Previous(e)])

ShouldReset(e) ==
    /\ ~e.carrying /\ e.index > 0 /\ ~At(e, Staging(e))
    /\ Max({e.at[1][1], e.at[2][1]}) > Pickup(e)[1][1] + 1

Complete(e) == e.index >= run.active
Done(e) == Complete(e) \/ e.steps >= site.maxSteps

-----------------------------------------------------------------------------
(* A joint action (step).                                                  *)

\* _apply_motion: the edge of the grid stops a robot.
Move(c, a) ==
    CASE a = "up"    -> <<c[1], Max({0, c[2] - 1})>>
      [] a = "down"  -> <<c[1], Min({Size - 1, c[2] + 1})>>
      [] a = "left"  -> <<Max({0, c[1] - 1}), c[2]>>
      [] a = "right" -> <<Min({Size - 1, c[1] + 1}), c[2]>>
      [] OTHER       -> c

\* Seeded fault: robots may swap their cells through each other.
StepThrough(e, a) ==
    LET To(i) == IF Move(e.at[i], a[i]) \in site.obstacles THEN e.at[i] ELSE Move(e.at[i], a[i])
    IN [e EXCEPT !.at = <<To(1), To(2)>>]

StepIndependent(e, a) ==
    LET hit  == {i \in Pair : Move(e.at[i], a[i]) \in site.obstacles \ {e.at[i]}}
        To(i) == IF i \in hit THEN e.at[i] ELSE Move(e.at[i], a[i])
        to   == <<To(1), To(2)>>
        met  == to[1] = to[2] \/ (to[1] = e.at[2] /\ to[2] = e.at[1])
        held == to = e.at /\ \E i \in Pair : a[i] \notin Terminal
        bump == IF met THEN Cardinality(hit) + 1 ELSE Cardinality(hit)
    IN [e EXCEPT !.at = IF met THEN @ ELSE to,
                 !.hits = @ + Cardinality(hit),
                 !.collisions = @ + bump,
                 !.deadlocks = IF ~met /\ held THEN @ + 1 ELSE @]

Offset(cells) == <<cells[2][1] - cells[1][1], cells[2][2] - cells[1][2]>>

\* The part is rigid: the robots keep their places relative to each other.
StepCarrying(e, a) ==
    LET to == <<Move(e.at[1], a[1]), Move(e.at[2], a[1])>>
    IN CASE a[1] # a[2]        -> [e EXCEPT !.deadlocks = @ + 1]
         [] a[1] \in Terminal /\ a[1] = a[2] -> e
         [] OTHER ->
              IF \E i \in Pair : to[i] \in site.obstacles
              THEN [e EXCEPT !.collisions = @ + 1, !.hits = @ + 1]
              ELSE IF to[1] = to[2] THEN [e EXCEPT !.collisions = @ + 1]
              ELSE IF Offset(to) # Offset(e.at) THEN [e EXCEPT !.invalid = @ + 1]
              ELSE [e EXCEPT !.at = to]

FailFirst(key) == IF key \in DOMAIN site.fails THEN site.fails[key] ELSE 0

\* Seeded fault: every success after a failure counts as a recovery.
AttemptCountingAll(e, phase) ==
    LET key == <<Part(e), phase>>
        bad == e.attempts[key] + 1 <= FailFirst(key)
        tried == [e EXCEPT !.attempts[key] = @ + 1, !.queued[key] = 0]
    IN IF bad THEN [tried EXCEPT !.failures = @ + 1, !.failed = @ \cup {key}]
       ELSE LET ok == [tried EXCEPT !.recoveries = IF e.failed # {} THEN @ + 1 ELSE @]
            IN IF phase = "grasp" THEN [ok EXCEPT !.carrying = TRUE]
               ELSE [ok EXCEPT !.carrying = FALSE, !.index = @ + 1,
                               !.installed = Append(@, Part(e))]

\* _attempt_manipulation, and what step makes of its answer.
Attempt(e, phase) ==
    LET key    == <<Part(e), phase>>
        queued == e.queued[key] > 0
        bad    == queued \/ e.attempts[key] + 1 <= FailFirst(key)
        again  == key \in e.failed \ e.recovered
        tried  == [e EXCEPT !.attempts[key] = @ + 1, !.queued[key] = IF queued THEN @ - 1 ELSE @]
    IN IF bad THEN [tried EXCEPT !.failures = @ + 1, !.failed = @ \cup {key}]
       ELSE LET ok == IF again THEN [tried EXCEPT !.recoveries = @ + 1, !.recovered = @ \cup {key}]
                      ELSE tried
            IN IF phase = "grasp" THEN [ok EXCEPT !.carrying = TRUE]
               ELSE [ok EXCEPT !.carrying = FALSE, !.index = @ + 1,
                               !.installed = Append(@, Part(e))]

Both(a, action) == a[1] = action /\ a[2] = action

Manipulate(e, cells, phase) ==
    IF At(e, cells) THEN Attempt(e, phase) ELSE [e EXCEPT !.invalid = @ + 1]

Step(e, a) ==
    LET moved   == IF e.carrying THEN StepCarrying(e, a) ELSE StepIndependent(e, a)
        grasped == IF ~e.carrying /\ Both(a, "grab")
                   THEN Manipulate(moved, Pickup(e), "grasp") ELSE moved
        ended   == IF grasped.carrying /\ Both(a, "install")
                   THEN Manipulate(grasped, Assembly(e), "install") ELSE grasped
        wasted  == \/ ended.collisions > e.collisions \/ ended.invalid > e.invalid
                   \/ ended.deadlocks > e.deadlocks \/ ended.failures > e.failures
    IN [ended EXCEPT !.wasted = IF wasted THEN @ + 1 ELSE @, !.steps = @ + 1]

-----------------------------------------------------------------------------
(* The physical backend around a step.                                     *)

\* _queue_physical_manipulation_failure; firm: alignment and grip hold.
Checked(e, a, firm) ==
    LET phase == IF Both(a, "grab") THEN "grasp" ELSE "install"
        ready == \/ Both(a, "grab") /\ ~e.carrying /\ At(e, Pickup(e))
                 \/ Both(a, "install") /\ e.carrying /\ At(e, Assembly(e))
        passed == firm /\ (phase = "install" => attached = Part(e))
    IN IF site.physics = "mujoco" /\ ready /\ ~passed
       THEN [e EXCEPT !.queued[<<Part(e), phase>>] = @ + 1] ELSE e

\* Seeded fault: the part is not let go when it is installed.
NeverDetached(e, new) ==
    CASE site.physics = "mujoco" /\ ~e.carrying /\ new.carrying -> Part(e)
      [] OTHER -> attached

\* _activate_beam_attachment, _deactivate_beam_attachment
Attachment(e, new) ==
    CASE site.physics = "mujoco" /\ ~e.carrying /\ new.carrying -> Part(e)
      [] site.physics = "mujoco" /\ e.carrying /\ ~new.carrying -> NoPart
      [] OTHER -> attached

\* What one of some joint actions does, to the logic and to the physics.
Play(joint) ==
    \E a \in joint :
    \E firm \in IF site.physics = "mujoco" /\ a[1] \in Terminal THEN BOOLEAN ELSE {TRUE} :
        /\ env' = Step(Checked(env, a, firm), a)
        /\ attached' = Attachment(env, env')

-----------------------------------------------------------------------------
(* The next joint action of an option.                                     *)

Beside == [c \in Grid |-> {Move(c, a) : a \in Actions}]
Neighbours(C) == UNION {Beside[c] : c \in C}

\* _ordered_neighbors: towards the target first, across before along.
Preference(c, target) ==
    LET across == IF target[1] > c[1] THEN "right" ELSE "left"
        along  == IF target[2] > c[2] THEN "down" ELSE "up"
    IN (IF target[1] # c[1] THEN <<across>> ELSE <<>>)
       \o (IF target[2] # c[2] THEN <<along>> ELSE <<>>)
       \o <<"right", "left", "down", "up">>

\* The cells from which the target is one step nearer than from the start.
Nearer(start, target, open) ==
    LET within[k \in 0..Cardinality(open)] ==
            IF k = 0 THEN {target} \cap open
            ELSE LET known == within[k - 1]
                 IN IF start \in Neighbours(known) THEN known ELSE Neighbours(known) \cap open
        near == within[Cardinality(open)]
    IN IF start # target /\ start \in Neighbours(near) THEN near ELSE {}

\* _shortest_path and _motion_between: the breadth-first search finds the path
\* whose first step is the most preferred of those on a shortest path.
Towards(start, target, open) ==
    LET onPath == {a \in Directions : Move(start, a) \in Nearer(start, target, open)}
    IN IF onPath = {} THEN "stay" ELSE FirstIn(Preference(start, target), onPath)

Open == Grid \ site.obstacles
Other(i) == 3 - i

\* Each robot on its own shortest path.  Seeded fault in JointTowards: conflicts or not.
EachOnItsOwn(e, targets) ==
    <<Towards(e.at[1], targets[1], Open), Towards(e.at[2], targets[2], Open)>>

Alone(i, a) == IF i = 1 THEN <<a, "stay">> ELSE <<"stay", a>>
Around(e, targets, i) == Towards(e.at[i], targets[i], Open \ {e.at[Other(i)]})

\* _resolve_independent_conflict: one of the two goes first, past the other.
Resolved(e, targets, own) ==
    LET to    == <<Move(e.at[1], own[1]), Move(e.at[2], own[2])>>
        clash == to[1] = to[2] \/ (to[1] = e.at[2] /\ to[2] = e.at[1])
        first == IF Around(e, targets, 1) # "stay" THEN 1 ELSE 2
    IN IF clash THEN Alone(first, Around(e, targets, first)) ELSE own

\* _joint_actions_towards: a robot that is there already stays out of the way.
JointTowards(e, targets) ==
    LET away == {i \in Pair : e.at[i] # targets[i]}
    IN IF Cardinality(away) = 1 THEN LET i == Max(away) IN Alone(i, Around(e, targets, i))
       ELSE Resolved(e, targets, EachOnItsOwn(e, targets))

\* _rigid_shortest_path: the pair moves as one, if it stands as it will have to.
RigidTowards(e, targets) ==
    LET offset == Offset(e.at)
        open   == {c \in Open : <<c[1] + offset[1], c[2] + offset[2]>> \in Open}
        action == IF offset = Offset(targets) THEN Towards(e.at[1], targets[1], open) ELSE "stay"
    IN <<action, action>>

\* _actions_for_option and _option_completed
Target(e, option) ==
    CASE option = "reset"      -> Staging(e)
      [] option = "reposition" -> Clear(e)
      [] option = "pickup"     -> Pickup(e)
      [] option = "assembly"   -> Assembly(e)
      [] option = "align"      -> Goal(e)

ActionsFor(e, option) ==
    IF option = "assembly" \/ (option = "align" /\ e.carrying)
    THEN RigidTowards(e, Target(e, option)) ELSE JointTowards(e, Target(e, option))

-----------------------------------------------------------------------------
(* What a controller may choose, and what each of them chooses.            *)

AtOnce == [o \in {"wait"} \cup Terminal |-> IF o = "wait" THEN "stay" ELSE o]

\* get_team_option_mask
Mask(e) ==
    LET ready == At(e, Goal(e))
        near  == ~ready /\ Distance(e, Goal(e)) <= 2
    IN IF Complete(e) THEN {"wait"}
       ELSE {"wait"}
            \cup (IF near THEN {"align"} ELSE {})
            \cup (CASE e.carrying /\ ready  -> {"install"}
                    [] e.carrying /\ ~ready -> {"assembly"}
                    [] ~e.carrying /\ ready -> {"grab"}
                    [] OTHER                -> {"pickup"})
            \cup (IF ShouldReposition(e) THEN {"reposition"} ELSE {})
            \cup (IF ShouldReset(e) THEN {"reset"} ELSE {})

\* scripted_team_option
Scripted(e) ==
    LET terminal == IF e.carrying THEN "install" ELSE "grab"
        far      == IF e.carrying THEN "assembly" ELSE "pickup"
    IN CASE Complete(e) -> "wait"
         [] ~Complete(e) /\ ShouldReposition(e) -> "reposition"
         [] OTHER ->
              IF ShouldReset(e) THEN "reset"
              ELSE IF At(e, Goal(e)) THEN terminal
              ELSE IF Distance(e, Goal(e)) <= 2 THEN "align" ELSE far

\* _masked_option_array: recoveries are limited, unless the script is followed.
Learned(e) ==
    (Mask(e) \ ((IF run.reset >= RecoveryLimit THEN {"reset"} ELSE {})
                \cup (IF run.reposition >= RecoveryLimit THEN {"reposition"} ELSE {})))
    \cup {Scripted(e)}

\* Seeded fault: the pair aligns before it clears the last part's place.
AlignFirst(e) ==
    LET priority == IF e.carrying THEN <<"install", "align", "assembly", "wait">>
                    ELSE <<"align", "reposition", "reset", "grab", "pickup", "wait">>
    IN FirstIn(priority, Mask(e))

\* _select_structured_option
Structured(e) ==
    LET priority == IF e.carrying THEN <<"install", "align", "assembly", "wait">>
                    ELSE <<"reposition", "reset", "grab", "align", "pickup", "wait">>
    IN FirstIn(priority, Mask(e))

\* _blueprint_slot_completed: by the part's name, or by the cells of one.
SlotCompleted(e, p) ==
    \E q \in Range(e.installed) : q = p \/ Range(site.assembly[q]) = Range(site.assembly[p])

\* _blocked_prerequisites of the active assignment; a scenario names none.
Blocked(e) == ~Complete(e) /\ \E p \in site.needs[Part(e)] : ~SlotCompleted(e, p)

\* _terminal_safety_hold_reason: a sensor or the camera is not ready for the terminal
\* action that is due.
HoldReason(e, unready) == unready /\ Mask(e) \cap Terminal # {}

Decided(e, unready) ==
    IF Blocked(e) \/ HoldReason(e, unready) THEN "wait" ELSE Structured(e)

\* scripted_joint_policy; it knows of no obstacle and of no other robot.
Policy(e) ==
    LET goal == Goal(e)
        last == IF e.carrying THEN "install" ELSE "grab"
        Go(c, target) == IF c = target THEN last ELSE Preference(c, target)[1]
        own == <<Go(e.at[1], goal[1]), Go(e.at[2], goal[2])>>
    IN CASE Complete(e) -> <<"stay", "stay">>
         [] ~Complete(e) /\ e.carrying /\ ~At(e, goal) -> <<own[1], own[1]>>
         [] OTHER -> own

-----------------------------------------------------------------------------
(* The loops around the environment.                                       *)

Ended(e) == IF Done(e) THEN "over" ELSE "decide"

\* _record_option_result; a recovery counts up to the limit it is held against.
Record(r, option, e, new) ==
    LET took  == ~e.carrying /\ new.carrying
        built == new.index > e.index
        Mark(name, happened, place) ==
            IF happened /\ e.index = place /\ r.milestones[name] = 0
            THEN new.steps ELSE r.milestones[name]
        Count(name) == IF option = name THEN Min({r[name] + 1, RecoveryLimit}) ELSE r[name]
    IN [r EXCEPT !.reset = Count("reset"), !.reposition = Count("reposition"),
                 !.milestones = [first  |-> Mark("first", built, 0),
                                 pickup |-> Mark("pickup", took, 1),
                                 second |-> Mark("second", built, 1)]]

\* Joint actions: any at all, or those of the scripted policy.
Act ==
    /\ run.phase = "decide" /\ site.controller \in {"free", "joint"}
    /\ Play(IF site.controller = "joint" THEN {Policy(env)} ELSE Actions \X Actions)
    /\ run' = [run EXCEPT !.phase = Ended(env')]
    /\ UNCHANGED <<site, order>>

Chosen ==
    CASE site.controller = "scripted" -> {Scripted(env)}
      [] site.controller = "learned"  -> Learned(env)
      [] site.controller = "brain"    ->
            {Decided(env, u) : u \in IF site.physics = "mujoco" THEN BOOLEAN ELSE {FALSE}}
      [] OTHER -> {}

\* The brain's loop gives up after as many decisions as the episode has steps.
Exhausted == site.controller = "brain" /\ run.decisions >= site.maxSteps
Counted == IF site.controller = "brain" THEN run.decisions + 1 ELSE 0

\* execute_team_option with an option of one step.
ChooseAtOnce ==
    /\ run.phase = "decide" /\ ~Exhausted
    /\ \E option \in Chosen \cap DOMAIN AtOnce :
        /\ Play({<<AtOnce[option], AtOnce[option]>>})
        /\ run' = [Record(run, option, env, env') EXCEPT !.phase = Ended(env'),
                                                         !.decisions = Counted]
    /\ UNCHANGED <<site, order>>

\* execute_team_option with one that moves; it may be over before it begins.
ChooseMove ==
    /\ run.phase = "decide" /\ ~Exhausted
    /\ \E option \in Chosen \ DOMAIN AtOnce :
        IF At(env, Target(env, option))
        THEN run' = [Record(run, option, env, env) EXCEPT !.decisions = Counted]
        ELSE run' = [run EXCEPT !.phase = "move", !.option = option, !.decisions = Counted]
    /\ UNCHANGED <<site, order, env, attached>>

GiveUp ==
    /\ run.phase = "decide" /\ Exhausted
    /\ run' = [run EXCEPT !.phase = "raised"]
    /\ UNCHANGED <<site, order, env, attached>>

\* One turn of the loop of execute_team_option.
Primitive ==
    /\ run.phase = "move"
    /\ Play({ActionsFor(env, run.option)})
    /\ LET over == \/ At(env', Target(env', run.option)) \/ run.used + 1 >= Budget
                   \/ Done(env')
       IN run' = IF over
                 THEN [Record(run, run.option, env', env') EXCEPT
                          !.phase = Ended(env'), !.option = "none", !.used = 0]
                 ELSE [run EXCEPT !.used = @ + 1]
    /\ UNCHANGED <<site, order>>

\* set_curriculum_stage and reset; only the trainers build fewer parts.
NewEpisode ==
    /\ run.phase = "over"
    /\ \E active \in IF site.controller = "learned" THEN 1..Len(order) ELSE {Len(order)} :
        run' = Loop("decide", active)
    /\ env' = Fresh(site) /\ attached' = NoPart
    /\ UNCHANGED <<site, order>>

Next ==
    \/ Compile \/ Load
    \/ Act \/ ChooseAtOnce \/ ChooseMove \/ Primitive \/ GiveUp
    \/ NewEpisode

\* Nothing is left to do, or an option is chosen that is over where it begins.
Idle ==
    \/ run.phase \in {"refused", "raised"}
    \/ run.phase = "decide" /\ \E option \in Chosen \ DOMAIN AtOnce : At(env, Target(env, option))

\* The loops go on calling the environment, as weak fairness of Next would say too;
\* Idle stands for what may be a state without a step that changes it.
Fairness == []<>Idle \/ []<><<Next>>_vars

Spec == Init /\ [][Next]_vars /\ Fairness

-----------------------------------------------------------------------------
Built == Range(env.installed)
Loaded == run.phase \notin {"load", "refused"}
ByOptions == site.controller \in {"scripted", "learned", "brain"}

\* The robots never share a cell or stand on an obstacle, whatever is asked of
\* them, and hold a part the way they took it; what is built is the order's
\* beginning; the books of attempts, failures and recoveries agree with each
\* other; and the physics holds the part that the logic carries.
AssemblySound == Loaded =>
    /\ env.at[1] # env.at[2] /\ Range(env.at) \subseteq Open
    /\ env.carrying => Offset(env.at) = Offset(Pickup(env))
    /\ env.installed = SubSeq(order, 1, env.index)
    /\ \A k \in DOMAIN env.queued : env.queued[k] = 0
    /\ env.recovered \subseteq env.failed /\ env.recoveries = Cardinality(env.recovered)
    /\ \A p \in Built : \A phase \in Phases :
        <<p, phase>> \in env.failed => <<p, phase>> \in env.recovered
    /\ env.failures + 2 * env.index + (IF env.carrying THEN 1 ELSE 0)
        = FoldSet(LAMBDA k, n : n + env.attempts[k], 0, DOMAIN env.attempts)
    /\ site.physics = "mujoco" => attached = (IF env.carrying THEN Part(env) ELSE NoPart)

\* The next option is over where the robots stand, because the next part lies
\* one column before the last one: a script repeats it for ever.
Stalled ==
    /\ Loaded /\ ~Complete(env) /\ ShouldReposition(env)
    /\ Pickup(env)[1][1] + 1 = site.assembly[Previous(env)][1][1]

\* Scripts and brains choose alike and among what is offered, and run into
\* nothing; no part of a compiled blueprint waits for a later one; the work is
\* complete when all its slots are; the milestones come in their order; and a
\* brain gives up only where its script would repeat itself for ever.
PlannersAgree == Loaded =>
    /\ Scripted(env) \in Mask(env) /\ Structured(env) = Scripted(env) /\ ~Blocked(env)
    /\ site.controller \in {"scripted", "brain"} => env.collisions = 0 /\ env.invalid = 0
    /\ Complete(env) <=> \A i \in 1..run.active : SlotCompleted(env, order[i])
    /\ run.phase = "raised" => Stalled
    /\ LET m == run.milestones IN ByOptions =>
        /\ m.first > 0 <=> env.index > 0
        /\ m.second > 0 <=> env.index > 1
        /\ m.pickup > 0 => m.first > 0 /\ m.first < m.pickup
        /\ m.second > 0 => m.pickup > 0 /\ m.pickup < m.second

\* A script, a brain or a sequence of actions comes to the end of its episode,
\* except where it is Stalled; a trained policy may choose a finished option
\* again and again.
EpisodeEnds ==
    []<>(\/ run.phase \in {"over", "refused", "raised"} \/ Stalled
         \/ site.controller = "learned")
=============================================================================
