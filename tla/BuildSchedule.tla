---------------------------- MODULE BuildSchedule ----------------------------
(***************************************************************************)
(* From a house design to a construction that is played back: the compiler *)
(* (compiler.py), the validation of its plan (models.py), the sequential,  *)
(* greedy and optimized controllers (scheduler.py), one disruption of the  *)
(* finished schedule (recovery.py) and the frames of its execution trace   *)
(* (trace.py).  Modules and robots are numbered in the order of their ids. *)
(***************************************************************************)
EXTENDS Integers, SequencesExt

CONSTANTS
    Robots,           \* 1..n
    Payload, Speed,   \* of each robot
    Houses,           \* <<panels per wall, interior panels, roof rows>>
    Kinds, Sizes,     \* kinds of module, and how many, of the other plans
    PickupTime, FrameInterval,
    Delays,           \* RECOVERY_DELAY_SECONDS
    SolverSize, SolverStarts   \* bounds: plans given to the external solver, and its start times

VARIABLES
    plan,        \* deps, team, mass, work and distance of each module
    phase,       \* the part of the pipeline that comes next
    controller,
    pending,     \* modules without a job
    free,        \* robot_free of the greedy controller
    now,         \* its clock, or the cursor of the sequential one
    jobs,        \* jobs placed so far
    makespan, idleSeconds, disrupted,
    frame, installed   \* the last frame of the trace and its completed modules

vars == <<plan, phase, controller, pending, free, now, jobs, makespan, idleSeconds,
          disrupted, frame, installed>>

ModulesOf(p) == DOMAIN p.deps
Mods == ModulesOf(plan)

-----------------------------------------------------------------------------
(* Plans.                                                                  *)

\* Four foundation tiles carry the walls, one each, and the interior panels, two
\* each; the roof rests on everything that stands.  The numbers follow the ids:
\* east, foundation, interior, north, roof, south, west.
Compiled(panels, interior, rows) ==
    LET east == 1..panels
        base == panels                         \* foundation i is base + i
        inner == (base + 5)..(base + 4 + interior)
        north == (base + 5 + interior)..(base + 4 + interior + panels)
        roof == (base + 5 + interior + panels)..(base + 4 + interior + panels + 2 * rows)
        last == base + 4 + interior + panels + 2 * rows
        south == (last + 1)..(last + panels)
        west == (last + panels + 1)..(last + 2 * panels)
        foundation == (base + 1)..(base + 4)
        kind(m) == CASE m \in foundation -> [team |-> 2, mass |-> 85, work |-> 16, distance |-> 180]
                     [] m \in roof -> [team |-> 2, mass |-> 62, work |-> 18, distance |-> 140]
                     [] m \in inner -> [team |-> 1, mass |-> 28, work |-> 10, distance |-> 160]
                     [] OTHER -> [team |-> 1, mass |-> 32, work |-> 11, distance |-> 200]
        carriers(m) == CASE m \in foundation -> {}
                         [] m \in north -> {base + 1}
                         [] m \in east -> {base + 2}
                         [] m \in south -> {base + 3}
                         [] m \in west -> {base + 4}
                         [] m \in inner -> {base + 1 + ((m - base - 5) % 4), base + 1 + ((m - base - 4) % 4)}
                         [] OTHER -> east \cup north \cup south \cup west \cup inner
    IN  [deps |-> [m \in 1..(last + 2 * panels) |-> carriers(m)],
         kind |-> [m \in 1..(last + 2 * panels) |-> kind(m)]]

\* Any plan that a client may send for validation.
SmallPlans == UNION {[deps : [1..n -> SUBSET (1..n)], kind : [1..n -> Kinds]] : n \in Sizes}

\* The modules whose dependencies are all in a set.
ReadyAfter(p, order) == {m \in ModulesOf(p) \ order : p.deps[m] \subseteq order}

\* What _topological_order has taken after n rounds.
Rounds(p) ==
    LET taken[n \in 0..Cardinality(ModulesOf(p))] ==
            IF n = 0 THEN {} ELSE LET before == taken[n - 1] IN before \cup ReadyAfter(p, before)
    IN  taken

Acyclic(p) == Rounds(p)[Cardinality(ModulesOf(p))] = ModulesOf(p)

\* The order within and between the rounds.
Before(m, k) ==
    LET round(x) == Min({n \in DOMAIN Rounds(plan) : x \in Rounds(plan)[n]})
    IN  round(m) < round(k) \/ (round(m) = round(k) /\ m < k)

PayloadOf(T) == MapThenSumSet(LAMBDA r : Payload[r], T)
Groups(k) == {T \in kSubset(k.team, Robots) : PayloadOf(T) >= k.mass}

\* validate_plan compares with the strongest robots.
Strongest(k) == LET weaker(r) == {q \in Robots : Payload[q] > Payload[r] \/ (Payload[q] = Payload[r] /\ q > r)}
                IN  {r \in Robots : Cardinality(weaker(r)) < k}
Valid(p) ==
    /\ \A m \in ModulesOf(p) :
        /\ m \notin p.deps[m]
        /\ p.kind[m].team <= Cardinality(Robots)
        /\ PayloadOf(Strongest(p.kind[m].team)) >= p.kind[m].mass
    /\ Acyclic(p)

-----------------------------------------------------------------------------
(* Schedules.                                                              *)

\* The fastest team first, then by id.
Preferred(T, U) ==
    LET speed(V) == MapThenSumSet(LAMBDA r : Speed[r], V)
    IN  T # U /\ (speed(T) > speed(U) \/ (speed(T) = speed(U) /\ Min(SymDiff(T, U)) \in T))

First(teams) == CHOOSE T \in teams : \A U \in teams \ {T} : Preferred(T, U)

CeilDiv(a, b) == (a + b - 1) \div b
Duration(k, T) == PickupTime + CeilDiv(k.distance, Min({Speed[r] : r \in T})) + k.work

Job(m, T, start) ==
    [module |-> m, team |-> T, start |-> start, pickup |-> start + PickupTime,
     end |-> start + Duration(plan.kind[m], T)]

EndOf(m) == (CHOOSE j \in jobs : j.module = m).end
Ends == {j.end : j \in jobs}

\* Seeded fault: a job counts as completed when it has started.
CompletedAtStart == {j.module : j \in {k \in jobs : k.start <= now}}

Completed == {j.module : j \in {k \in jobs : k.end <= now}}

\* The longest chain of modules that wait for m, itself included.
Depth(m) ==
    LET under[n \in 0..Cardinality(Mods)] ==
            IF n = 0 THEN {m} ELSE LET above == under[n - 1] IN {k \in Mods : plan.deps[k] \cap above # {}}
    IN  Cardinality({n \in DOMAIN under : under[n] # {}})

Init ==
    /\ plan \in {Compiled(h[1], h[2], h[3]) : h \in Houses} \cup SmallPlans
    /\ phase = "draft" /\ controller = "none"
    /\ pending = Mods /\ free = [r \in Robots |-> 0] /\ now = 0
    /\ jobs = {} /\ makespan = 0 /\ idleSeconds = 0 /\ disrupted = FALSE
    /\ frame = -FrameInterval /\ installed = {}

Validate ==
    /\ phase = "draft"
    /\ \/ ~Valid(plan) /\ phase' = "refused" /\ UNCHANGED controller
       \/ /\ Valid(plan) /\ phase' = "place"
          /\ controller' \in {"sequential", "greedy", "optimized"}
    /\ UNCHANGED <<plan, pending, free, now, jobs, makespan, idleSeconds, disrupted, frame, installed>>

Sequential ==
    /\ phase = "place" /\ controller = "sequential" /\ pending # {}
    /\ LET m == CHOOSE m \in pending : \A k \in pending \ {m} : Before(m, k)
           start == Max({now, 0} \cup {EndOf(d) : d \in plan.deps[m]})
           job == Job(m, First(Groups(plan.kind[m])), start)
       IN  /\ jobs' = jobs \cup {job} /\ now' = job.end
           /\ pending' = pending \ {m}
    /\ UNCHANGED <<plan, phase, controller, free, makespan, idleSeconds, disrupted, frame, installed>>

FreeGroups(m) == {T \in Groups(plan.kind[m]) : \A r \in T : free[r] <= now}
Ready == {m \in pending : plan.deps[m] \subseteq Completed}
Startable == {m \in Ready : FreeGroups(m) # {}}

\* One module of the greedy loop: the most critical one that some team is free for.
Greedy ==
    /\ phase = "place" /\ controller = "greedy" /\ Startable # {}
    /\ LET m == CHOOSE m \in Startable : \A k \in Startable \ {m} :
                    Depth(m) > Depth(k) \/ (Depth(m) = Depth(k) /\ m < k)
           job == Job(m, First(FreeGroups(m)), now)
       IN  /\ jobs' = jobs \cup {job} /\ pending' = pending \ {m}
           /\ free' = [r \in Robots |-> IF r \in job.team THEN job.end ELSE free[r]]
    /\ UNCHANGED <<plan, phase, controller, now, makespan, idleSeconds, disrupted, frame, installed>>

\* Otherwise its clock goes on to the next robot that becomes free; without one it
\* gives up.
GreedyWait ==
    /\ phase = "place" /\ controller = "greedy" /\ Startable = {} /\ pending # {}
    /\ LET future == {free[r] : r \in Robots} \ (0..now) IN
        \/ future = {} /\ phase' = "stuck" /\ UNCHANGED now
        \/ future # {} /\ now' = Min(future) /\ UNCHANGED phase
    /\ UNCHANGED <<plan, controller, pending, free, jobs, makespan, idleSeconds, disrupted, frame, installed>>

Horizon == MapThenSumSet(LAMBDA m : Max({Duration(plan.kind[m], T) : T \in Groups(plan.kind[m])}), Mods)

Overlap(j, k) == j # k /\ j.team \cap k.team # {} /\ j.start < k.end /\ k.start < j.end

\* Any schedule that CP-SAT's constraints admit: it may stop before the optimum.  It
\* may also reach its time limit without a schedule, which ends the controller.
\* Without OR-tools the greedy controller takes over.
Optimize ==
    /\ phase = "place" /\ controller = "optimized" /\ pending = Mods
    /\ \/ controller' = "greedy" /\ UNCHANGED <<phase, jobs, pending>>
       \/ phase' = "unsolved" /\ UNCHANGED <<controller, jobs, pending>>
       \/ /\ Cardinality(Mods) <= SolverSize
          /\ \E team \in [Mods -> SUBSET Robots], start \in [Mods -> SolverStarts] :
                LET chosen == {Job(m, team[m], start[m]) : m \in Mods} IN
                /\ \A m \in Mods : team[m] \in Groups(plan.kind[m])
                /\ \A j \in chosen : j.end <= Horizon /\
                    \A k \in chosen : ~Overlap(j, k) /\ (k.module \in plan.deps[j.module] => j.start >= k.end)
                /\ jobs' = chosen
          /\ pending' = {} /\ UNCHANGED <<phase, controller>>
    /\ UNCHANGED <<plan, free, now, makespan, idleSeconds, disrupted, frame, installed>>

Busy == MapThenSumSet(LAMBDA j : (j.end - j.start) * Cardinality(j.team), jobs)

FinishSchedule ==
    /\ phase = "place" /\ pending = {}
    /\ phase' = "scheduled" /\ makespan' = Max(Ends)
    /\ idleSeconds' = Max(Ends) * Cardinality(Robots) - Busy
    /\ UNCHANGED <<plan, controller, pending, free, now, jobs, disrupted, frame, installed>>

-----------------------------------------------------------------------------
(* Recovery and playback.                                                  *)

\* Seeded fault: only the jobs of the disrupted robots move.
DelayedTeam(t, delay) ==
    LET running == UNION {j.team : j \in {k \in jobs : k.start < t /\ k.end > t}} IN
    {IF j.start >= t /\ j.team \cap running # {}
     THEN [j EXCEPT !.start = @ + delay, !.pickup = @ + delay, !.end = @ + delay] ELSE j : j \in jobs}

\* Every job that has not started yet moves; the one that was struck does not.
Delayed(t, delay) ==
    {IF j.start >= t
     THEN [j EXCEPT !.start = @ + delay, !.pickup = @ + delay, !.end = @ + delay] ELSE j : j \in jobs}

Disrupt ==
    /\ phase = "scheduled" /\ ~disrupted
    /\ \E t \in 0..(makespan - 1), delay \in Delays :
        /\ jobs' = Delayed(t, delay)
        /\ makespan' = makespan + delay
        /\ idleSeconds' = idleSeconds + delay * Cardinality(Robots)
    /\ disrupted' = TRUE
    /\ UNCHANGED <<plan, phase, controller, pending, free, now, frame, installed>>

StartTrace ==
    /\ phase = "scheduled" /\ phase' = "trace"
    /\ UNCHANGED <<plan, controller, pending, free, now, jobs, makespan, idleSeconds, disrupted, frame, installed>>

\* Frames are taken every FrameInterval seconds, the last one at or just after the end.
BuildFrame ==
    /\ phase = "trace" /\ frame + FrameInterval < makespan + FrameInterval
    /\ frame' = frame + FrameInterval
    /\ installed' = {j.module : j \in {k \in jobs : k.end <= frame'}}
    /\ UNCHANGED <<plan, phase, controller, pending, free, now, jobs, makespan, idleSeconds, disrupted>>

Next == Validate \/ Sequential \/ Greedy \/ GreedyWait \/ Optimize \/ FinishSchedule
            \/ Disrupt \/ StartTrace \/ BuildFrame

Spec == Init /\ [][Next]_vars

-----------------------------------------------------------------------------
(* Properties.                                                             *)

\* What a frame shows of a robot (its job, 0 for none) and of a module.
Shown(r) == LET active == {j \in jobs : r \in j.team /\ j.start <= frame /\ frame < j.end}
            IN  IF active = {} THEN 0 ELSE (CHOOSE j \in active : \A k \in active : j.start <= k.start).module
Carried == {j \in jobs : j.pickup <= frame /\ frame < j.end}

\* A plan is refused exactly if somebody could never place one of its modules: a
\* cycle, or a module that no team can carry.
NoSink(p) == \A S \in SUBSET ModulesOf(p) : S # {} => \E m \in S : p.deps[m] \cap S = {}
RefusedRightly ==
    phase \in {"place", "refused"} /\ jobs = {} =>
        (phase = "refused" <=> ~(NoSink(plan) /\ \A m \in Mods : Groups(plan.kind[m]) # {}))

\* The greedy controller never gives up on a valid plan; only the solver may, when it
\* stops at its limit.  What a controller returns can be carried out, before and after
\* a disruption: every module has one capable team, robots are in one place at a time,
\* and a module starts when all it rests on stands, so that it is among the candidates
\* that the trace gives for it.  The times agree with the jobs, and the greedy
\* controller stays within the solver's horizon, so that there is a schedule to find.
ScheduleSound ==
    /\ RefusedRightly
    /\ phase # "stuck" /\ (phase = "unsolved" => controller = "optimized")
    /\ phase \in {"scheduled", "trace"} =>
        /\ {j.module : j \in jobs} = Mods /\ Cardinality(jobs) = Cardinality(Mods)
        /\ \A j \in jobs :
            /\ j.team \in Groups(plan.kind[j.module])
            /\ \A k \in jobs : ~Overlap(j, k) /\ (k.module \in plan.deps[j.module] => j.start >= k.end)
        /\ makespan >= Max(Ends) /\ (~disrupted => makespan = Max(Ends) /\ makespan <= Horizon)
        /\ idleSeconds = makespan * Cardinality(Robots) - Busy /\ idleSeconds >= 0
    /\ phase = "trace" => \A j \in Carried : \A r \in j.team : Shown(r) = j.module

\* The trace of a construction shows a build in the order of its plan.
Order == INSTANCE BuildOrder WITH parts <- Mods, needs <- plan.deps
BuildsInOrder == Order!Spec
=============================================================================
