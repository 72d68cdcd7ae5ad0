--------------------------- MODULE DynamicExecutor ---------------------------
(***************************************************************************)
(* A build that is driven in CoppeliaSim (coppelia_dynamic.py): decision   *)
(* after decision of the temporal environment, the teams drive to their    *)
(* modules, take them up, carry them and install them, all before the next *)
(* decision.  The environment, of which ConstructionEnv is the model, only *)
(* assigns modules that can be built and may drop one that is on its way.  *)
(* Positions are left open: who has arrived and who is too close to whom   *)
(* is anybody's guess at every control step.                               *)
(***************************************************************************)
EXTENDS Integers, FiniteSetsExt

CONSTANTS
    Robots,         \* 1..n, in the order of their ids and of a route's dictionary
    Modules, Deps, TeamSize,
    PathLength,     \* waypoints of every route
    MaxSteps        \* max_steps_per_waypoint

VARIABLES
    logical,        \* what the environment says of a module: todo, active or done
    pc,
    assigned,       \* the assignments that are carried out: <<module, team>>
    waypoint, steps,   \* waypoint_indices and steps_at_waypoint of follow_routes
    driven,         \* robots whose wheels have a target velocity
    attachments,    \* logical_attachments: <<module, team>>
    installed       \* installed_modules

vars == <<logical, pc, assigned, waypoint, steps, driven, attachments, installed>>

Init ==
    /\ logical = [m \in Modules |-> "todo"]
    /\ pc = "start" /\ assigned = {}
    /\ waypoint = [r \in Robots |-> 1] /\ steps = [r \in Robots |-> 0]
    /\ driven = {} /\ attachments = {} /\ installed = {}

Done == {m \in Modules : logical[m] = "done"}
Active == {m \in Modules : logical[m] = "active"}
Ready == {m \in Modules : logical[m] = "todo" /\ Deps[m] \subseteq Done}
Driving == {"approach", "carry"}

\* The robots may not have settled on the floor.
Start ==
    /\ pc = "start" /\ pc' \in {"decide", "stop"}
    /\ UNCHANGED <<logical, assigned, waypoint, steps, driven, attachments, installed>>

\* One step of the environment.  Its clock goes on to the next event: jobs end, those
\* it has just started too, or a module is dropped and will be assigned again.
Decide ==
    /\ pc = "decide"
    /\ \E teams \in SUBSET {p \in Ready \X SUBSET Robots : Cardinality(p[2]) = TeamSize[p[1]]} :
        LET new == {p[1] : p \in teams} IN
        /\ \A p, q \in teams : p # q => p[1] # q[1] /\ p[2] \cap q[2] = {}
        /\ \E ended, dropped \in SUBSET (Active \cup new) :
            /\ ended \cap dropped = {}
            /\ logical' = [m \in Modules |->
                    CASE m \in ended -> "done" [] m \in dropped -> "todo"
                      [] m \in new \ (ended \cup dropped) -> "active" [] OTHER -> logical[m]]
        /\ assigned' = teams
        /\ pc' = IF teams = {} THEN "decide" ELSE "approach"
    /\ UNCHANGED <<waypoint, steps, driven, attachments, installed>>

\* The episode is over, or the decisions are.
EndEpisode ==
    /\ pc = "decide" /\ pc' = "stop"
    /\ UNCHANGED <<logical, assigned, waypoint, steps, driven, attachments, installed>>

-----------------------------------------------------------------------------
(* follow_routes.                                                          *)

Team == UNION {p[2] : p \in assigned}
Underway == {r \in Team : waypoint[r] <= PathLength}

\* _unsafe_proximity: the robot with the greater id gives way, also to one that has
\* come to its end.
Yields(r, close) == \E q \in Team \ {r} : {q, r} \in close /\ r > q

\* Seeded fault: who gives way begins to count anew.
StepsAnew(r, close) == IF Yields(r, close) THEN 0 ELSE steps[r] + 1

\* A robot that waits and one that drives have used up one more step.
StepsUsed(r, close) == steps[r] + 1

\* One turn of the loop; it ends at the first robot, in the order of the
\* assignments, that has used up its steps.
ControlStep ==
    /\ pc \in Driving /\ Underway # {}
    /\ \E arrived \in SUBSET Underway, close \in SUBSET kSubset(2, Team), seen \in SUBSET Team :
        LET left  == Underway \ arrived
            stuck == {r \in left : StepsUsed(r, close) > MaxSteps}
            goes  == {r \in left \cap seen : ~Yields(r, close)}
        IN  /\ IF stuck = {} THEN seen = Team ELSE Cardinality(stuck \cap seen) = 1
            /\ waypoint' = [r \in Robots |-> IF r \in arrived \cap seen THEN waypoint[r] + 1
                                             ELSE waypoint[r]]
            /\ steps' = [r \in Robots |-> CASE r \in arrived \cap seen -> 0
                                            [] r \in left \cap seen -> StepsUsed(r, close)
                                            [] OTHER -> steps[r]]
            /\ driven' = (driven \ seen) \cup goes
            /\ pc' = IF stuck = {} THEN pc ELSE "stop"
    /\ UNCHANGED <<logical, assigned, attachments, installed>>

\* Everybody has arrived and is stopped.
Hold ==
    /\ pc \in Driving /\ Underway = {}
    /\ driven' = driven \ Team
    /\ pc' = IF pc = "approach" THEN "attach" ELSE "install"
    /\ waypoint' = [r \in Robots |-> 1] /\ steps' = [r \in Robots |-> 0]
    /\ UNCHANGED <<logical, assigned, attachments, installed>>

\* The modules of a decision one after the other, until one team is out of place.
Attach ==
    /\ pc = "attach"
    /\ LET left == assigned \ attachments IN
        \/ left = {} /\ pc' = "carry" /\ UNCHANGED attachments
        \/ left # {} /\ pc' = "stop" /\ UNCHANGED attachments
        \/ \E p \in left : attachments' = attachments \cup {p} /\ UNCHANGED pc
    /\ UNCHANGED <<logical, assigned, waypoint, steps, driven, installed>>

Install ==
    /\ pc = "install"
    /\ \/ attachments = {} /\ pc' = "decide" /\ UNCHANGED <<attachments, installed>>
       \/ attachments # {} /\ pc' = "stop" /\ UNCHANGED <<attachments, installed>>
       \/ \E p \in attachments :
            /\ attachments' = attachments \ {p} /\ installed' = installed \cup {p[1]}
            /\ UNCHANGED pc
    /\ UNCHANGED <<logical, assigned, waypoint, steps, driven>>

\* Seeded fault: the simulation is stopped, but not the wheels.
StopSimulation ==
    /\ pc = "stop" /\ pc' = "over"
    /\ UNCHANGED <<logical, assigned, waypoint, steps, driven, attachments, installed>>

\* finally: self.stop()
Stop ==
    /\ pc = "stop" /\ pc' = "over" /\ driven' = {}
    /\ UNCHANGED <<logical, assigned, waypoint, steps, attachments, installed>>

Next == Start \/ Decide \/ EndEpisode \/ ControlStep \/ Hold \/ Attach \/ Install \/ Stop

\* The loop is one thread that never waits; deciding again and again is the
\* environment's choice.
Spec == Init /\ [][Next]_vars /\ WF_vars(Next)

-----------------------------------------------------------------------------
\* Wheels turn only on a route, and not after the run, however it ends; what is
\* carried is carried by a team of its own, and by none between two decisions; and
\* although the environment may be done with a module before a robot has moved, all
\* it has ever counted stands when it is asked again.
DrivenSound ==
    /\ driven # {} => pc \in Driving \cup {"stop"} /\ driven \subseteq Team
    /\ attachments \subseteq assigned
    /\ \A p, q \in attachments : p # q => p[1] # q[1] /\ p[2] \cap q[2] = {}
    /\ pc = "decide" => attachments = {} /\ Done \cup Active \subseteq installed

\* Every decision is carried out or the run is over: no route is endless.
RoutesEnd == []<>(pc \in {"decide", "over"})
=============================================================================
