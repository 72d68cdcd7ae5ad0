----------------------------- MODULE RouteTable -----------------------------
(***************************************************************************)
(* Prioritized routing with a reservation table (routing.py): one agent    *)
(* after the other gets a shortest path that keeps clear of the cells and  *)
(* edges reserved by the agents before it, and holds its goal for good.    *)
(* A* with a consistent heuristic returns a path of least duration; which  *)
(* of several is left open.                                                *)
(***************************************************************************)
EXTENDS Integers, SequencesExt

CONSTANTS
    Agents,           \* 1..n, in the order of their ids
    Width, Height,
    Blockings,        \* sets of obstacle cells
    Starts, Goals,    \* cells that requests name
    MaxLength         \* max_length

VARIABLES
    obstacles, start, goal,   \* the request, in cells
    next,                     \* the agent to be routed; beyond the last one at the end
    paths,                    \* of the agents routed so far
    vertexReservations,       \* <<cell, time>>
    edgeReservations,         \* <<from, to, time of arrival>>
    outcome                   \* routing, a RoutePlan, or RoutingError

vars == <<obstacles, start, goal, next, paths, vertexReservations, edgeReservations, outcome>>

Cells == (0..(Width - 1)) \X (0..(Height - 1))
Abs(n) == IF n < 0 THEN -n ELSE n
Manhattan(c, d) == Abs(c[1] - d[1]) + Abs(c[2] - d[2])

\* To wait or to move on by one cell.
Moves(c) == {d \in Cells \ obstacles : Manhattan(c, d) <= 1}

Init ==
    /\ obstacles \in Blockings
    /\ start \in [Agents -> Starts] /\ goal \in [Agents -> Goals]
    /\ next = 1 /\ paths = <<>> /\ outcome = "routing"
    /\ vertexReservations = {} /\ edgeReservations = {}

\* Where an agent is at a time: it stays at the end of its path.
At(path, t) == path[Min({t + 1, Len(path)})]

\* Seeded fault: the goal is not held once it is reached.
CellsOnTheWay(p) == {<<p[i], i - 1>> : i \in 1..Len(p)}

\* _reserve_path: the cells of the path, and its last one up to the horizon.
CellsOf(p) == {<<At(p, t), t>> : t \in 0..MaxLength}
EdgesOf(p) == {<<p[i], p[i + 1], i>> : i \in 1..(Len(p) - 1)}

\* The cells that can follow c, entered at time t.
Successors(c, t) ==
    {d \in Moves(c) : <<d, t>> \notin vertexReservations /\ <<d, c, t>> \notin edgeReservations}

\* Nobody else has reserved the goal from a time on.
Settled(g, t) == \A u \in t..MaxLength : <<g, u>> \notin vertexReservations

\* Where agent a can be after t steps.
Reach(a) ==
    LET cells[t \in 0..MaxLength] ==
            IF t = 0 THEN {start[a]}
            ELSE LET before == cells[t - 1] IN UNION {Successors(c, t) : c \in before}
    IN  cells

Arrivals(a) == LET reach == Reach(a) IN {t \in 0..MaxLength : goal[a] \in reach[t] /\ Settled(goal[a], t)}

\* The paths of agent a that take n steps to its goal.
PathsOf(a, n) ==
    LET reach == Reach(a)
        upTo[t \in 0..n] ==
            IF t = 0 THEN {<<start[a]>>}
            ELSE LET before == upTo[t - 1]
                     close == {c \in reach[t] : Manhattan(c, goal[a]) <= n - t}
                 IN  UNION {{Append(p, c) : c \in Successors(Last(p), t) \cap close} : p \in before}
    IN  {p \in upTo[n] : Last(p) = goal[a]}

RouteAgent ==
    /\ outcome = "routing" /\ next \in Agents
    /\ LET blocked == {start[next], goal[next]} \cap obstacles # {}
           arrivals == IF blocked THEN {} ELSE Arrivals(next)
       IN  \/ arrivals = {} /\ outcome' = "RoutingError"
              /\ UNCHANGED <<next, paths, vertexReservations, edgeReservations>>
           \/ /\ arrivals # {}
              /\ \E p \in PathsOf(next, Min(arrivals)) :
                    /\ paths' = Append(paths, p)
                    /\ vertexReservations' = vertexReservations \cup CellsOf(p)
                    /\ edgeReservations' = edgeReservations \cup EdgesOf(p)
              /\ next' = next + 1 /\ UNCHANGED outcome
    /\ UNCHANGED <<obstacles, start, goal>>

Publish ==
    /\ outcome = "routing" /\ next \notin Agents
    /\ outcome' = "RoutePlan"
    /\ UNCHANGED <<obstacles, start, goal, next, paths, vertexReservations, edgeReservations>>

Next == RouteAgent \/ Publish

Spec == Init /\ [][Next]_vars

-----------------------------------------------------------------------------
Pairs == {p \in Agents \X Agents : p[1] < p[2]}

Meet(p, q, t) == At(p, t) = At(q, t)
Swap(p, q, t) == At(p, t - 1) = At(q, t) /\ At(q, t - 1) = At(p, t)

\* count_path_conflicts.
ConflictCount ==
    LET horizon == Max({Len(paths[a]) : a \in Agents})
        meets == {m \in Pairs \X (0..(horizon - 1)) : Meet(paths[m[1][1]], paths[m[1][2]], m[2])}
        swaps == {m \in Pairs \X (1..(horizon - 1)) : Swap(paths[m[1][1]], paths[m[1][2]], m[2])}
    IN  Cardinality(meets) + Cardinality(swaps)

\* A plan leads everybody to its goal past the obstacles, and although the first
\* cell of a path is never looked up in the reservations, its paths conflict where
\* two agents start in the same cell and nowhere else, however long they stay.
RoutesDisjoint ==
    outcome = "RoutePlan" =>
        /\ \A a \in Agents :
            /\ paths[a][1] = start[a] /\ Last(paths[a]) = goal[a]
            /\ \A i \in 1..Len(paths[a]) : paths[a][i] \notin obstacles
            /\ Len(paths[a]) > Manhattan(start[a], goal[a])
        /\ ConflictCount = Cardinality({p \in Pairs : start[p[1]] = start[p[2]]})
=============================================================================
