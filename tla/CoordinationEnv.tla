--------------------------- MODULE CoordinationEnv ---------------------------
(***************************************************************************)
(* The first construction environment (marl_env.py): at every decision the *)
(* robots bid for modules, and a module whose bidders include a capable    *)
(* team is built at once.  Rewards and observations are left out.          *)
(***************************************************************************)
EXTENDS Integers, FiniteSets, FiniteSetsExt, Folds

CONSTANTS
    Robots, Payload,                 \* 1..n, in the order of their ids
    Modules, Deps, TeamSize, Mass,   \* of a plan that validate_plan accepts
    MaxDecisions,
    Controllers   \* subset of {"any", "scripted"}

VARIABLES
    controller,
    agents,       \* those still in the episode: all or none
    completed, decisionCount,
    intended,     \* the teams that the script had in mind, <<module, team>>
    assignments   \* those of the last decision

vars == <<controller, agents, completed, decisionCount, intended, assignments>>

Init ==
    /\ controller \in Controllers
    /\ agents = Robots /\ completed = {} /\ decisionCount = 0
    /\ intended = {} /\ assignments = {}

ReadyModules == {m \in Modules \ completed : Deps[m] \subseteq completed}

Stronger(a, b) == Payload[a] > Payload[b] \/ (Payload[a] = Payload[b] /\ a < b)

\* The strongest candidates, whether or not there are enough of them.
Strongest(k, candidates) ==
    {a \in candidates : Cardinality({b \in candidates : Stronger(b, a)}) < k}

\* _select_capable_team
Capable(m, team) ==
    Cardinality(team) = TeamSize[m] /\ MapThenSumSet(LAMBDA a : Payload[a], team) >= Mass[m]

\* Large teams first, then by id.
ByTeamSize(m, k) == TeamSize[m] > TeamSize[k] \/ (TeamSize[m] = TeamSize[k] /\ m < k)
LastOf(modules) == CHOOSE m \in modules : \A k \in modules \ {m} : ByTeamSize(k, m)

\* Seeded fault: the robots of a team remain available to the next module.
ScriptedTeamsOverlap ==
    {<<m, Strongest(TeamSize[m], agents)>> :
        m \in {k \in ReadyModules : Capable(k, Strongest(TeamSize[k], agents))}}

\* A team for one more module, from the robots that are left.
Place(m, placed) ==
    LET team == Strongest(TeamSize[m], agents \ UNION {p[2] : p \in placed})
    IN  IF Capable(m, team) THEN placed \cup {<<m, team>>} ELSE placed

\* scripted_coordination_actions: the last one is placed after all others.
ScriptedTeams == MapThenFoldSet(Place, {}, LAMBDA m : m, LastOf, ReadyModules)

\* The last module that wants a robot is the one it bids for.
Bids(teams) ==
    [a \in agents |-> LET wanting == {p[1] : p \in {q \in teams : a \in q[2]}}
                      IN  IF wanting = {} THEN 0 ELSE LastOf(wanting)]

\* Bids for what is not ready count for nothing; a robot has one bid, so no two
\* modules compete for it.
Step(bids) ==
    LET bidders(m) == {a \in agents : bids[a] = m}
        team(m)    == Strongest(TeamSize[m], bidders(m))
        built      == {m \in ReadyModules : Capable(m, team(m))}
        over       == completed \cup built = Modules \/ decisionCount + 1 >= MaxDecisions
    IN  /\ completed' = completed \cup built
        /\ assignments' = {<<m, team(m)>> : m \in built}
        /\ decisionCount' = decisionCount + 1
        /\ agents' = IF over THEN {} ELSE agents

Decide ==
    /\ agents # {}
    /\ \/ controller = "any" /\ intended' = {} /\ \E bids \in [agents -> {0} \cup Modules] : Step(bids)
       \/ controller = "scripted" /\ intended' = ScriptedTeams /\ Step(Bids(ScriptedTeams))
    /\ UNCHANGED controller

Reset ==
    /\ agents = {}
    /\ agents' = Robots /\ completed' = {} /\ decisionCount' = 0
    /\ intended' = {} /\ assignments' = {}
    /\ UNCHANGED controller

Next == Decide \/ Reset

Spec == Init /\ [][Next]_vars

-----------------------------------------------------------------------------
\* Whatever the robots bid, the teams of a decision share no robot, and an
\* episode is over exactly when everything stands or the decisions are used up.
\* The teams that the script has in mind come about, and each of its decisions
\* builds something, so that it needs no more of them than there are modules.
TeamsSound ==
    /\ \A p, q \in assignments : p # q => p[1] # q[1] /\ p[2] \cap q[2] = {}
    /\ agents = {} <=> (completed = Modules \/ decisionCount >= MaxDecisions)
    /\ controller = "scripted" =>
        assignments = intended /\ decisionCount <= Cardinality(completed)
=============================================================================
