---------------------------- MODULE BuilderProofs ----------------------------
(***************************************************************************)
(* What the builders promise, for every instance: routes that are reserved *)
(* one after another keep apart (RouteTable), bids for modules bring       *)
(* capable, separate teams together, in the order of the plan              *)
(* (CoordinationEnv), the controllers schedule every plan that can be      *)
(* built, so that it can be carried out (BuildSchedule), a driven build    *)
(* follows its environment (DynamicExecutor), two robots build a site      *)
(* without harm, keep their books and are planned for alike (AssemblyEnv), *)
(* and the scene of an assembly shows what it should (CoppeliaBackend).    *)
(* The last part puts these together for the specification of Builders.    *)
(*                                                                         *)
(* All of them search or gather step by step.  Recursion and Gathering of  *)
(* FoldTheorems show that what is defined in this way exists; what it      *)
(* comes to then follows from a least step at which it would be wrong.     *)
(***************************************************************************)
EXTENDS Builders, FoldTheorems, SequenceTheorems

Raised == INSTANCE BuildOrder WITH parts <- Modules, needs <- Deps, installed <- completed
Driven == INSTANCE BuildOrder WITH parts <- DriveModules, needs <- DriveDeps
Assembled == INSTANCE BuildOrder WITH
    parts <- Site!Parts(site), needs <- site.needs, installed <- Site!Built

LEMMA NumberedIs == ASSUME NEW S, Numbered(S) PROVE \E n \in Nat : S = 1..n
  BY FS_CardinalityType DEF Numbered

-----------------------------------------------------------------------------
(* Routes.                                                                 *)

RequestOK == start \in [Agents -> Starts] /\ goal \in [Agents -> Goals]

\* A way of n steps, each of which was free when it was looked up.
Way(p, n, from) ==
    /\ p \in Seq(Cells) /\ Len(p) = n + 1 /\ p[1] = from
    /\ \A i \in 1..n : p[i + 1] \in Successors(p[i], i)

\* How the search goes on by one step.
Closer(a, n, t) == {c \in Reach(a)[t] : Manhattan(c, goal[a]) <= n - t}
Longer(a, n, t, before) ==
    UNION {{Append(p, c) : c \in Successors(Last(p), t) \cap Closer(a, n, t)} : p \in before}

LEMMA WayLonger ==
    ASSUME NEW n \in Nat, NEW from, NEW p, Way(p, n, from), NEW c \in Successors(Last(p), n + 1)
    PROVE  Way(Append(p, c), n + 1, from)
  <1> DEFINE q == Append(p, c)
  <1>1. c \in Cells
    BY DEF Successors, Moves
  <1>2. p \in Seq(Cells) /\ Len(p) = n + 1
    BY DEF Way
  <1>3. /\ q \in Seq(Cells) /\ Len(q) = (n + 1) + 1
        /\ \A i \in 1..(n + 1) : q[i] = p[i]
        /\ q[(n + 1) + 1] = c
    BY <1>1, <1>2, AppendProperties
  <1> HIDE DEF q
  <1>4. \A i \in 1..(n + 1) : q[i + 1] \in Successors(q[i], i)
    <2> TAKE i \in 1..(n + 1)
    <2>1. CASE i = n + 1
      <3>1. q[i + 1] = c /\ q[i] = Last(p)
        BY <1>2, <1>3, <2>1 DEF Last
      <3> QED BY <2>1, <3>1
    <2>2. CASE i # n + 1
      <3>1. i \in 1..n /\ i + 1 \in 1..(n + 1)
        BY <2>2
      <3>2. q[i] = p[i] /\ q[i + 1] = p[i + 1]
        BY <1>3, <3>1
      <3> QED BY <3>1, <3>2 DEF Way
    <2> QED BY <2>1, <2>2
  <1>5. q[1] = from
    BY <1>3 DEF Way
  <1> QED BY <1>3, <1>4, <1>5 DEF Way, q

\* What the search for a path finds.
LEMMA PathsAreWays ==
    ASSUME RouteNumbers, RequestOK, NEW a \in Agents, NEW n \in Nat, NEW p \in PathsOf(a, n)
    PROVE  Way(p, n, start[a]) /\ p[n + 1] = goal[a]
  <1> DEFINE Extended(f, t) == IF t = 0 THEN {<<start[a]>>} ELSE Longer(a, n, t, f[t - 1])
             upTo == CHOOSE f : f = [t \in 0..n |-> Extended(f, t)]
             X == SUBSET Seq(Cells)
  <1>1. start[a] \in Cells
    BY DEF RouteNumbers, RequestOK
  <1>2. p \in upTo[n] /\ Last(p) = goal[a]
    BY DEF PathsOf, Longer, Closer
  <1>3. upTo = [t \in 0..n |-> Extended(upTo, t)]
    <2> DEFINE step == [t \in Nat |-> [B \in X |-> Longer(a, n, t, B)]]
    <2>1. \A t \in Nat, B \in X : Longer(a, n, t, B) \in X
      <3> SUFFICES ASSUME NEW t \in Nat, NEW B \in X, NEW q \in B, NEW c \in Successors(Last(q), t)
                   PROVE  Append(q, c) \in Seq(Cells)
        BY DEF Longer
      <3>1. c \in Cells /\ q \in Seq(Cells)
        BY DEF Successors, Moves
      <3> QED BY <3>1, AppendProperties
    <2> DEFINE base == {<<start[a]>>}
    <2>2. step \in [Nat -> [X -> X]] /\ base \in X
      BY <1>1, <2>1
    <2> HIDE DEF step, X, base
    <2> PICK f : Iterates(f, X, base, step, n)
      BY <2>2, Recursion
    <2>3. f \in [0..n -> X] /\ f[0] = base /\ \A t \in 1..n : f[t] = step[t][f[t - 1]]
      BY DEF Iterates
    <2> USE DEF base
    <2>4. ASSUME NEW t \in 0..n PROVE f[t] = Extended(f, t)
      <3>1. CASE t = 0
        BY <2>3, <3>1
      <3>2. CASE t # 0
        <4>1. t \in 1..n /\ t \in Nat /\ t - 1 \in 0..n
          BY <2>4, <3>2
        <4> f[t - 1] \in X
          BY <2>3, <4>1
        <4>2. step[t][f[t - 1]] = Longer(a, n, t, f[t - 1])
          BY <4>1 DEF step
        <4> QED BY <2>3, <3>2, <4>1, <4>2
      <3> QED BY <3>1, <3>2
    <2>5. f = [t \in 0..n |-> Extended(f, t)]
      <3> HIDE DEF Extended
      <3> QED BY <2>3, <2>4
    <2> HIDE DEF Extended
    <2> QED BY <2>5
  <1> HIDE DEF upTo
  <1>4. \A t \in 0..n : upTo[t] = Extended(upTo, t)
    <2> HIDE DEF Extended
    <2> QED BY <1>3
  <1> DEFINE Ways(t) == \A q \in upTo[t] : Way(q, t, start[a])
             bad == {t \in 0..n : ~Ways(t)}
  <1>5. bad = {}
    <2> SUFFICES ASSUME bad # {} PROVE FALSE
      OBVIOUS
    <2>1. PICK t \in bad : \A u \in bad : t <= u
      <3>1. bad \subseteq Nat
        OBVIOUS
      <3> HIDE DEF bad
      <3> QED BY <3>1, LeastNumber
    <2>2. t \in 0..n /\ ~Ways(t) /\ t \in Nat
      OBVIOUS
    <2>3. CASE t = 0
      <3>1. upTo[t] = {<<start[a]>>}
        BY <1>4, <2>3
      <3>2. Way(<<start[a]>>, 0, start[a])
        BY <1>1 DEF Way
      <3> QED BY <2>2, <2>3, <3>1, <3>2
    <2>4. CASE t # 0
      <3>1. t - 1 \in 0..n /\ t - 1 \in Nat /\ ~(t <= t - 1) /\ (t - 1) + 1 = t
        BY <2>2, <2>4
      <3>2. Ways(t - 1)
        BY <2>1, <3>1
      <3>3. upTo[t] = Longer(a, n, t, upTo[t - 1])
        BY <1>4, <2>2, <2>4
      <3>4. ASSUME NEW q \in upTo[t] PROVE Way(q, t, start[a])
        <4>1. PICK r \in upTo[t - 1] : \E c \in Successors(Last(r), t) : q = Append(r, c)
          BY <3>3, <3>4 DEF Longer
        <4> PICK c \in Successors(Last(r), t) : q = Append(r, c)
          BY <4>1
        <4>2. Way(r, t - 1, start[a])
          BY <3>2
        <4>3. Way(Append(r, c), (t - 1) + 1, start[a])
          <5>1. c \in Successors(Last(r), (t - 1) + 1)
            BY <3>1
          <5> QED BY <3>1, <4>2, <5>1, WayLonger
        <4> QED BY <3>1, <4>1, <4>3
      <3> QED BY <2>2, <3>4
    <2> QED BY <2>3, <2>4
  <1>6. Way(p, n, start[a])
    <2>1. n \in 0..n /\ n \notin bad
      BY <1>5
    <2> QED BY <1>2, <2>1
  <1> QED BY <1>2, <1>6 DEF Way, Last

\* A path past the obstacles, wherever the reservations are.
Walk(p, n, from) ==
    /\ p \in Seq(Cells) /\ Len(p) = n + 1 /\ p[1] = from
    /\ \A i \in 1..n : p[i + 1] \in Moves(p[i])

\* Two agents that start in the same cell may do so; from then on they keep apart.
Apart(p, q) == \A t \in 1..MaxLength : ~Meet(p, q, t) /\ ~Swap(p, q, t)

Routed == 1..(next - 1)

RoutedWell(a) ==
    /\ start[a] \notin obstacles
    /\ \E n \in 0..MaxLength : Walk(paths[a], n, start[a]) /\ paths[a][n + 1] = goal[a]

RouteInv ==
    /\ RequestOK
    /\ next \in Nat \ {0} /\ paths \in Seq(Seq(Cells)) /\ Len(paths) = next - 1
    /\ Routed \subseteq Agents
    /\ outcome = "RoutePlan" => next \notin Agents
    /\ \A a \in Routed : RoutedWell(a)
    /\ \A a \in Routed : /\ CellsOf(paths[a]) \subseteq vertexReservations
                         /\ EdgesOf(paths[a]) \subseteq edgeReservations
    /\ \A a, b \in Routed : a < b => Apart(paths[a], paths[b])

\* Where one is on a walk.
LEMMA WalkAt ==
    ASSUME NEW n \in Nat, NEW p, NEW from, Walk(p, n, from), NEW t \in Nat
    PROVE  /\ t <= n => At(p, t) = p[t + 1]
           /\ t >= n => At(p, t) = p[n + 1]
  <1> DEFINE S == {t + 1, Len(p)}
  <1>1. Len(p) = n + 1 /\ S \subseteq Nat /\ S # {}
    BY DEF Walk
  <1>2. Min(S) \in S /\ \A y \in S : Min(S) <= y
    <2> HIDE DEF S
    <2> QED BY <1>1, LeastIsMin
  <1>3. t <= n => Min(S) = t + 1
    BY <1>1, <1>2
  <1>4. t >= n => Min(S) = n + 1
    BY <1>1, <1>2
  <1>5. At(p, t) = p[Min(S)]
    BY DEF At
  <1> HIDE DEF S
  <1> QED BY <1>3, <1>4, <1>5

\* A way through the reservations keeps apart from whom they belong to.
LEMMA WaysKeepApart ==
    ASSUME NEW n \in 0..MaxLength, NEW q, NEW from, Way(q, n, from), Settled(q[n + 1], n),
           NEW m \in 0..MaxLength, NEW p, NEW there, Walk(p, m, there), MaxLength \in Nat,
           CellsOf(p) \subseteq vertexReservations, EdgesOf(p) \subseteq edgeReservations
    PROVE  Apart(p, q)
  <1>1. Walk(q, n, from)
    BY DEF Way, Walk, Successors
  <1> SUFFICES ASSUME NEW t \in 1..MaxLength PROVE ~Meet(p, q, t) /\ ~Swap(p, q, t)
    BY DEF Apart
  <1>2. t \in Nat /\ t - 1 \in Nat /\ n \in Nat /\ m \in Nat
    OBVIOUS
  <1>3. /\ t <= n => At(q, t) = q[t + 1] /\ At(q, t - 1) = q[t]
        /\ t > n => At(q, t) = q[n + 1] /\ At(q, t - 1) = q[n + 1]
    BY <1>1, <1>2, WalkAt
  <1>4. /\ t <= m => At(p, t) = p[t + 1] /\ At(p, t - 1) = p[t]
        /\ t > m => At(p, t) = p[m + 1] /\ At(p, t - 1) = p[m + 1]
    BY <1>2, WalkAt
  <1>5. t <= n => q[t + 1] \in Successors(q[t], t)
    BY <1>2 DEF Way
  <1>6. <<At(q, t), t>> \notin vertexReservations
    <2>1. CASE t <= n
      BY <1>3, <1>5, <2>1 DEF Successors
    <2>2. CASE t > n
      <3>1. t \in n..MaxLength
        BY <2>2
      <3> QED BY <1>3, <2>2, <3>1 DEF Settled
    <2> QED BY <1>2, <2>1, <2>2
  <1>7. <<At(p, t), t>> \in vertexReservations
    BY DEF CellsOf
  <1>8. ~Meet(p, q, t)
    BY <1>6, <1>7 DEF Meet
  <1>9. ASSUME Swap(p, q, t) PROVE FALSE
    <2>1. At(p, t - 1) = At(q, t) /\ At(q, t - 1) = At(p, t) /\ At(p, t) # At(q, t)
      BY <1>8, <1>9 DEF Swap, Meet
    <2>2. t <= n /\ t <= m
      BY <1>2, <1>3, <1>4, <2>1
    <2>3. p[t] = q[t + 1] /\ q[t] = p[t + 1]
      BY <1>3, <1>4, <2>1, <2>2
    <2>4. <<p[t], p[t + 1], t>> \in EdgesOf(p)
      <3>1. t \in 1..(Len(p) - 1)
        BY <2>2, <1>2 DEF Walk
      <3> QED BY <3>1 DEF EdgesOf
    <2>5. <<q[t + 1], q[t], t>> \notin edgeReservations
      BY <1>5, <2>2 DEF Successors
    <2> QED BY <2>3, <2>4, <2>5
  <1> QED BY <1>8, <1>9

LEMMA RouteStart == ASSUME RouteNumbers, Init PROVE RouteInv
  <1> USE DEF Init
  <1>1. Routed = {} /\ next \in Nat \ {0}
    BY DEF Routed
  <1>2. paths \in Seq(Seq(Cells)) /\ Len(paths) = next - 1
    BY EmptySeq
  <1> QED BY <1>1, <1>2 DEF RouteInv, RequestOK

\* The paths of the agents routed before stay as they are.
LEMMA RouteKeeps == ASSUME RouteNumbers, RouteInv, RouteAgent PROVE RouteInv'
  <1> USE DEF RouteInv
  <1>1. outcome = "routing" /\ next \in Agents /\ UNCHANGED <<obstacles, start, goal>>
    BY DEF RouteAgent
  <1>2. RequestOK'
    BY <1>1 DEF RequestOK
  <1>3. MaxLength \in Nat
    BY DEF RouteNumbers
  <1>4. CASE outcome' = "RoutingError" /\ UNCHANGED <<next, paths, vertexReservations, edgeReservations>>
    <2>1. \A a \in Routed : RoutedWell(a)'
      BY <1>1, <1>4 DEF RoutedWell, Walk, Moves
    <2> QED BY <1>2, <1>4, <2>1 DEF Routed
  <1> DEFINE arrivals == Arrivals(next)
             n == Min(arrivals)
  <1>5. ASSUME arrivals # {}, {start[next], goal[next]} \cap obstacles = {},
               NEW p \in PathsOf(next, n), paths' = Append(paths, p),
               vertexReservations' = vertexReservations \cup CellsOf(p),
               edgeReservations' = edgeReservations \cup EdgesOf(p),
               next' = next + 1, UNCHANGED outcome
        PROVE  RouteInv'
    <2>1. n \in arrivals
      <3>1. arrivals \subseteq Nat
        BY DEF Arrivals
      <3> HIDE DEF arrivals
      <3> QED BY <1>5, <3>1, LeastIsMin
    <2>2. n \in 0..MaxLength /\ Settled(goal[next], n)
      BY <2>1 DEF Arrivals
    <2> HIDE DEF n, arrivals
    <2>3. n \in Nat
      BY <1>3, <2>2
    <2>4. Way(p, n, start[next]) /\ p[n + 1] = goal[next]
      BY <1>1, <1>5, <2>3, PathsAreWays
    <2>5. Walk(p, n, start[next]) /\ p \in Seq(Cells)
      BY <2>4 DEF Way, Walk, Successors
    <2>6. /\ paths' \in Seq(Seq(Cells)) /\ Len(paths') = next
          /\ \A a \in Routed : paths'[a] = paths[a]
          /\ paths'[next] = p
      BY <1>5, <2>5, AppendProperties DEF Routed
    <2>7. /\ next' \in Nat \ {0} /\ Routed' = Routed \cup {next} /\ Len(paths') = next' - 1
          /\ \A a \in Routed : a < next
          /\ \A a \in Routed' : a \in Nat /\ a <= next
      BY <1>5, <2>6 DEF Routed
    <2>8. \A a \in Routed' : RoutedWell(a)'
      <3>1. ASSUME NEW a, a = next PROVE RoutedWell(a)'
        <4>1. start[a] \notin obstacles
          BY <1>5, <3>1
        <4>2. PICK k \in 0..MaxLength : Walk(p, k, start[a]) /\ p[k + 1] = goal[a]
          BY <2>2, <2>4, <2>5, <3>1
        <4>3. paths'[a] = p
          BY <2>6, <3>1
        <4> QED BY <1>1, <4>1, <4>2, <4>3 DEF RoutedWell, Walk, Moves
      <3>2. ASSUME NEW a \in Routed PROVE RoutedWell(a)'
        <4>1. RoutedWell(a)
          OBVIOUS
        <4> QED BY <1>1, <2>6, <4>1 DEF RoutedWell, Walk, Moves
      <3> QED BY <2>7, <3>1, <3>2
    <2>9. \A a \in Routed' : /\ CellsOf(paths'[a]) \subseteq vertexReservations'
                             /\ EdgesOf(paths'[a]) \subseteq edgeReservations'
      BY <1>5, <2>6, <2>7
    <2>10. ASSUME NEW a \in Routed PROVE Apart(paths[a], p)
      <3>1. PICK m \in 0..MaxLength : Walk(paths[a], m, start[a])
        BY DEF RoutedWell
      <3>2. CellsOf(paths[a]) \subseteq vertexReservations /\ EdgesOf(paths[a]) \subseteq edgeReservations
        OBVIOUS
      <3> QED BY <1>3, <2>2, <2>4, <3>1, <3>2, WaysKeepApart
    <2>11. \A a, b \in Routed' : a < b => Apart(paths'[a], paths'[b])
      <3> SUFFICES ASSUME NEW a \in Routed', NEW b \in Routed', a < b
                   PROVE  Apart(paths'[a], paths'[b])
        OBVIOUS
      <3>1. a \in Routed
        <4>1. a \in Nat /\ b \in Nat /\ b <= next /\ next \in Nat
          BY <2>7
        <4>2. a # next
          BY <4>1
        <4> QED BY <2>7, <4>2
      <3>2. CASE b \in Routed
        BY <2>6, <3>1, <3>2
      <3>3. CASE b = next
        BY <2>6, <2>10, <3>1, <3>3
      <3> QED BY <2>7, <3>2, <3>3
    <2>12. outcome' # "RoutePlan" /\ Routed' \subseteq Agents
      BY <1>1, <1>5, <2>7
    <2>13. (\A a, b \in Routed : a < b => Apart(paths[a], paths[b]))'
      BY <2>11 DEF Apart, Meet, Swap, At
    <2>14. (\A a \in Routed : /\ CellsOf(paths[a]) \subseteq vertexReservations
                              /\ EdgesOf(paths[a]) \subseteq edgeReservations)'
      BY <2>9 DEF CellsOf, EdgesOf, At
    <2>15. (\A a \in Routed : RoutedWell(a))'
      BY <2>8
    <2> QED BY <1>2, <2>6, <2>7, <2>12, <2>13, <2>14, <2>15
  <1> HIDE DEF n, arrivals
  <1> QED
    <2>1. CASE {start[next], goal[next]} \cap obstacles # {}
      BY <1>4, <2>1 DEF RouteAgent
    <2>2. CASE {start[next], goal[next]} \cap obstacles = {}
      BY <1>4, <1>5, <2>2 DEF RouteAgent, arrivals, n
    <2> QED BY <2>1, <2>2

LEMMA RouteStep == RouteNumbers /\ RouteInv /\ [Next]_vars => RouteInv'
  <1> SUFFICES ASSUME RouteNumbers, RouteInv, [Next]_vars PROVE RouteInv'
    OBVIOUS
  <1>1. CASE RouteAgent
    BY <1>1, RouteKeeps
  <1>2. CASE Publish \/ UNCHANGED vars
    <2>1. /\ UNCHANGED <<obstacles, start, goal, next, paths, vertexReservations, edgeReservations>>
          /\ outcome' = "RoutePlan" => next \notin Agents
      BY <1>2 DEF Publish, vars, RouteInv
    <2>2. \A a \in Routed : RoutedWell(a)'
      BY <2>1 DEF RouteInv, RoutedWell, Walk, Moves
    <2> QED BY <2>1, <2>2 DEF RouteInv, RequestOK, Routed
  <1> QED BY <1>1, <1>2 DEF Next

\* A walk is no shorter than the distance of its ends.
LEMMA WalkLength ==
    ASSUME Width \in Nat, Height \in Nat, NEW n \in Nat, NEW p, NEW from \in Cells, Walk(p, n, from)
    PROVE  Manhattan(from, p[n + 1]) <= n
  <1> DEFINE Near(i) == Manhattan(from, p[i + 1]) <= i
             bad == {i \in 0..n : ~Near(i)}
  <1>1. \A i \in 0..n : p[i + 1] \in Cells
    <2>1. \A i \in 0..n : i + 1 \in 1..Len(p)
      BY DEF Walk
    <2> QED BY <2>1, ElementOfSeq DEF Walk
  <1>2. \A c \in Cells : c[1] \in Int /\ c[2] \in Int
    BY DEF Cells
  <1>3. \A c, d \in Cells : Manhattan(c, d) \in Nat
    BY <1>2 DEF Manhattan, Abs
  <1>4. \A c, d, e \in Cells : Manhattan(c, e) <= Manhattan(c, d) + Manhattan(d, e)
    <2> TAKE c, d, e \in Cells
    <2>1. /\ c[1] \in Int /\ c[2] \in Int /\ d[1] \in Int /\ d[2] \in Int /\ e[1] \in Int /\ e[2] \in Int
      BY <1>2
    <2> QED BY <2>1 DEF Manhattan, Abs
  <1> SUFFICES ASSUME bad # {} PROVE FALSE
    OBVIOUS
  <1>5. PICK i \in bad : \A j \in bad : i <= j
    <2>1. bad \subseteq Nat
      OBVIOUS
    <2> HIDE DEF bad
    <2> QED BY <2>1, LeastNumber
  <1>6. i \in 0..n /\ i \in Nat /\ ~Near(i)
    OBVIOUS
  <1>7. CASE i = 0
    <2>1. p[i + 1] = from /\ from[1] \in Int /\ from[2] \in Int
      BY <1>2, <1>7 DEF Walk
    <2>2. Manhattan(from, from) = 0
      BY <2>1 DEF Manhattan, Abs
    <2> QED BY <1>6, <1>7, <2>1, <2>2
  <1>8. CASE i # 0
    <2>1. i - 1 \in 0..n /\ i \in 1..n /\ (i - 1) + 1 = i /\ ~(i <= i - 1)
      BY <1>6, <1>8
    <2>2. Near(i - 1)
      BY <1>5, <2>1
    <2>3. p[i + 1] \in Moves(p[i])
      BY <2>1 DEF Walk
    <2>4. Manhattan(p[i], p[i + 1]) <= 1
      BY <2>3 DEF Moves
    <2>5. p[i] \in Cells /\ p[i + 1] \in Cells /\ Manhattan(from, p[i]) <= i - 1
      BY <1>1, <1>6, <2>1, <2>2
    <2>6. Manhattan(from, p[i + 1]) <= Manhattan(from, p[i]) + Manhattan(p[i], p[i + 1])
      BY <1>4, <2>5
    <2>7. /\ Manhattan(from, p[i + 1]) \in Nat /\ Manhattan(from, p[i]) \in Nat
          /\ Manhattan(p[i], p[i + 1]) \in Nat
      BY <1>3, <2>5
    <2> HIDE DEF bad
    <2> QED BY <1>6, <2>4, <2>5, <2>6, <2>7
  <1> QED BY <1>7, <1>8

LEMMA RoutedEnds ==
    ASSUME RouteNumbers, RouteInv, NEW a \in Routed
    PROVE  /\ paths[a] \in Seq(Cells) /\ Len(paths[a]) \in 1..(MaxLength + 1)
           /\ paths[a][1] = start[a] /\ Last(paths[a]) = goal[a]
           /\ \A i \in 1..Len(paths[a]) : paths[a][i] \notin obstacles
           /\ Len(paths[a]) > Manhattan(start[a], goal[a])
           /\ At(paths[a], 0) = start[a]
  <1>1. RoutedWell(a) /\ a \in Agents
    BY DEF RouteInv
  <1>2. PICK n \in 0..MaxLength : Walk(paths[a], n, start[a]) /\ paths[a][n + 1] = goal[a]
    BY <1>1 DEF RoutedWell
  <1>3. n \in Nat /\ MaxLength \in Nat /\ Width \in Nat /\ Height \in Nat
    BY DEF RouteNumbers
  <1>4. start[a] \in Cells /\ goal[a] \in Cells
    BY <1>1 DEF RouteInv, RequestOK, RouteNumbers
  <1>5. /\ paths[a] \in Seq(Cells) /\ Len(paths[a]) = n + 1 /\ Len(paths[a]) \in 1..(MaxLength + 1)
        /\ paths[a][1] = start[a]
    BY <1>2, <1>3 DEF Walk
  <1>6. \A i \in 1..Len(paths[a]) : paths[a][i] \notin obstacles
    <2> TAKE i \in 1..Len(paths[a])
    <2>1. CASE i = 1
      BY <1>1, <1>5, <2>1 DEF RoutedWell
    <2>2. CASE i # 1
      <3>1. i - 1 \in 1..n /\ (i - 1) + 1 = i
        BY <1>3, <1>5, <2>2
      <3>2. paths[a][i] \in Moves(paths[a][i - 1])
        BY <1>2, <3>1 DEF Walk
      <3> QED BY <3>2 DEF Moves
    <2> QED BY <2>1, <2>2
  <1>7. Manhattan(start[a], goal[a]) <= n
    BY <1>2, <1>3, <1>4, WalkLength
  <1>8. Manhattan(start[a], goal[a]) \in Int
    BY <1>3, <1>4 DEF Manhattan, Abs, Cells
  <1>9. At(paths[a], 0) = start[a]
    <2>1. 0 \in Nat /\ 0 <= n /\ 0 + 1 = 1
      BY <1>3
    <2>2. At(paths[a], 0) = paths[a][0 + 1]
      BY <1>2, <1>3, <2>1, WalkAt
    <2> QED BY <1>5, <2>1, <2>2
  <1> QED BY <1>2, <1>3, <1>5, <1>6, <1>7, <1>8, <1>9 DEF Last

\* The conflicts of a plan are counted one for two agents that start in one cell.
LEMMA ConflictsCounted ==
    ASSUME RouteNumbers, RouteInv, Routed = Agents
    PROVE  ConflictCount = Cardinality({p \in Pairs : start[p[1]] = start[p[2]]})
  <1> DEFINE same == {p \in Pairs : start[p[1]] = start[p[2]]}
             lengths == {Len(paths[a]) : a \in Agents}
             horizon == Max(lengths)
             meets == {m \in Pairs \X (0..(horizon - 1)) : Meet(paths[m[1][1]], paths[m[1][2]], m[2])}
             swaps == {m \in Pairs \X (1..(horizon - 1)) : Swap(paths[m[1][1]], paths[m[1][2]], m[2])}
  <1>1. ConflictCount = Cardinality(meets) + Cardinality(swaps)
    BY DEF ConflictCount
  <1>2. IsFiniteSet(same) /\ Cardinality(same) \in Nat
    <2>1. IsFiniteSet(Agents)
      BY NumberedIs, FS_Interval DEF RouteNumbers
    <2>2. IsFiniteSet(Agents \X Agents)
      BY <2>1, FS_Product
    <2>3. same \subseteq Agents \X Agents
      BY DEF Pairs
    <2> HIDE DEF same
    <2> QED BY <2>2, <2>3, FS_Subset, FS_CardinalityType
  <1>3. \A p \in Pairs : /\ p = <<p[1], p[2]>> /\ p[1] \in Agents /\ p[2] \in Agents /\ p[1] < p[2]
                         /\ Apart(paths[p[1]], paths[p[2]])
    BY DEF Pairs, RouteInv
  <1>4. Pairs # {} => horizon \in 1..(MaxLength + 1)
    <2> SUFFICES ASSUME Pairs # {} PROVE horizon \in 1..(MaxLength + 1)
      OBVIOUS
    <2>1. \A a \in Agents : Len(paths[a]) \in 1..(MaxLength + 1)
      BY RoutedEnds
    <2>2. lengths # {} /\ lengths \subseteq 1..(MaxLength + 1)
      BY <1>3, <2>1
    <2>3. MaxLength + 1 \in Nat /\ lengths \subseteq Nat /\ \A y \in lengths : y <= MaxLength + 1
      BY <2>2 DEF RouteNumbers
    <2> HIDE DEF lengths
    <2>4. horizon \in lengths
      BY <2>2, <2>3, GreatestIsMax
    <2> QED BY <2>2, <2>4
  <1>5. \A p \in Pairs, t \in 1..(horizon - 1) :
            ~Meet(paths[p[1]], paths[p[2]], t) /\ ~Swap(paths[p[1]], paths[p[2]], t)
    <2> SUFFICES ASSUME NEW p \in Pairs, NEW t \in 1..(horizon - 1)
                 PROVE  ~Meet(paths[p[1]], paths[p[2]], t) /\ ~Swap(paths[p[1]], paths[p[2]], t)
      OBVIOUS
    <2> HIDE DEF horizon
    <2>1. t \in 1..MaxLength
      BY <1>4 DEF RouteNumbers
    <2> QED BY <1>3, <2>1 DEF Apart
  <1>6. swaps = {}
    <2> HIDE DEF horizon
    <2> QED BY <1>5
  <1>7. meets = {<<p, 0>> : p \in same}
    <2> HIDE DEF horizon
    <2>1. ASSUME NEW m \in meets PROVE m[1] \in same /\ m = <<m[1], 0>>
      <3>1. m[1] \in Pairs /\ m[2] \in 0..(horizon - 1) /\ m = <<m[1], m[2]>>
            /\ Meet(paths[m[1][1]], paths[m[1][2]], m[2])
        OBVIOUS
      <3>2. m[2] = 0
        <4>1. m[2] \notin 1..(horizon - 1)
          BY <1>5, <3>1
        <4>2. horizon \in Int
          BY <1>4, <3>1 DEF RouteNumbers
        <4> QED BY <3>1, <4>1, <4>2
      <3>3. start[m[1][1]] = start[m[1][2]]
        BY <1>3, <3>1, <3>2, RoutedEnds DEF Meet
      <3> QED BY <3>1, <3>2, <3>3
    <2>2. ASSUME NEW p \in same PROVE <<p, 0>> \in meets
      <3>1. 0 \in 0..(horizon - 1)
        BY <1>4 DEF RouteNumbers
      <3>2. Meet(paths[p[1]], paths[p[2]], 0)
        BY <1>3, RoutedEnds DEF Meet
      <3> QED BY <3>1, <3>2
    <2> HIDE DEF meets, same
    <2> QED BY <2>1, <2>2
  <1> HIDE DEF same, meets, swaps
  <1>8. Cardinality(meets) = Cardinality(same)
    <2> DEFINE f == [p \in same |-> <<p, 0>>]
    <2>1. f \in [same -> meets]
      BY <1>7
    <2>2. \A p, q \in same : f[p] = f[q] => p = q
      OBVIOUS
    <2>3. \A m \in meets : \E p \in same : f[p] = m
      BY <1>7
    <2> HIDE DEF f
    <2>4. f \in Bijection(same, meets)
      BY <2>1, <2>2, <2>3 DEF Bijection, Injection, Surjection, IsInjective
    <2> QED BY <1>2, <2>4, FS_Bijection DEF ExistsBijection
  <1>9. Cardinality(swaps) = 0
    BY <1>6, FS_EmptySet
  <1> QED BY <1>1, <1>2, <1>8, <1>9 DEF same

LEMMA RoutedApart == RouteNumbers /\ RouteInv => RoutesDisjoint
  <1> SUFFICES ASSUME RouteNumbers, RouteInv, outcome = "RoutePlan" PROVE RoutesDisjoint
    BY DEF RoutesDisjoint
  <1>1. Routed = Agents
    <2>1. PICK k \in Nat : Agents = 1..k
      BY NumberedIs DEF RouteNumbers
    <2>2. next \in Nat \ {0} /\ next \notin 1..k /\ 1..(next - 1) \subseteq 1..k
      BY <2>1 DEF RouteInv, Routed
    <2>3. next - 1 = k
      BY <2>2
    <2> QED BY <2>1, <2>3 DEF Routed
  <1> QED BY <1>1, RoutedEnds, ConflictsCounted DEF RoutesDisjoint

\* A plan of plan_routes leads everybody to its goal past the obstacles, and its paths
\* conflict where two agents start in one cell and nowhere else, for any number of agents,
\* floor and length.
THEOREM RoutesAreDisjoint == RouteNumbers => (Spec => []RoutesDisjoint)
  <1> SUFFICES ASSUME RouteNumbers PROVE Spec => []RoutesDisjoint
    OBVIOUS
  <1>1. Init => RouteInv
    BY RouteStart
  <1>2. RouteInv /\ [Next]_vars => RouteInv'
    BY RouteStep
  <1>3. RouteInv => RoutesDisjoint
    BY RoutedApart
  <1> QED BY <1>1, <1>2, <1>3, PTL DEF Spec

-----------------------------------------------------------------------------
(* Bids for modules.                                                       *)

\* Teams of different modules, none of which has a robot of another one.
SeparateTeams(teams) == \A p, q \in teams : p # q => p[1] # q[1] /\ p[2] \cap q[2] = {}

CapableTeams(teams, modules) ==
    /\ teams \subseteq modules \X SUBSET agents
    /\ \A p \in teams : Bidding!Capable(p[1], p[2])
    /\ SeparateTeams(teams)

BidInv ==
    /\ agents \in {{}, Robots} /\ completed \in SUBSET Modules /\ decisionCount \in Nat
    /\ Bidding!TeamsSound

LEMMA SameSizes == \A S : Bidding!Cardinality(S) = Cardinality(S)
  BY DEF Bidding!Cardinality, Cardinality

LEMMA CapableSize == \A m, T : Bidding!Capable(m, T) => Cardinality(T) = TeamSize[m]
  BY SameSizes DEF Bidding!Capable

LEMMA StrongestAreCandidates == \A k, C : Bidding!Strongest(k, C) \subseteq C
  BY DEF Bidding!Strongest

\* Of as many candidates as a team needs, all are in it.
LEMMA AllAreNeeded ==
    ASSUME BidNumbers, NEW m \in Modules, NEW T \in SUBSET Robots, Cardinality(T) = TeamSize[m]
    PROVE  Bidding!Strongest(TeamSize[m], T) = T
  <1> SUFFICES ASSUME NEW a \in T
               PROVE  Cardinality({b \in T : Bidding!Stronger(b, a)}) < TeamSize[m]
    BY SameSizes DEF Bidding!Strongest
  <1> DEFINE above == {b \in T : Bidding!Stronger(b, a)}
  <1>1. IsFiniteSet(Robots)
    BY NumberedIs, FS_Interval DEF BidNumbers
  <1>2. IsFiniteSet(T) /\ Cardinality(T) \in Nat
    BY <1>1, FS_Subset, FS_CardinalityType
  <1>3. a \notin above
    <2>1. Payload[a] \in Nat /\ a \in Nat
      BY NumberedIs DEF BidNumbers
    <2>2. ~Bidding!Stronger(a, a)
      BY <2>1 DEF Bidding!Stronger
    <2> QED BY <2>2
  <1>4. above \subseteq T \ {a}
    BY <1>3
  <1>5. IsFiniteSet(T \ {a}) /\ Cardinality(T \ {a}) = Cardinality(T) - 1
    BY <1>2, FS_RemoveElement
  <1> HIDE DEF above
  <1>6. IsFiniteSet(above) /\ Cardinality(above) <= Cardinality(T \ {a})
    BY <1>4, <1>5, FS_Subset
  <1>7. Cardinality(above) \in Nat
    BY <1>6, FS_CardinalityType
  <1>8. Cardinality(above) < Cardinality(T)
    BY <1>2, <1>5, <1>6, <1>7
  <1> QED BY <1>8 DEF above

\* Some module comes last.
LEMMA LastIsOne ==
    ASSUME BidNumbers, NEW S \in SUBSET Modules, S # {}
    PROVE  Bidding!LastOf(S) \in S
  <1> DEFINE R == {p \in Modules \X Modules : Bidding!ByTeamSize(p[1], p[2])}
  <1>1. IsFiniteSet(S)
    <2>1. IsFiniteSet(Modules)
      BY NumberedIs, FS_Interval DEF BidNumbers
    <2> QED BY <2>1, FS_Subset
  <1>2. \A m \in S : TeamSize[m] \in Nat /\ m \in Nat
    BY NumberedIs DEF BidNumbers
  <1>3. \A m, k \in S : <<m, k>> \in R <=> Bidding!ByTeamSize(m, k)
    OBVIOUS
  <1>4. /\ \A m \in S : <<m, m>> \notin R
        /\ \A m, k, o \in S : <<m, k>> \in R /\ <<k, o>> \in R => <<m, o>> \in R
        /\ \A m, k \in S : <<m, k>> \notin R => k = m \/ <<k, m>> \in R
    <2> HIDE DEF R
    <2> QED BY <1>2, <1>3 DEF Bidding!ByTeamSize
  <1> HIDE DEF R
  <1>5. PICK m \in S : \A k \in S : <<m, k>> \notin R
    BY <1>1, <1>4, LastInOrder
  <1>6. \A k \in S \ {m} : Bidding!ByTeamSize(k, m)
    BY <1>3, <1>4, <1>5
  <1> QED BY <1>6 DEF Bidding!LastOf

\* One module more is given a team of robots that are left, or none.
LEMMA OnePlaced ==
    ASSUME BidNumbers, agents = Robots, NEW S \in SUBSET Modules, NEW m \in S, NEW placed,
           CapableTeams(placed, S \ {m}), S \ {m} # {} => placed # {}
    PROVE  CapableTeams(Bidding!Place(m, placed), S) /\ Bidding!Place(m, placed) # {}
  <1> DEFINE team == Bidding!Strongest(TeamSize[m], agents \ UNION {p[2] : p \in placed})
             more == Bidding!Place(m, placed)
  <1>1. more = IF Bidding!Capable(m, team) THEN placed \cup {<<m, team>>} ELSE placed
    BY DEF Bidding!Place
  <1>2. team \subseteq agents /\ \A p \in placed : team \cap p[2] = {}
    BY StrongestAreCandidates
  <1>3. \A p \in placed : p[1] # m
    BY DEF CapableTeams
  <1>4. more # {}
    <2> SUFFICES ASSUME placed = {} PROVE Bidding!Capable(m, team)
      BY <1>1
    <2>1. agents \ UNION {p[2] : p \in placed} = Robots
      OBVIOUS
    <2> QED BY <2>1 DEF BidNumbers
  <1> HIDE DEF team, more
  <1>5. CASE ~Bidding!Capable(m, team)
    BY <1>1, <1>4, <1>5 DEF CapableTeams, more
  <1>6. CASE Bidding!Capable(m, team)
    <2>1. more = placed \cup {<<m, team>>}
      BY <1>1, <1>6
    <2>2. more \subseteq S \X SUBSET agents /\ \A p \in more : Bidding!Capable(p[1], p[2])
      BY <1>2, <1>6, <2>1 DEF CapableTeams
    <2>3. SeparateTeams(more)
      BY <1>2, <1>3, <2>1 DEF SeparateTeams, CapableTeams
    <2> QED BY <1>4, <2>2, <2>3 DEF CapableTeams, more
  <1> QED BY <1>5, <1>6

\* What the script has in mind, whatever stands already.
LEMMA ScriptIsCapable ==
    ASSUME BidNumbers, agents = Robots
    PROVE  /\ CapableTeams(Bidding!ScriptedTeams, Bidding!ReadyModules)
           /\ Bidding!ReadyModules # {} => Bidding!ScriptedTeams # {}
  <1> DEFINE S == Bidding!ReadyModules
             X == SUBSET (Modules \X SUBSET agents)
             step == [m \in S |-> [placed \in X |-> Bidding!Place(m, placed)]]
             last == [s \in SUBSET S |-> Bidding!LastOf(s)]
             OneMore(f, s) == IF s = {} THEN {} ELSE Bidding!Place(Bidding!LastOf(s), f[s \ {Bidding!LastOf(s)}])
             gather == CHOOSE f : f = [s \in SUBSET S |-> OneMore(f, s)]
  <1>1. Bidding!ScriptedTeams = gather[S]
    BY DEF Bidding!ScriptedTeams, Bidding!MapThenFoldSet
  <1>2. S \subseteq Modules /\ IsFiniteSet(S)
    <2>1. S \subseteq Modules
      BY DEF Bidding!ReadyModules
    <2>2. IsFiniteSet(Modules)
      BY NumberedIs, FS_Interval DEF BidNumbers
    <2> QED BY <2>1, <2>2, FS_Subset
  <1> HIDE DEF S
  <1>3. \A s \in SUBSET S : s # {} => last[s] \in s /\ last[s] = Bidding!LastOf(s)
    BY <1>2, LastIsOne
  <1>4. step \in [S -> [X -> X]]
    <2> SUFFICES ASSUME NEW m \in S, NEW placed \in X PROVE Bidding!Place(m, placed) \in X
      OBVIOUS
    <2>1. Bidding!Strongest(TeamSize[m], agents \ UNION {p[2] : p \in placed}) \subseteq agents
      BY StrongestAreCandidates
    <2>2. m \in Modules
      BY <1>2
    <2> QED BY <2>1, <2>2 DEF Bidding!Place
  <1>5. PICK f : Gathers(f, S, X, {}, step, last)
    <2>1. {} \in X
      OBVIOUS
    <2> HIDE DEF X, step, last
    <2> QED BY <1>2, <1>3, <1>4, <2>1, Gathering
  <1>6. f \in [SUBSET S -> X] /\ \A s \in SUBSET S : f[s] = OneMore(f, s)
    <2>1. f \in [SUBSET S -> X] /\ f[{}] = {}
      BY <1>5 DEF Gathers
    <2>2. ASSUME NEW s \in SUBSET S, s # {} PROVE f[s] = OneMore(f, s)
      <3>1. f[s] = step[last[s]][f[s \ {last[s]}]]
        BY <1>5, <2>2 DEF Gathers
      <3>2. last[s] \in S /\ last[s] = Bidding!LastOf(s) /\ f[s \ {last[s]}] \in X
        BY <1>3, <2>1, <2>2
      <3>3. step[last[s]][f[s \ {last[s]}]] = Bidding!Place(last[s], f[s \ {last[s]}])
        BY <3>2
      <3> QED BY <2>2, <3>1, <3>2, <3>3
    <2> QED BY <2>1, <2>2
  <1>7. gather = [s \in SUBSET S |-> OneMore(gather, s)]
    <2>1. f = [s \in SUBSET S |-> OneMore(f, s)]
      <3> HIDE DEF OneMore, X
      <3> QED BY <1>6
    <2> HIDE DEF OneMore
    <2> QED BY <2>1
  <1>8. \A s \in SUBSET S : gather[s] = OneMore(gather, s)
    <2> HIDE DEF gather, OneMore
    <2> QED BY <1>7
  <1> HIDE DEF gather
  <1> DEFINE good == {s \in SUBSET S : CapableTeams(gather[s], s) /\ (s # {} => gather[s] # {})}
  <1>9. {} \in good
    <2>1. gather[{}] = {}
      BY <1>8
    <2> QED BY <2>1 DEF CapableTeams, SeparateTeams
  <1>10. \A s \in SUBSET S : s # {} => last[s] \in s /\ (s \ {last[s]} \in good => s \in good)
    <2> SUFFICES ASSUME NEW s \in SUBSET S, s # {}, last[s] \in s, s \ {last[s]} \in good
                 PROVE  s \in good
      BY <1>3
    <2>1. gather[s] = Bidding!Place(last[s], gather[s \ {last[s]}])
      BY <1>3, <1>8
    <2>2. s \in SUBSET Modules
      BY <1>2
    <2> HIDE DEF last
    <2> QED BY <2>1, <2>2, OnePlaced
  <1> HIDE DEF good, last
  <1>11. S \in good
    BY <1>2, <1>9, <1>10, OneByOne
  <1> QED BY <1>1, <1>11 DEF S, good

\* Robots that bid as somebody had in mind come together as he had in mind.
LEMMA BidsComeAbout ==
    ASSUME BidNumbers, NEW teams, agents = Robots,
           CapableTeams(teams, Bidding!ReadyModules), Bidding!Step(Bidding!Bids(teams))
    PROVE  assignments' = teams /\ completed' = completed \cup {p[1] : p \in teams}
  <1> DEFINE bids == Bidding!Bids(teams)
             bidders(m) == {a \in agents : bids[a] = m}
             team(m) == Bidding!Strongest(TeamSize[m], bidders(m))
             built == {m \in Bidding!ReadyModules : Bidding!Capable(m, team(m))}
  <1>1. completed' = completed \cup built /\ assignments' = {<<m, team(m)>> : m \in built}
    BY DEF Bidding!Step
  <1>2. /\ teams \subseteq Bidding!ReadyModules \X SUBSET agents
        /\ \A p \in teams : Bidding!Capable(p[1], p[2])
        /\ \A p, q \in teams : p # q => p[1] # q[1] /\ p[2] \cap q[2] = {}
    BY DEF CapableTeams, SeparateTeams
  <1>3. Bidding!ReadyModules \subseteq Modules /\ 0 \notin Modules
    BY NumberedIs DEF Bidding!ReadyModules, BidNumbers
  <1> DEFINE wanting(a) == {p[1] : p \in {q \in teams : a \in q[2]}}
  <1>4. \A a \in agents : bids[a] = IF wanting(a) = {} THEN 0 ELSE Bidding!LastOf(wanting(a))
    BY DEF Bidding!Bids
  <1>5. \A p \in teams : \A a \in p[2] : a \in agents /\ bids[a] = p[1]
    <2> SUFFICES ASSUME NEW p \in teams, NEW a \in p[2] PROVE a \in agents /\ bids[a] = p[1]
      OBVIOUS
    <2>1. wanting(a) = {p[1]}
      BY <1>2
    <2>2. Bidding!LastOf({p[1]}) = p[1]
      BY DEF Bidding!LastOf
    <2>3. a \in agents
      BY <1>2
    <2> QED BY <1>4, <2>1, <2>2, <2>3
  <1>6. \A a \in agents : wanting(a) = {} => bids[a] = 0
    BY <1>4
  <1> HIDE DEF bids
  <1>7. \A p \in teams : bidders(p[1]) = p[2]
    <2> SUFFICES ASSUME NEW p \in teams, NEW a \in agents, bids[a] = p[1] PROVE a \in p[2]
      BY <1>5
    <2>1. p[1] # 0
      BY <1>2, <1>3
    <2>2. PICK q \in teams : a \in q[2]
      BY <1>6, <2>1
    <2>3. q[1] = p[1]
      BY <1>5, <2>2
    <2> QED BY <1>2, <2>2, <2>3
  <1>8. \A p \in teams : p[1] \in built /\ team(p[1]) = p[2]
    <2> SUFFICES ASSUME NEW p \in teams PROVE p[1] \in built /\ team(p[1]) = p[2]
      OBVIOUS
    <2>1. p[1] \in Modules /\ p[2] \in SUBSET Robots /\ p[1] \in Bidding!ReadyModules
      BY <1>2, <1>3
    <2>2. Cardinality(p[2]) = TeamSize[p[1]]
      BY <1>2, CapableSize
    <2>3. team(p[1]) = p[2]
      BY <1>7, <2>1, <2>2, AllAreNeeded
    <2> QED BY <1>2, <2>1, <2>3
  <1>9. \A m \in built : \E p \in teams : p[1] = m
    <2> SUFFICES ASSUME NEW m \in Bidding!ReadyModules, \A p \in teams : p[1] # m
                 PROVE  ~Bidding!Capable(m, team(m))
      OBVIOUS
    <2>1. m # 0 /\ TeamSize[m] # 0
      BY <1>3 DEF BidNumbers
    <2>2. ASSUME NEW a \in agents PROVE bids[a] # m
      <3>1. CASE wanting(a) = {}
        BY <1>6, <2>1, <3>1
      <3>2. CASE wanting(a) # {}
        BY <1>5, <2>2, <3>2
      <3> QED BY <3>1, <3>2
    <2>3. team(m) = {}
      BY <2>2, StrongestAreCandidates
    <2> QED BY <2>1, <2>3, CapableSize, FS_EmptySet
  <1> HIDE DEF built, team
  <1>10. built = {p[1] : p \in teams}
    BY <1>8, <1>9
  <1>11. {<<m, team(m)>> : m \in built} = teams
    <2>1. \A p \in teams : p = <<p[1], team(p[1])>>
      BY <1>2, <1>8
    <2> QED BY <1>8, <1>9, <2>1
  <1> QED BY <1>1, <1>10, <1>11

\* Whatever the robots bid, no robot is in two teams of a decision.
LEMMA BidsKeepApart ==
    ASSUME NEW bids, Bidding!Step(bids) PROVE SeparateTeams(assignments')
  <1> DEFINE bidders(m) == {a \in agents : bids[a] = m}
             team(m) == Bidding!Strongest(TeamSize[m], bidders(m))
             built == {m \in Bidding!ReadyModules : Bidding!Capable(m, team(m))}
  <1>1. assignments' = {<<m, team(m)>> : m \in built}
    BY DEF Bidding!Step
  <1>2. \A m : team(m) \subseteq bidders(m)
    BY StrongestAreCandidates
  <1>3. \A m, k : m # k => team(m) \cap team(k) = {}
    BY <1>2
  <1> HIDE DEF team, built
  <1> QED BY <1>1, <1>3 DEF SeparateTeams

\* What a decision builds was ready, and what is over is over.
LEMMA BidsBuild ==
    ASSUME NEW bids, Bidding!Step(bids)
    PROVE  /\ completed \subseteq completed' /\ completed' \ completed \subseteq Bidding!ReadyModules
           /\ decisionCount' = decisionCount + 1
           /\ agents' = IF completed' = Modules \/ decisionCount' >= MaxDecisions THEN {} ELSE agents
  <1> QED BY DEF Bidding!Step

\* As long as something is missing, something is ready.
LEMMA SomethingIsReady ==
    ASSUME BidNumbers, completed \in SUBSET Modules, completed # Modules
    PROVE  Bidding!ReadyModules # {}
  <1>1. PICK m \in Modules \ completed : Deps[m] \cap (Modules \ completed) = {}
    BY DEF BidNumbers
  <1>2. Deps[m] \subseteq Modules
    BY DEF BidNumbers
  <1> QED BY <1>1, <1>2 DEF Bidding!ReadyModules

LEMMA SomethingToDo == BidNumbers => Robots # {} /\ Modules # {} /\ ~(0 >= MaxDecisions)
  <1> SUFFICES ASSUME BidNumbers PROVE Robots # {} /\ Modules # {} /\ ~(0 >= MaxDecisions)
    OBVIOUS
  <1>1. PICK n \in Nat \ {0} : Modules = 1..n
    BY NumberedIs DEF BidNumbers
  <1>2. 1 \in Modules
    BY <1>1
  <1>3. Cardinality(Bidding!Strongest(TeamSize[1], Robots)) # 0
    BY <1>2, CapableSize DEF BidNumbers
  <1>4. Robots # {}
    BY <1>3, StrongestAreCandidates, FS_EmptySet
  <1>5. MaxDecisions \in Nat \ {0}
    BY DEF BidNumbers
  <1> QED BY <1>2, <1>4, <1>5

LEMMA BidStart == BidNumbers /\ Bidding!Init => BidInv
  BY SomethingToDo, SameSizes, FS_EmptySet DEF Bidding!Init, Bidding!TeamsSound, BidInv

LEMMA BidKeeps == BidNumbers /\ BidInv /\ [Bidding!Next]_(Bidding!vars) => BidInv'
  <1> SUFFICES ASSUME BidNumbers, BidInv, [Bidding!Next]_(Bidding!vars) PROVE BidInv'
    OBVIOUS
  <1>1. CASE Bidding!Decide
    <2>1. agents = Robots /\ agents # {} /\ completed # Modules
      BY <1>1 DEF Bidding!Decide, BidInv, Bidding!TeamsSound
    <2>2. PICK bids : Bidding!Step(bids)
      BY <1>1 DEF Bidding!Decide
    <2>3. completed \in SUBSET Modules /\ decisionCount \in Nat
      BY DEF BidInv
    <2>4. completed' \in SUBSET Modules
      BY <2>2, <2>3, BidsBuild DEF Bidding!ReadyModules
    <2>5. decisionCount' \in Nat
      BY <2>2, <2>3, BidsBuild
    <2>6. agents' \in {{}, Robots}
          /\ (agents' = {} <=> (completed' = Modules \/ decisionCount' >= MaxDecisions))
      BY <2>1, <2>2, BidsBuild
    <2>7. \A p, q \in assignments' : p # q => p[1] # q[1] /\ p[2] \cap q[2] = {}
      BY <2>2, BidsKeepApart DEF SeparateTeams
    <2>8. ASSUME controller = "scripted"
          PROVE  assignments' = intended' /\ decisionCount' <= Cardinality(completed')
      <3> DEFINE script == Bidding!ScriptedTeams
      <3>1. intended' = script /\ Bidding!Step(Bidding!Bids(script))
        BY <1>1, <2>8 DEF Bidding!Decide
      <3>2. CapableTeams(script, Bidding!ReadyModules) /\ script # {}
        BY <2>1, <2>3, ScriptIsCapable, SomethingIsReady
      <3>3. assignments' = script /\ completed' = completed \cup {p[1] : p \in script}
        <4> HIDE DEF script
        <4> QED BY <2>1, <3>1, <3>2, BidsComeAbout
      <3>4. PICK m \in completed' : m \notin completed
        <4> HIDE DEF script
        <4>1. PICK p \in script : p[1] \in Bidding!ReadyModules
          BY <3>2 DEF CapableTeams
        <4> QED BY <3>3, <4>1 DEF Bidding!ReadyModules
      <3>5. decisionCount <= Cardinality(completed)
        BY <2>8, SameSizes DEF BidInv, Bidding!TeamsSound
      <3>6. IsFiniteSet(completed') /\ IsFiniteSet(completed)
        <4>1. IsFiniteSet(Modules)
          BY NumberedIs, FS_Interval DEF BidNumbers
        <4> QED BY <2>3, <2>4, <4>1, FS_Subset
      <3>7. completed \cup {m} \subseteq completed' /\ Cardinality(completed \cup {m}) = Cardinality(completed) + 1
        BY <2>2, <3>4, <3>6, BidsBuild, FS_AddElement
      <3>8. Cardinality(completed) + 1 <= Cardinality(completed')
        BY <3>6, <3>7, FS_Subset
      <3>9. Cardinality(completed) \in Nat /\ Cardinality(completed') \in Nat
        BY <3>6, FS_CardinalityType
      <3>10. decisionCount' <= Cardinality(completed')
        BY <2>2, <2>3, <3>5, <3>8, <3>9, BidsBuild
      <3> QED BY <3>1, <3>3, <3>10
    <2>9. controller' = controller
      BY <1>1 DEF Bidding!Decide
    <2>10. Bidding!TeamsSound'
      BY <2>6, <2>7, <2>8, <2>9, SameSizes DEF Bidding!TeamsSound
    <2> QED BY <2>4, <2>5, <2>6, <2>10 DEF BidInv
  <1>2. CASE Bidding!Reset
    BY <1>2, SomethingToDo, SameSizes, FS_EmptySet DEF Bidding!Reset, Bidding!TeamsSound, BidInv
  <1>3. CASE UNCHANGED Bidding!vars
    BY <1>3 DEF BidInv, Bidding!vars, Bidding!TeamsSound
  <1> QED BY <1>1, <1>2, <1>3 DEF Bidding!Next

\* Whatever the robots bid, the teams of a decision share no robot, and an episode is
\* over exactly when everything stands or the decisions are used up; what the script has
\* in mind comes about, and it never decides in vain (marl_env.py), for any plan that
\* validate_plan accepts.
THEOREM TeamsAreSound == BidNumbers => (Bidding!Spec => []Bidding!TeamsSound)
  <1> SUFFICES ASSUME BidNumbers PROVE Bidding!Spec => []Bidding!TeamsSound
    OBVIOUS
  <1>1. BidInv => Bidding!TeamsSound
    BY DEF BidInv
  <1>2. Bidding!Init => BidInv
    BY BidStart
  <1>3. BidInv /\ [Bidding!Next]_(Bidding!vars) => BidInv'
    BY BidKeeps
  <1> QED BY <1>1, <1>2, <1>3, PTL DEF Bidding!Spec

LEMMA BidsInOrder ==
    completed \subseteq Modules /\ [Bidding!Next]_(Bidding!vars)
        => (completed \subseteq Modules)' /\ [Raised!Next]_<<Modules, Deps, completed>>
  <1> DEFINE Inv == completed \subseteq Modules
  <1> SUFFICES ASSUME Inv, [Bidding!Next]_(Bidding!vars)
               PROVE  Inv' /\ [Raised!Next]_<<Modules, Deps, completed>>
    OBVIOUS
  <1>1. CASE Bidding!Decide
    <2>1. PICK bids : Bidding!Step(bids)
      BY <1>1 DEF Bidding!Decide
    <2>2. completed \subseteq completed' /\ completed' \ completed \subseteq Bidding!ReadyModules
      BY <2>1, BidsBuild
    <2> QED BY <2>2 DEF Bidding!ReadyModules, Raised!Next, Raised!Install
  <1>2. CASE Bidding!Reset
    BY <1>2 DEF Bidding!Reset, Raised!Next, Raised!Begin
  <1>3. CASE UNCHANGED Bidding!vars
    BY <1>3 DEF Bidding!vars
  <1> QED BY <1>1, <1>2, <1>3 DEF Bidding!Next

\* Whatever they bid, they build in the order of the plan.
THEOREM BidsAreBuild == Bidding!Spec => Raised!Spec
  <1>1. Bidding!Init => Raised!Init /\ completed \subseteq Modules
    BY DEF Bidding!Init, Raised!Init
  <1> QED BY <1>1, BidsInOrder, PTL DEF Bidding!Spec, Raised!Spec

-----------------------------------------------------------------------------
(* Crew and the teams of a schedule.                                     *)

LEMMA HouseOperators ==
    /\ \A S : House!Cardinality(S) = Cardinality(S) /\ House!Min(S) = Min(S) /\ House!Max(S) = Max(S)
    /\ \A k, S : House!kSubset(k, S) = kSubset(k, S)
    /\ \A S, T : House!SymDiff(S, T) = SymDiff(S, T)
  BY DEF Cardinality, House!Cardinality, Min, House!Min, Max, House!Max, kSubset, House!kSubset,
         SymDiff, House!SymDiff

LEMMA PayloadTotal == \A T : House!PayloadOf(T) = Total(CrewPayload, T)
  BY DEF House!PayloadOf, House!MapThenSumSet, House!MapThenFoldSet, Total, MapThenSumSet, MapThenFoldSet

LEMMA RobotFacts ==
    ASSUME HouseNumbers
    PROVE  /\ IsFiniteSet(Crew) /\ Crew \subseteq Nat /\ Cardinality(Crew) \in Nat
           /\ \A r \in Crew : CrewPayload[r] \in Nat /\ Speed[r] \in Nat /\ Speed[r] > 0
  <1>1. PICK n \in Nat : Crew = 1..n
    BY NumberedIs DEF HouseNumbers
  <1>2. IsFiniteSet(Crew) /\ Crew \subseteq Nat
    BY <1>1, FS_Interval
  <1>3. \A r \in Crew : CrewPayload[r] \in Nat /\ Speed[r] \in Nat /\ Speed[r] > 0
    BY DEF HouseNumbers
  <1> QED BY <1>2, <1>3, FS_CardinalityType

LEMMA CeilNat == ASSUME NEW a \in Nat, NEW b \in Nat \ {0} PROVE House!CeilDiv(a, b) \in Nat
  <1>1. (a + b - 1) \in Nat /\ b > 0
    OBVIOUS
  <1>2. \A x, y \in Nat : y > 0 => x \div y \in Nat
    BY Z3
  <1> QED BY <1>1, <1>2 DEF House!CeilDiv

LEMMA TeamFacts ==
    ASSUME HouseNumbers, NEW k \in KindsOfModule, NEW T \in House!Groups(k)
    PROVE  /\ T \in SUBSET Crew /\ T # {} /\ IsFiniteSet(T) /\ Cardinality(T) = k.team
           /\ House!PayloadOf(T) >= k.mass
  <1>1. T \in SUBSET Crew /\ Cardinality(T) = k.team /\ House!PayloadOf(T) >= k.mass
    BY HouseOperators DEF House!Groups, kSubset
  <1>2. IsFiniteSet(Crew) /\ k.team # 0
    BY NumberedIs, FS_Interval DEF HouseNumbers, KindsOfModule
  <1>3. IsFiniteSet(T)
    BY <1>1, <1>2, FS_Subset
  <1> QED BY <1>1, <1>2, <1>3, FS_EmptySet

LEMMA DurationOK ==
    ASSUME HouseNumbers, NEW k \in KindsOfModule, NEW T \in SUBSET Crew, T # {}
    PROVE  House!Duration(k, T) \in Nat /\ House!Duration(k, T) >= PickupTime
  <1> DEFINE V == {Speed[r] : r \in T}
  <1>1. V \in SUBSET (Nat \ {0}) /\ V # {}
    BY DEF HouseNumbers
  <1> HIDE DEF V
  <1>2. Min(V) \in Nat \ {0}
    BY <1>1, LeastIsMin
  <1>3. House!CeilDiv(k.distance, Min(V)) \in Nat /\ k.work \in Nat /\ PickupTime \in Nat
    BY <1>2, CeilNat DEF KindsOfModule, HouseNumbers
  <1>4. House!Duration(k, T) = PickupTime + House!CeilDiv(k.distance, Min(V)) + k.work
    BY HouseOperators DEF House!Duration, V
  <1> QED BY <1>3, <1>4

\* Among some teams there is one that is preferred to all others.
LEMMA FirstIsOne ==
    ASSUME HouseNumbers, NEW teams \in SUBSET (SUBSET Crew), teams # {}
    PROVE  House!First(teams) \in teams
  <1> DEFINE speed(V) == House!MapThenSumSet(LAMBDA r : Speed[r], V)
             R == {p \in teams \X teams : House!Preferred(p[2], p[1])}
  <1>1. IsFiniteSet(Crew) /\ Crew \subseteq Nat
    BY RobotFacts
  <1>2. \A V \in SUBSET Crew : speed(V) \in Int
    <2> TAKE V \in SUBSET Crew
    <2>1. speed(V) = Total(Speed, V)
      BY DEF House!MapThenSumSet, House!MapThenFoldSet, Total, MapThenSumSet, MapThenFoldSet
    <2>2. IsFiniteSet(V)
      BY <1>1, FS_Subset
    <2>3. \A x \in V : Speed[x] \in Int
      BY DEF HouseNumbers
    <2> QED BY <2>1, <2>2, <2>3, TotalWithout
  <1> DEFINE d(T, U) == Min(SymDiff(T, U))
  <1>3. \A T, U \in teams : House!Preferred(T, U) <=>
            T # U /\ (speed(T) > speed(U) \/ (speed(T) = speed(U) /\ d(T, U) \in T))
    BY HouseOperators DEF House!Preferred
  <1>4. ASSUME NEW T \in teams, NEW U \in teams, T # U
        PROVE  /\ d(T, U) \in Nat /\ (d(T, U) \in T <=> d(T, U) \notin U)
               /\ \A x \in Nat : x < d(T, U) => (x \in T <=> x \in U)
    <2> DEFINE D == SymDiff(T, U)
    <2>1. D \in SUBSET Nat /\ D # {} /\ \A x : x \in D <=> ((x \in T) # (x \in U))
      BY <1>1, <1>4 DEF SymDiff
    <2> HIDE DEF D
    <2>2. Min(D) \in D /\ \A y \in D : Min(D) <= y
      BY <2>1, LeastIsMin
    <2>3. ASSUME NEW x \in Nat, x < Min(D), x \in D PROVE FALSE
      <3>1. Min(D) <= x /\ Min(D) \in Nat
        BY <2>1, <2>2, <2>3
      <3> QED BY <2>3, <3>1
    <2> QED BY <2>1, <2>2, <2>3 DEF D
  <1>5. \A T, U : d(T, U) = d(U, T)
    BY DEF SymDiff
  <1> HIDE DEF speed, d
  <1>6. \A T, U \in teams : <<T, U>> \in R <=> House!Preferred(U, T)
    OBVIOUS
  <1>7. \A T \in teams : <<T, T>> \notin R
    BY <1>3, <1>6
  <1>8. ASSUME NEW T \in teams, NEW U \in teams, NEW V \in teams, House!Preferred(T, U), House!Preferred(U, V)
        PROVE  House!Preferred(T, V)
    <2>1. speed(T) \in Int /\ speed(U) \in Int /\ speed(V) \in Int
      BY <1>2
    <2>2. CASE speed(T) = speed(U) /\ speed(U) = speed(V)
      <3>1. T # U /\ U # V /\ d(T, U) \in T /\ d(U, V) \in U
        BY <1>3, <1>8, <2>1, <2>2
      <3> DEFINE a == d(T, U)
                 b == d(U, V)
      <3>2. /\ a \in Nat /\ a \in T /\ a \notin U /\ \A x \in Nat : x < a => (x \in T <=> x \in U)
            /\ b \in Nat /\ b \in U /\ b \notin V /\ \A x \in Nat : x < b => (x \in U <=> x \in V)
        BY <1>4, <3>1
      <3> HIDE DEF a, b
      <3>3. a < b \/ b < a
        <4>1. a # b
          BY <3>2
        <4> QED BY <3>2, <4>1
      <3>4. PICK c \in Nat : c \in T /\ c \notin V /\ \A x \in Nat : x < c => (x \in T <=> x \in V)
        BY <3>2, <3>3
      <3>5. T # V
        BY <3>4
      <3>6. d(T, V) = c
        <4>1. /\ d(T, V) \in Nat /\ (d(T, V) \in T <=> d(T, V) \notin V)
              /\ \A x \in Nat : x < d(T, V) => (x \in T <=> x \in V)
          BY <1>4, <3>5
        <4>2. ~(c < d(T, V)) /\ ~(d(T, V) < c)
          BY <3>4, <4>1
        <4> QED BY <4>1, <4>2
      <3> QED BY <1>3, <2>2, <3>4, <3>5, <3>6
    <2>3. CASE ~(speed(T) = speed(U) /\ speed(U) = speed(V))
      <3>1. speed(T) > speed(V)
        BY <1>3, <1>8, <2>1, <2>3
      <3>2. T # V
        BY <2>1, <3>1
      <3> QED BY <1>3, <3>1, <3>2
    <2> QED BY <2>2, <2>3
  <1>9. ASSUME NEW T \in teams, NEW U \in teams, T # U, ~House!Preferred(U, T) PROVE House!Preferred(T, U)
    <2>1. speed(T) \in Int /\ speed(U) \in Int
      BY <1>2
    <2>2. ~(speed(U) > speed(T)) /\ (speed(U) = speed(T) => d(U, T) \notin U)
      BY <1>3, <1>9
    <2>3. d(U, T) = d(T, U) /\ (d(T, U) \in T <=> d(T, U) \notin U)
      BY <1>4, <1>5, <1>9
    <2> QED BY <1>3, <1>9, <2>1, <2>2, <2>3
  <1>10. IsFiniteSet(teams)
    BY <1>1, FS_SUBSET, FS_Subset
  <1>11. \A T, U, V \in teams : <<T, U>> \in R /\ <<U, V>> \in R => <<T, V>> \in R
    BY <1>6, <1>8
  <1>12. \E T \in teams : \A U \in teams : <<T, U>> \notin R
    <2> HIDE DEF R
    <2> QED BY <1>7, <1>10, <1>11, LastInOrder
  <1>13. \E T \in teams : \A U \in teams \ {T} : House!Preferred(T, U)
    BY <1>6, <1>9, <1>12
  <1> QED BY <1>13 DEF House!First

\* Crew by what they lift, the strongest first.
Above(q, r) == CrewPayload[q] > CrewPayload[r] \/ (CrewPayload[q] = CrewPayload[r] /\ q > r)

Closed(T) == T \in SUBSET Crew /\ \A r \in T, q \in Crew : Above(q, r) => q \in T

LEMMA StrongestExist ==
    ASSUME HouseNumbers, NEW k \in Nat, k <= Cardinality(Crew)
    PROVE  \E T : Closed(T) /\ IsFiniteSet(T) /\ Cardinality(T) = k
  <1> DEFINE Good(n) == \E T : Closed(T) /\ IsFiniteSet(T) /\ Cardinality(T) = n
             bad == {n \in Nat : n <= Cardinality(Crew) /\ ~Good(n)}
  <1>1. /\ IsFiniteSet(Crew) /\ Crew \subseteq Nat /\ Cardinality(Crew) \in Nat
        /\ \A r \in Crew : CrewPayload[r] \in Nat
    BY RobotFacts
  <1> SUFFICES ASSUME bad # {} PROVE FALSE
    OBVIOUS
  <1>2. PICK n \in bad : \A m \in bad : n <= m
    <2>1. bad \subseteq Nat
      OBVIOUS
    <2> HIDE DEF bad
    <2> QED BY <2>1, LeastNumber
  <1>3. n \in Nat /\ n <= Cardinality(Crew) /\ ~Good(n)
    BY <1>2
  <1>4. n # 0
    <2>1. Closed({}) /\ IsFiniteSet({}) /\ Cardinality({}) = 0
      BY FS_EmptySet DEF Closed
    <2> QED BY <1>3, <2>1
  <1>5. Good(n - 1)
    <2>1. n - 1 \in Nat /\ n - 1 <= Cardinality(Crew) /\ ~(n <= n - 1)
      BY <1>1, <1>3, <1>4
    <2>2. n - 1 \notin bad
      <3> HIDE DEF bad
      <3> QED BY <1>2, <2>1
    <2> QED BY <2>1, <2>2
  <1>6. PICK T : Closed(T) /\ IsFiniteSet(T) /\ Cardinality(T) = n - 1
    BY <1>5
  <1> DEFINE S == Crew \ T
             R == {p \in S \X S : Above(p[2], p[1])}
  <1>7. S # {} /\ IsFiniteSet(S)
    <2>1. IsFiniteSet(S)
      BY <1>1, FS_Difference
    <2>2. Crew # T
      BY <1>1, <1>3, <1>6
    <2> QED BY <1>6, <2>1, <2>2 DEF Closed
  <1>8. PICK r \in S : \A q \in S : ~Above(q, r)
    <2>1. \A x, y \in S : <<x, y>> \in R <=> Above(y, x)
      OBVIOUS
    <2>2. \A x \in S : x \in Nat /\ CrewPayload[x] \in Nat
      BY <1>1
    <2> HIDE DEF S, R
    <2>3. /\ \A x \in S : <<x, x>> \notin R
          /\ \A x, y, z \in S : <<x, y>> \in R /\ <<y, z>> \in R => <<x, z>> \in R
      BY <2>1, <2>2 DEF Above
    <2>4. \E r \in S : \A q \in S : <<r, q>> \notin R
      BY <1>7, <2>3, LastInOrder
    <2> QED BY <2>1, <2>4
  <1> DEFINE U == T \cup {r}
  <1>9. Closed(U)
    <2>1. U \in SUBSET Crew
      BY <1>6, <1>8 DEF Closed
    <2>2. ASSUME NEW x \in U, NEW q \in Crew, Above(q, x) PROVE q \in U
      BY <1>6, <1>8, <2>2 DEF Closed
    <2> QED BY <2>1, <2>2 DEF Closed
  <1>10. IsFiniteSet(U) /\ Cardinality(U) = n
    <2>1. r \notin T
      BY <1>8
    <2>2. IsFiniteSet(U) /\ Cardinality(U) = Cardinality(T) + 1
      BY <1>6, <2>1, FS_AddElement
    <2> QED BY <1>3, <1>6, <2>2
  <1> QED BY <1>3, <1>9, <1>10

LEMMA StrongestAre ==
    ASSUME HouseNumbers, NEW k \in Nat, k <= Cardinality(Crew)
    PROVE  Closed(House!Strongest(k)) /\ Cardinality(House!Strongest(k)) = k
  <1>1. /\ IsFiniteSet(Crew) /\ Crew \subseteq Nat /\ \A r \in Crew : CrewPayload[r] \in Nat
    BY RobotFacts
  <1>2. PICK T : Closed(T) /\ IsFiniteSet(T) /\ Cardinality(T) = k
    BY StrongestExist
  <1> DEFINE over(r) == {q \in Crew : Above(q, r)}
  <1>3. House!Strongest(k) = {r \in Crew : Cardinality(over(r)) < k}
    BY HouseOperators DEF House!Strongest, Above
  <1>4. \A r \in Crew : IsFiniteSet(over(r)) /\ Cardinality(over(r)) \in Nat
    BY <1>1, FS_Subset, FS_CardinalityType
  <1>5. ASSUME NEW r \in T PROVE Cardinality(over(r)) < k
    <2>1. r \in Crew /\ CrewPayload[r] \in Nat /\ r \in Nat
      BY <1>1, <1>2 DEF Closed
    <2>2. ASSUME NEW q \in over(r) PROVE q \in T \ {r}
      <3>1. q \in T
        BY <1>2 DEF Closed
      <3>2. q # r
        BY <2>1 DEF Above
      <3> QED BY <3>1, <3>2
    <2>3. IsFiniteSet(T \ {r}) /\ Cardinality(T \ {r}) = k - 1
      BY <1>2, FS_RemoveElement
    <2> DEFINE o == over(r)
    <2>4. o \subseteq T \ {r} /\ Cardinality(o) \in Nat
      BY <1>4, <2>1, <2>2
    <2> HIDE DEF o
    <2>5. Cardinality(o) <= k - 1
      BY <2>3, <2>4, FS_Subset
    <2> QED BY <2>4, <2>5 DEF o
  <1>6. ASSUME NEW r \in Crew \ T PROVE ~(Cardinality(over(r)) < k)
    <2>1. T \subseteq over(r)
      <3> SUFFICES ASSUME NEW q \in T PROVE Above(q, r)
        BY <1>2 DEF Closed
      <3>1. q \in Crew /\ ~Above(r, q) /\ q # r
        BY <1>2 DEF Closed
      <3> QED BY <1>1, <3>1 DEF Above
    <2>2. Cardinality(T) <= Cardinality(over(r))
      <3> HIDE DEF over
      <3> QED BY <1>4, <2>1, FS_Subset
    <2> QED BY <1>2, <1>4, <2>2
  <1>7. House!Strongest(k) = T
    <2> HIDE DEF over
    <2> QED BY <1>2, <1>3, <1>5, <1>6 DEF Closed
  <1> QED BY <1>2, <1>7

\* No team of one size lifts more than the strongest.
LEMMA StrongestLiftMost ==
    ASSUME HouseNumbers, NEW k \in Nat, k <= Cardinality(Crew),
           NEW T \in SUBSET Crew, Cardinality(T) = k
    PROVE  House!PayloadOf(T) <= House!PayloadOf(House!Strongest(k))
  <1> DEFINE S == House!Strongest(k)
             A == T \ S
             B == S \ T
             C == T \cap S
  <1>1. /\ IsFiniteSet(Crew) /\ Crew \subseteq Nat /\ \A r \in Crew : CrewPayload[r] \in Nat
    BY RobotFacts
  <1>2. Closed(S) /\ Cardinality(S) = k
    BY StrongestAre
  <1> HIDE DEF S
  <1>3. S \in SUBSET Crew /\ IsFiniteSet(S) /\ IsFiniteSet(T)
    BY <1>1, <1>2, FS_Subset DEF Closed
  <1>4. /\ IsFiniteSet(A) /\ IsFiniteSet(B) /\ IsFiniteSet(C)
        /\ Cardinality(A) = Cardinality(B) /\ Cardinality(A) \in Nat
    <2>1. IsFiniteSet(A) /\ Cardinality(A) = Cardinality(T) - Cardinality(T \cap S)
      BY <1>3, FS_Difference
    <2>2. IsFiniteSet(B) /\ Cardinality(B) = Cardinality(S) - Cardinality(S \cap T)
      BY <1>3, FS_Difference
    <2>3. S \cap T = T \cap S
      OBVIOUS
    <2>4. IsFiniteSet(C)
      BY <1>3, FS_Intersection
    <2> QED BY <1>2, <2>1, <2>2, <2>3, <2>4, FS_CardinalityType
  <1>5. Total(CrewPayload, T) = Total(CrewPayload, A) + Total(CrewPayload, C)
    <2>1. A \cup C = T /\ A \cap C = {} /\ \A x \in A \cup C : CrewPayload[x] \in Int
      BY <1>1
    <2> HIDE DEF A, C
    <2>2. Total(CrewPayload, A \cup C) = Total(CrewPayload, A) + Total(CrewPayload, C)
      BY <1>4, <2>1, TotalUnion
    <2> QED BY <2>1, <2>2
  <1>6. Total(CrewPayload, S) = Total(CrewPayload, B) + Total(CrewPayload, C)
    <2>1. B \cup C = S /\ B \cap C = {} /\ \A x \in B \cup C : CrewPayload[x] \in Int
      BY <1>1, <1>3
    <2> HIDE DEF B, C
    <2>2. Total(CrewPayload, B \cup C) = Total(CrewPayload, B) + Total(CrewPayload, C)
      BY <1>4, <2>1, TotalUnion
    <2> QED BY <2>1, <2>2
  <1>7. /\ \A x \in A : CrewPayload[x] \in Int
        /\ \A x \in B : CrewPayload[x] \in Int
        /\ \A x \in C : CrewPayload[x] \in Int
    BY <1>1, <1>3
  <1>8. \A a \in A, b \in B : CrewPayload[a] <= CrewPayload[b]
    <2> TAKE a \in A, b \in B
    <2>1. a \in Crew /\ b \in Crew /\ ~Above(a, b)
      BY <1>2 DEF Closed
    <2> QED BY <1>1, <2>1 DEF Above
  <1>9. Total(CrewPayload, A) <= Total(CrewPayload, B)
    <2>1. CASE A = {}
      <3>1. B = {}
        <4>1. Cardinality(B) = 0
          BY <1>4, <2>1, FS_EmptySet
        <4> HIDE DEF B
        <4> QED BY <1>4, <4>1, FS_EmptySet
      <3>2. Total(CrewPayload, {}) \in Int
        BY <1>7, <1>4, <2>1, TotalWithout
      <3> QED BY <2>1, <3>1, <3>2
    <2>2. CASE A # {}
      <3> DEFINE V == {CrewPayload[x] : x \in A}
      <3>1. V \in SUBSET Nat /\ V # {} /\ IsFiniteSet(V)
        <4>1. V \in SUBSET Nat /\ V # {}
          BY <1>1, <2>2
        <4>2. IsFiniteSet(V)
          <5> DEFINE m == [x \in A |-> CrewPayload[x]]
          <5>1. m \in Surjection(A, V)
            BY DEF Surjection
          <5> HIDE DEF m, A, V
          <5> QED BY <1>4, <5>1, FS_Surjection
        <4> QED BY <4>1, <4>2
      <3> DEFINE c == Max(V)
      <3>2. c \in V /\ \A y \in V : y <= c
        <4> HIDE DEF V
        <4> QED BY <3>1, FiniteMax
      <3>3. c \in Int /\ (\A x \in A : CrewPayload[x] <= c) /\ (\A x \in B : CrewPayload[x] >= c)
        <4>1. \A x \in A : CrewPayload[x] <= c
          BY <3>2
        <4>2. PICK a \in A : c = CrewPayload[a]
          BY <3>2
        <4>3. \A x \in B : CrewPayload[x] >= c
          <5> TAKE x \in B
          <5>1. CrewPayload[a] <= CrewPayload[x] /\ CrewPayload[a] \in Int /\ CrewPayload[x] \in Int
            BY <1>7, <1>8
          <5> QED BY <4>2, <5>1
        <4> QED BY <1>7, <4>1, <4>2, <4>3
      <3> HIDE DEF c, A, B
      <3>4. Total(CrewPayload, A) <= c * Cardinality(A)
        BY <1>4, <1>7, <3>3, TotalBound
      <3>5. Total(CrewPayload, B) >= c * Cardinality(B)
        BY <1>4, <1>7, <3>3, TotalBound
      <3>6. c * Cardinality(A) \in Int /\ Total(CrewPayload, A) \in Int /\ Total(CrewPayload, B) \in Int
        BY <1>4, <1>7, <3>3, TotalWithout
      <3> QED BY <1>4, <3>4, <3>5, <3>6
    <2> QED BY <2>1, <2>2
  <1>10. Total(CrewPayload, A) \in Int /\ Total(CrewPayload, B) \in Int /\ Total(CrewPayload, C) \in Int
    <2> HIDE DEF A, B, C
    <2> QED BY <1>4, <1>7, TotalWithout
  <1>11. Total(CrewPayload, T) <= Total(CrewPayload, S)
    BY <1>5, <1>6, <1>9, <1>10
  <1> QED BY <1>11, PayloadTotal DEF S

-----------------------------------------------------------------------------
(* Plans.                                                                  *)

\* Modules in the order of their ids, which rest on each other in any way.
PlanOK(p) ==
    \E n \in Nat \ {0} : p.deps \in [1..n -> SUBSET (1..n)] /\ p.kind \in [1..n -> KindsOfModule]

LEMMA PlanFacts ==
    ASSUME NEW p, PlanOK(p)
    PROVE  LET M == House!ModulesOf(p)
           IN  /\ IsFiniteSet(M) /\ M \subseteq Nat /\ M # {} /\ Cardinality(M) \in Nat
               /\ Cardinality(M) # 0 /\ House!Cardinality(M) = Cardinality(M)
               /\ \A m \in M : p.deps[m] \in SUBSET M /\ p.kind[m] \in KindsOfModule
  <1>1. PICK n \in Nat \ {0} : p.deps \in [1..n -> SUBSET (1..n)] /\ p.kind \in [1..n -> KindsOfModule]
    BY DEF PlanOK
  <1>2. House!ModulesOf(p) = 1..n
    BY <1>1 DEF House!ModulesOf
  <1> DEFINE S == 1..n
  <1>3. IsFiniteSet(S) /\ Cardinality(S) = n
    BY FS_Interval
  <1>4. S \subseteq Nat /\ S # {} /\ n # 0
    <2>1. 1 \in S
      OBVIOUS
    <2> QED BY <2>1
  <1>5. House!Cardinality(S) = Cardinality(S)
    BY HouseOperators
  <1>6. \A m \in S : p.deps[m] \in SUBSET S /\ p.kind[m] \in KindsOfModule
    BY <1>1
  <1> HIDE DEF S
  <1> QED BY <1>2, <1>3, <1>4, <1>5, <1>6 DEF S

LEMMA RoundsAre ==
    ASSUME NEW p, PlanOK(p)
    PROVE  LET M == House!ModulesOf(p)
               n == Cardinality(M)
               taken == House!Rounds(p)
           IN  /\ taken \in [0..n -> SUBSET M] /\ taken[0] = {}
               /\ \A t \in 1..n : taken[t] = taken[t - 1] \cup House!ReadyAfter(p, taken[t - 1])
  <1> DEFINE M == House!ModulesOf(p)
             n == Cardinality(M)
             X == SUBSET M
             step == [t \in Nat |-> [b \in X |-> b \cup House!ReadyAfter(p, b)]]
             Body(f) == [t \in 0..n |-> IF t = 0 THEN {} ELSE f[t - 1] \cup House!ReadyAfter(p, f[t - 1])]
             taken == CHOOSE f : f = Body(f)
  <1>1. House!Rounds(p) = taken
    <2>1. House!Cardinality(M) = n
      BY HouseOperators
    <2> QED BY <2>1 DEF House!Rounds
  <1>2. n \in Nat
    BY PlanFacts
  <1> HIDE DEF n
  <1>3. \A b \in X : House!ReadyAfter(p, b) \in X
    BY DEF House!ReadyAfter
  <1>4. PICK base \in X : base = {}
    OBVIOUS
  <1>5. step \in [Nat -> [X -> X]]
    BY <1>3
  <1>6. \A t \in Nat, b \in X : step[t][b] = b \cup House!ReadyAfter(p, b)
    OBVIOUS
  <1> HIDE DEF step, X
  <1>7. PICK f : Iterates(f, X, base, step, n)
    BY <1>2, <1>5, Recursion
  <1>8. f = Body(f)
    <2>1. f \in [0..n -> X] /\ f[0] = {} /\ \A t \in 1..n : f[t] = step[t][f[t - 1]]
      BY <1>4, <1>7 DEF Iterates
    <2>2. ASSUME NEW t \in 0..n, t # 0 PROVE f[t] = f[t - 1] \cup House!ReadyAfter(p, f[t - 1])
      <3>1. t \in 1..n /\ t - 1 \in 0..n /\ t \in Nat
        BY <1>2, <2>2
      <3> QED BY <1>6, <2>1, <3>1
    <2> QED BY <2>1, <2>2
  <1>9. taken = Body(taken)
    <2> HIDE DEF Body
    <2> QED BY <1>8
  <1> HIDE DEF taken
  <1>10. taken[0] = {} /\ \A t \in 1..n : taken[t] = taken[t - 1] \cup House!ReadyAfter(p, taken[t - 1])
    <2>1. \A t \in 0..n : taken[t] = IF t = 0 THEN {} ELSE taken[t - 1] \cup House!ReadyAfter(p, taken[t - 1])
      BY <1>9
    <2>2. 0 \in 0..n
      BY <1>2
    <2>3. ASSUME NEW t \in 1..n PROVE taken[t] = taken[t - 1] \cup House!ReadyAfter(p, taken[t - 1])
      <3>1. t \in 0..n /\ t # 0
        BY <1>2
      <3> QED BY <2>1, <3>1
    <2> QED BY <2>1, <2>2, <2>3
  <1>11. \A t \in 0..n : taken[t] \in X
    <2> DEFINE bad == {t \in 0..n : taken[t] \notin X}
    <2> SUFFICES ASSUME bad # {} PROVE FALSE
      OBVIOUS
    <2>1. PICK t \in bad : \A u \in bad : t <= u
      <3>1. bad \in SUBSET Nat
        BY <1>2
      <3> HIDE DEF bad
      <3> QED BY <3>1, LeastNumber
    <2>2. t \in 0..n /\ taken[t] \notin X
      BY <2>1
    <2>3. t # 0
      BY <1>4, <1>10, <2>2
    <2>4. t - 1 \in 0..n /\ t \in 1..n /\ ~(t <= t - 1)
      BY <1>2, <2>2, <2>3
    <2>5. taken[t - 1] \in X
      BY <2>1, <2>4
    <2> QED BY <1>3, <1>10, <2>2, <2>4, <2>5 DEF X
  <1>12. taken \in [0..n -> X]
    BY <1>9, <1>11
  <1> QED BY <1>1, <1>10, <1>12 DEF n, X

\* When a part is taken, it rests on parts that were taken before.
Round(p, x) == Min({t \in DOMAIN House!Rounds(p) : x \in House!Rounds(p)[t]})

LEMMA RoundsOfParts ==
    ASSUME NEW p, PlanOK(p), House!Acyclic(p), NEW x \in House!ModulesOf(p)
    PROVE  /\ Round(p, x) \in Nat
           /\ \A d \in p.deps[x] : d \in House!ModulesOf(p) /\ Round(p, d) \in Nat /\ Round(p, d) < Round(p, x)
  <1> DEFINE M == House!ModulesOf(p)
             n == Cardinality(M)
             taken == House!Rounds(p)
             rounds(y) == {t \in DOMAIN taken : y \in taken[t]}
  <1>1. /\ taken \in [0..n -> SUBSET M] /\ taken[0] = {}
        /\ \A t \in 1..n : taken[t] = taken[t - 1] \cup House!ReadyAfter(p, taken[t - 1])
    BY RoundsAre
  <1>2. n \in Nat /\ House!Cardinality(M) = n
    BY PlanFacts
  <1>3. taken[n] = M
    BY <1>2 DEF House!Acyclic
  <1> HIDE DEF taken, n
  <1>4. ASSUME NEW y \in M PROVE /\ Min(rounds(y)) \in rounds(y) /\ rounds(y) \subseteq Nat
                                 /\ \A t \in rounds(y) : Min(rounds(y)) <= t
    <2>1. rounds(y) \subseteq Nat /\ n \in rounds(y)
      BY <1>1, <1>2, <1>3
    <2> HIDE DEF rounds
    <2>2. rounds(y) # {}
      BY <2>1
    <2> QED BY <2>1, <2>2, LeastIsMin
  <1> DEFINE r == Min(rounds(x))
  <1>5. r \in 0..n /\ x \in taken[r] /\ \A t \in rounds(x) : r <= t
    BY <1>1, <1>4
  <1>6. r # 0
    BY <1>1, <1>5
  <1>7. r - 1 \in 0..n /\ r \in 1..n /\ r \in Nat /\ ~(r <= r - 1)
    BY <1>2, <1>5, <1>6
  <1>8. x \notin taken[r - 1]
    BY <1>1, <1>5, <1>7
  <1> HIDE DEF r
  <1>9. p.deps[x] \subseteq taken[r - 1]
    BY <1>1, <1>5, <1>7, <1>8 DEF House!ReadyAfter
  <1>10. ASSUME NEW d \in p.deps[x] PROVE d \in M /\ Min(rounds(d)) \in Nat /\ Min(rounds(d)) < r
    <2>1. d \in taken[r - 1] /\ d \in M
      BY <1>1, <1>7, <1>9
    <2>2. r - 1 \in rounds(d)
      BY <1>1, <1>7, <2>1
    <2>3. Min(rounds(d)) \in Nat /\ Min(rounds(d)) <= r - 1
      BY <1>4, <2>1, <2>2
    <2> QED BY <1>7, <2>1, <2>3
  <1> QED BY <1>7, <1>10 DEF r, Round, taken

\* Topological order exists exactly if no modules wait for each other.
LEMMA AcyclicIsSound ==
    ASSUME NEW p, PlanOK(p) PROVE House!Acyclic(p) <=> House!NoSink(p)
  <1> DEFINE M == House!ModulesOf(p)
             n == Cardinality(M)
             taken == House!Rounds(p)
  <1>1. /\ IsFiniteSet(M) /\ n \in Nat /\ House!Cardinality(M) = n
        /\ \A m \in M : p.deps[m] \in SUBSET M
    BY PlanFacts
  <1>2. ASSUME House!Acyclic(p), NEW S \in SUBSET M, S # {}
        PROVE  \E m \in S : p.deps[m] \cap S = {}
    <2> DEFINE rounds == {Round(p, x) : x \in S}
    <2>1. \A x \in S : Round(p, x) \in Nat /\ \A d \in p.deps[x] : Round(p, d) \in Nat /\ Round(p, d) < Round(p, x)
      BY <1>2, RoundsOfParts
    <2>2. PICK r \in rounds : \A t \in rounds : r <= t
      <3>1. rounds \in SUBSET Nat /\ rounds # {}
        BY <1>2, <2>1
      <3> HIDE DEF rounds
      <3> QED BY <3>1, LeastNumber
    <2>3. PICK m \in S : r = Round(p, m)
      BY <2>2
    <2>4. ASSUME NEW d \in p.deps[m], d \in S PROVE FALSE
      <3>1. r <= Round(p, d) /\ Round(p, d) \in Nat /\ Round(p, d) < r /\ r \in Nat
        BY <2>1, <2>2, <2>3, <2>4
      <3> QED BY <3>1
    <2> QED BY <2>4
  <1>3. ASSUME House!NoSink(p) PROVE taken[n] = M
    <2>1. /\ taken \in [0..n -> SUBSET M] /\ taken[0] = {}
          /\ \A t \in 1..n : taken[t] = taken[t - 1] \cup House!ReadyAfter(p, taken[t - 1])
      BY RoundsAre
    <2>2. \A S \in SUBSET M : S # {} => \E m \in S : p.deps[m] \cap S = {}
      BY <1>3 DEF House!NoSink
    <2> HIDE DEF taken, n, M
    <2>3. \A t \in 0..n : IsFiniteSet(taken[t]) /\ taken[t] \subseteq M /\ Cardinality(taken[t]) \in Nat
      <3> TAKE t \in 0..n
      <3>1. taken[t] \in SUBSET M
        BY <2>1
      <3> QED BY <1>1, <3>1, FS_Subset, FS_CardinalityType
    <2> DEFINE bad == {t \in 0..n : Cardinality(taken[t]) < t}
    <2>4. bad = {}
      <3> SUFFICES ASSUME bad # {} PROVE FALSE
        OBVIOUS
      <3>1. PICK t \in bad : \A u \in bad : t <= u
        <4>1. bad \in SUBSET Nat
          BY <1>1
        <4> HIDE DEF bad
        <4> QED BY <4>1, LeastNumber
      <3>2. t \in 0..n /\ Cardinality(taken[t]) < t
        BY <3>1
      <3>3. t # 0
        BY <2>3, <3>2
      <3>4. t - 1 \in 0..n /\ t \in 1..n /\ t \in Nat
        BY <1>1, <3>2, <3>3
      <3>5. ~(Cardinality(taken[t - 1]) < t - 1)
        BY <3>1, <3>4
      <3>6. taken[t] = taken[t - 1] \cup House!ReadyAfter(p, taken[t - 1])
        BY <2>1, <3>4
      <3> DEFINE S == M \ taken[t - 1]
      <3>7. CASE S = {}
        <4>1. taken[t] = M
          BY <2>3, <3>2, <3>4, <3>6, <3>7
        <4> QED BY <1>1, <3>2, <4>1 DEF n
      <3>8. CASE S # {}
        <4>1. PICK m \in S : p.deps[m] \cap S = {}
          BY <2>2, <3>8
        <4>2. m \in House!ReadyAfter(p, taken[t - 1])
          BY <1>1, <4>1 DEF House!ReadyAfter, M
        <4> DEFINE A == taken[t - 1]
                   B == taken[t]
        <4>3. m \notin A /\ A \cup {m} \subseteq B
          BY <3>6, <4>1, <4>2
        <4>4. IsFiniteSet(A) /\ IsFiniteSet(B) /\ Cardinality(A) \in Nat /\ Cardinality(B) \in Nat
          BY <2>3, <3>2, <3>4
        <4>5. ~(Cardinality(A) < t - 1) /\ Cardinality(B) < t
          BY <3>2, <3>5
        <4> HIDE DEF A, B
        <4>6. Cardinality(A \cup {m}) = Cardinality(A) + 1
          BY <4>3, <4>4, FS_AddElement
        <4>7. Cardinality(A \cup {m}) <= Cardinality(B)
          BY <4>3, <4>4, FS_Subset
        <4> QED BY <3>4, <4>4, <4>5, <4>6, <4>7
      <3> QED BY <3>7, <3>8
    <2>5. ~(Cardinality(taken[n]) < n) /\ n \in 0..n
      BY <1>1, <2>4
    <2>6. Cardinality(taken[n]) <= n
      BY <1>1, <2>3, <2>5, FS_Subset DEF n
    <2>7. Cardinality(taken[n]) = Cardinality(M)
      BY <1>1, <2>3, <2>5, <2>6 DEF n
    <2> QED BY <1>1, <2>3, <2>5, <2>7, FS_Subset
  <1>4. House!Acyclic(p) <=> taken[n] = M
    BY <1>1 DEF House!Acyclic
  <1> QED BY <1>2, <1>3, <1>4 DEF House!NoSink

\* Some team can carry a module just if the strongest one can.
LEMMA GroupsExist ==
    ASSUME HouseNumbers, NEW k \in KindsOfModule
    PROVE  House!Groups(k) # {} <=>
               k.team <= Cardinality(Crew) /\ House!PayloadOf(House!Strongest(k.team)) >= k.mass
  <1>1. /\ IsFiniteSet(Crew) /\ Cardinality(Crew) \in Nat /\ k.team \in Nat /\ k.mass \in Nat
        /\ \A r \in Crew : CrewPayload[r] \in Int
    BY RobotFacts DEF KindsOfModule
  <1>2. \A T : T \in House!Groups(k) <=>
                T \in SUBSET Crew /\ Cardinality(T) = k.team /\ House!PayloadOf(T) >= k.mass
    BY HouseOperators DEF House!Groups, kSubset
  <1>3. \A T \in SUBSET Crew : IsFiniteSet(T) /\ House!PayloadOf(T) \in Int
    <2> TAKE T \in SUBSET Crew
    <2>1. IsFiniteSet(T)
      BY <1>1, FS_Subset
    <2>2. \A r \in T : CrewPayload[r] \in Int
      BY <1>1
    <2>3. Total(CrewPayload, T) \in Int
      BY <2>1, <2>2, TotalWithout
    <2> QED BY <2>1, <2>3, PayloadTotal
  <1>4. ASSUME NEW T \in House!Groups(k)
        PROVE  k.team <= Cardinality(Crew) /\ House!PayloadOf(House!Strongest(k.team)) >= k.mass
    <2>1. T \in SUBSET Crew /\ Cardinality(T) = k.team /\ House!PayloadOf(T) >= k.mass
      BY <1>2
    <2>2. k.team <= Cardinality(Crew)
      BY <1>1, <2>1, FS_Subset
    <2>3. House!PayloadOf(T) <= House!PayloadOf(House!Strongest(k.team))
      BY <1>1, <2>1, <2>2, StrongestLiftMost
    <2>4. House!Strongest(k.team) \in SUBSET Crew
      BY <1>1, <2>2, StrongestAre DEF Closed
    <2> DEFINE S == House!Strongest(k.team)
    <2>5. House!PayloadOf(S) \in Int /\ House!PayloadOf(T) \in Int
      BY <1>3, <2>1, <2>4
    <2> QED BY <1>1, <2>1, <2>2, <2>3, <2>5
  <1>5. ASSUME k.team <= Cardinality(Crew), House!PayloadOf(House!Strongest(k.team)) >= k.mass
        PROVE  House!Strongest(k.team) \in House!Groups(k)
    BY <1>1, <1>2, <1>5, StrongestAre DEF Closed
  <1> QED BY <1>4, <1>5

\* The plans that are valid are the ones that somebody can build.
Buildable(p) == House!NoSink(p) /\ \A m \in House!ModulesOf(p) : House!Groups(p.kind[m]) # {}

LEMMA ValidIsBuildable ==
    ASSUME HouseNumbers, NEW p, PlanOK(p) PROVE House!Valid(p) <=> Buildable(p)
  <1> DEFINE M == House!ModulesOf(p)
  <1>1. \A m \in M : p.deps[m] \in SUBSET M /\ p.kind[m] \in KindsOfModule
    BY PlanFacts
  <1>2. House!Acyclic(p) <=> House!NoSink(p)
    BY AcyclicIsSound
  <1>3. \A m \in M : House!Groups(p.kind[m]) # {} <=>
            /\ p.kind[m].team <= Cardinality(Crew)
            /\ House!PayloadOf(House!Strongest(p.kind[m].team)) >= p.kind[m].mass
    BY <1>1, GroupsExist
  <1>4. ASSUME House!NoSink(p), NEW m \in M PROVE m \notin p.deps[m]
    <2>1. {m} \in SUBSET M /\ {m} # {}
      OBVIOUS
    <2>2. \E k \in {m} : p.deps[k] \cap {m} = {}
      BY <1>4, <2>1 DEF House!NoSink
    <2> QED BY <2>2
  <1>5. House!Cardinality(Crew) = Cardinality(Crew)
    BY HouseOperators
  <1> QED BY <1>2, <1>3, <1>4, <1>5 DEF House!Valid, Buildable

\* What the sequential controller takes next rests on nothing that waits.
LEMMA NextInRounds ==
    ASSUME PlanOK(plan), House!Acyclic(plan), NEW S \in SUBSET House!Mods, S # {}
    PROVE  LET m == CHOOSE m \in S : \A k \in S \ {m} : House!Before(m, k)
           IN  m \in S /\ plan.deps[m] \cap S = {}
  <1> DEFINE M == House!Mods
             R == {p \in S \X S : House!Before(p[2], p[1])}
  <1>1. IsFiniteSet(S) /\ S \subseteq Nat /\ M = House!ModulesOf(plan)
    <2>1. IsFiniteSet(M) /\ M \subseteq Nat
      BY PlanFacts DEF House!Mods
    <2> QED BY <2>1, FS_Subset DEF House!Mods
  <1>2. \A x \in S : Round(plan, x) \in Nat /\ x \in Nat
    BY <1>1, RoundsOfParts
  <1>3. \A m, k : House!Before(m, k) <=>
            Round(plan, m) < Round(plan, k) \/ (Round(plan, m) = Round(plan, k) /\ m < k)
    BY HouseOperators DEF House!Before, Round
  <1>4. \A x, y \in S : <<x, y>> \in R <=> House!Before(y, x)
    OBVIOUS
  <1> HIDE DEF R
  <1>5. /\ \A x \in S : <<x, x>> \notin R
        /\ \A x, y, z \in S : <<x, y>> \in R /\ <<y, z>> \in R => <<x, z>> \in R
    BY <1>2, <1>3, <1>4
  <1>6. PICK m \in S : \A k \in S : <<m, k>> \notin R
    BY <1>1, <1>5, LastInOrder
  <1>7. ASSUME NEW k \in S \ {m} PROVE House!Before(m, k)
    <2>1. ~House!Before(k, m) /\ k \in S /\ k # m
      BY <1>4, <1>6
    <2>2. Round(plan, m) \in Nat /\ Round(plan, k) \in Nat /\ m \in Nat /\ k \in Nat
      BY <1>2
    <2> QED BY <1>3, <2>1, <2>2
  <1> DEFINE c == CHOOSE x \in S : \A k \in S \ {x} : House!Before(x, k)
  <1>8. c \in S /\ \A k \in S \ {c} : House!Before(c, k)
    BY <1>7
  <1> HIDE DEF c
  <1>9. ASSUME NEW d \in plan.deps[c], d \in S PROVE FALSE
    <2>1. c \in House!ModulesOf(plan)
      BY <1>1, <1>8
    <2>2. Round(plan, d) \in Nat /\ Round(plan, d) < Round(plan, c) /\ Round(plan, c) \in Nat
      BY <2>1, RoundsOfParts
    <2>3. d # c
      BY <2>2
    <2>4. House!Before(c, d)
      BY <1>8, <1>9, <2>3
    <2> QED BY <1>3, <2>2, <2>4
  <1> QED BY <1>8, <1>9 DEF c

LEMMA DepthNat == ASSUME PlanOK(plan), NEW m PROVE House!Depth(m) \in Nat
  <1> DEFINE M == House!Mods
             n == Cardinality(M)
             above(b) == {k \in M : plan.deps[k] \cap b # {}}
             X == (SUBSET M) \cup {{m}}
             step == [t \in Nat |-> [b \in X |-> above(b)]]
             Under(f) == [t \in 0..n |-> IF t = 0 THEN {m} ELSE above(f[t - 1])]
             under == CHOOSE f : f = Under(f)
  <1>1. House!Depth(m) = Cardinality({t \in DOMAIN under : under[t] # {}})
    <2>1. House!Cardinality(M) = n
      BY HouseOperators
    <2> QED BY <2>1, HouseOperators DEF House!Depth
  <1>2. n \in Nat
    BY PlanFacts DEF House!Mods
  <1> HIDE DEF n
  <1>3. PICK base \in X : base = {m}
    OBVIOUS
  <1>4. step \in [Nat -> [X -> X]]
    OBVIOUS
  <1>5. \A t \in Nat, b \in X : step[t][b] = above(b)
    OBVIOUS
  <1> HIDE DEF step, X, above
  <1>6. PICK f : Iterates(f, X, base, step, n)
    BY <1>2, <1>4, Recursion
  <1>7. f = Under(f)
    <2>1. f \in [0..n -> X] /\ f[0] = {m} /\ \A t \in 1..n : f[t] = step[t][f[t - 1]]
      BY <1>3, <1>6 DEF Iterates
    <2>2. ASSUME NEW t \in 0..n, t # 0 PROVE f[t] = above(f[t - 1])
      <3>1. t \in 1..n /\ t - 1 \in 0..n /\ t \in Nat
        BY <1>2, <2>2
      <3> QED BY <1>5, <2>1, <3>1
    <2> QED BY <2>1, <2>2
  <1>8. under = Under(under)
    <2> HIDE DEF Under
    <2> QED BY <1>7
  <1> HIDE DEF under
  <1>9. DOMAIN under = 0..n
    BY <1>8
  <1> DEFINE D == {t \in DOMAIN under : under[t] # {}}
  <1>10. IsFiniteSet(D)
    <2>1. D \subseteq 0..n
      BY <1>9
    <2>2. IsFiniteSet(0..n)
      BY <1>2, FS_Interval
    <2> HIDE DEF D
    <2> QED BY <2>1, <2>2, FS_Subset
  <1>11. Cardinality(D) \in Nat
    <2> HIDE DEF D
    <2> QED BY <1>10, FS_CardinalityType
  <1> QED BY <1>1, <1>11

\* Some module is the most critical one.
LEMMA MostCritical ==
    ASSUME PlanOK(plan), NEW S \in SUBSET House!Mods, S # {}
    PROVE  (CHOOSE m \in S : \A k \in S \ {m} : \/ House!Depth(m) > House!Depth(k)
                                                \/ House!Depth(m) = House!Depth(k) /\ m < k) \in S
  <1> DEFINE Better(m, k) == House!Depth(m) > House!Depth(k) \/ (House!Depth(m) = House!Depth(k) /\ m < k)
             R == {p \in S \X S : Better(p[2], p[1])}
  <1>1. IsFiniteSet(S) /\ S \subseteq Nat
    <2>1. IsFiniteSet(House!Mods) /\ House!Mods \subseteq Nat
      BY PlanFacts DEF House!Mods
    <2> QED BY <2>1, FS_Subset
  <1>2. \A x \in S : House!Depth(x) \in Nat /\ x \in Nat
    BY <1>1, DepthNat
  <1>3. \A x, y \in S : <<x, y>> \in R <=> Better(y, x)
    OBVIOUS
  <1> HIDE DEF R
  <1>4. /\ \A x \in S : <<x, x>> \notin R
        /\ \A x, y, z \in S : <<x, y>> \in R /\ <<y, z>> \in R => <<x, z>> \in R
    BY <1>2, <1>3
  <1>5. PICK m \in S : \A k \in S : <<m, k>> \notin R
    BY <1>1, <1>4, LastInOrder
  <1>6. ASSUME NEW k \in S \ {m} PROVE Better(m, k)
    <2>1. ~Better(k, m) /\ k \in S /\ k # m
      BY <1>3, <1>5
    <2>2. House!Depth(m) \in Nat /\ House!Depth(k) \in Nat /\ m \in Nat /\ k \in Nat
      BY <1>2
    <2> QED BY <2>1, <2>2
  <1> QED BY <1>6

LEMMA CompiledIsPlan ==
    ASSUME NEW panels \in Nat, NEW interior \in Nat, NEW rows \in Nat
    PROVE  PlanOK(House!Compiled(panels, interior, rows))
  <1> DEFINE p == House!Compiled(panels, interior, rows)
             base == panels
             last == base + 4 + interior + panels + 2 * rows
             n == last + 2 * panels
             east == 1..panels
             inner == (base + 5)..(base + 4 + interior)
             north == (base + 5 + interior)..(base + 4 + interior + panels)
             roof == (base + 5 + interior + panels)..(base + 4 + interior + panels + 2 * rows)
             south == (last + 1)..(last + panels)
             west == (last + panels + 1)..(last + 2 * panels)
             foundation == (base + 1)..(base + 4)
             near(m) == base + 1 + ((m - base - 5) % 4)
             far(m) == base + 1 + ((m - base - 4) % 4)
             kind(m) == CASE m \in foundation -> [team |-> 2, mass |-> 85, work |-> 16, distance |-> 180]
                     [] m \in roof -> [team |-> 2, mass |-> 62, work |-> 18, distance |-> 140]
                     [] m \in inner -> [team |-> 1, mass |-> 28, work |-> 10, distance |-> 160]
                     [] OTHER -> [team |-> 1, mass |-> 32, work |-> 11, distance |-> 200]
             carriers(m) == CASE m \in foundation -> {}
                         [] m \in north -> {base + 1}
                         [] m \in east -> {base + 2}
                         [] m \in south -> {base + 3}
                         [] m \in west -> {base + 4}
                         [] m \in inner -> {near(m), far(m)}
                         [] OTHER -> east \cup north \cup south \cup west \cup inner
  <1>1. p.deps = [m \in 1..n |-> carriers(m)] /\ p.kind = [m \in 1..n |-> kind(m)]
    BY DEF House!Compiled
  <1>2. n \in Nat \ {0} /\ base + 4 <= n
    OBVIOUS
  <1>3. \A m \in 1..n : kind(m) \in KindsOfModule
    BY DEF KindsOfModule
  <1>4. /\ east \subseteq 1..n /\ north \subseteq 1..n /\ south \subseteq 1..n
        /\ west \subseteq 1..n /\ inner \subseteq 1..n
    OBVIOUS
  <1>5. /\ base + 1 \in 1..n /\ base + 2 \in 1..n /\ base + 3 \in 1..n /\ base + 4 \in 1..n
    OBVIOUS
  <1>6. \A m \in 1..n : near(m) \in 1..n /\ far(m) \in 1..n
    <2> TAKE m \in 1..n
    <2>1. \A x \in Int : (x % 4) \in 0..3
      BY Z3
    <2>2. (m - base - 5) % 4 \in 0..3 /\ (m - base - 4) % 4 \in 0..3
      BY <1>2, <2>1
    <2> QED BY <1>2, <2>2
  <1> HIDE DEF east, north, south, west, inner, near, far, n, foundation
  <1>7. ASSUME NEW m \in 1..n PROVE carriers(m) \in SUBSET (1..n)
    BY <1>4, <1>5, <1>6
  <1> HIDE DEF kind, carriers
  <1> QED BY <1>1, <1>2, <1>3, <1>7 DEF PlanOK

LEMMA InitIsPlan == HouseNumbers /\ House!Init => PlanOK(plan)
  <1> SUFFICES ASSUME HouseNumbers, House!Init PROVE PlanOK(plan)
    OBVIOUS
  <1>1. CASE plan \in {House!Compiled(h[1], h[2], h[3]) : h \in Houses}
    <2>1. PICK h \in Houses : plan = House!Compiled(h[1], h[2], h[3])
      BY <1>1
    <2>2. h[1] \in Nat /\ h[2] \in Nat /\ h[3] \in Nat
      BY DEF HouseNumbers
    <2> QED BY <2>1, <2>2, CompiledIsPlan
  <1>2. CASE plan \in House!SmallPlans
    <2>1. PICK n \in Sizes : plan \in [deps : [1..n -> SUBSET (1..n)], kind : [1..n -> Kinds]]
      BY <1>2 DEF House!SmallPlans
    <2>2. n \in Nat \ {0} /\ Kinds \subseteq KindsOfModule
      BY DEF HouseNumbers
    <2>3. plan.deps \in [1..n -> SUBSET (1..n)] /\ plan.kind \in [1..n -> KindsOfModule]
      BY <2>1, <2>2
    <2> QED BY <2>2, <2>3 DEF PlanOK
  <1> QED BY <1>1, <1>2 DEF House!Init

-----------------------------------------------------------------------------
(* Times.                                                                  *)

Longest(p) ==
    [m \in House!ModulesOf(p) |-> Max({House!Duration(p.kind[m], T) : T \in House!Groups(p.kind[m])})]

LEMMA LongestIs ==
    ASSUME HouseNumbers, NEW p, PlanOK(p), Buildable(p), NEW m \in House!ModulesOf(p)
    PROVE  /\ Longest(p)[m] \in Nat
           /\ \A T \in House!Groups(p.kind[m]) :
                /\ House!Duration(p.kind[m], T) \in Nat /\ House!Duration(p.kind[m], T) <= Longest(p)[m]
                /\ House!Duration(p.kind[m], T) >= PickupTime
  <1> DEFINE k == p.kind[m]
             G == House!Groups(k)
             V == {House!Duration(k, T) : T \in G}
  <1>1. k \in KindsOfModule /\ G # {}
    BY PlanFacts DEF Buildable
  <1>2. Longest(p)[m] = Max(V)
    BY DEF Longest
  <1> HIDE DEF k
  <1>3. ASSUME NEW T \in G PROVE House!Duration(k, T) \in Nat /\ House!Duration(k, T) >= PickupTime
    <2>1. T \in SUBSET Crew /\ T # {}
      BY <1>1, TeamFacts
    <2> QED BY <1>1, <2>1, DurationOK
  <1>4. V \in SUBSET Nat /\ V # {}
    BY <1>1, <1>3
  <1>5. IsFiniteSet(V)
    <2> DEFINE d == [T \in G |-> House!Duration(k, T)]
    <2>1. d \in Surjection(G, V)
      BY DEF Surjection
    <2>2. G \subseteq SUBSET Crew
      BY <1>1, TeamFacts
    <2>3. IsFiniteSet(G)
      BY <2>2, RobotFacts, FS_SUBSET, FS_Subset
    <2> HIDE DEF d, G, V
    <2> QED BY <2>1, <2>3, FS_Surjection
  <1>6. \A T \in G : House!Duration(k, T) \in V
    OBVIOUS
  <1> HIDE DEF V, G
  <1>7. Max(V) \in V /\ \A y \in V : y <= Max(V)
    BY <1>4, <1>5, FiniteMax
  <1>8. Max(V) \in Nat
    BY <1>4, <1>7
  <1> QED BY <1>2, <1>3, <1>6, <1>7, <1>8 DEF G, k

LEMMA HorizonIs ==
    ASSUME HouseNumbers, PlanOK(plan), Buildable(plan)
    PROVE  House!Horizon = Total(Longest(plan), House!Mods)
  <1> DEFINE M == House!Mods
             f == Longest(plan)
             Body(h) == [s \in SUBSET M |-> IF s = {} THEN 0 ELSE f[One(s)] + h[s \ {One(s)}]]
             Most(x) == House!Max({House!Duration(plan.kind[x], T) : T \in House!Groups(plan.kind[x])})
             Step(h) == [s \in SUBSET M |-> IF s = {} THEN 0 ELSE Most(One(s)) + h[s \ {One(s)}]]
             iter == CHOOSE h : h = Step(h)
  <1>1. M = House!ModulesOf(plan) /\ IsFiniteSet(M)
    BY PlanFacts DEF House!Mods
  <1>2. \A x \in M : f[x] \in Int
    BY <1>1, LongestIs
  <1>3. \A x \in M : Most(x) = f[x]
    BY <1>1, HouseOperators DEF Longest
  <1>4. House!Horizon = iter[M]
    BY DEF House!Horizon, House!MapThenSumSet, House!MapThenFoldSet, One
  <1> HIDE DEF M, f, Most
  <1>5. \A h : Step(h) = Body(h)
    <2> TAKE h
    <2>1. \A s \in SUBSET M : s # {} => One(s) \in M
      BY DEF One
    <2> QED BY <1>3, <2>1
  <1> HIDE DEF Step
  <1>6. (\E h : h = Body(h)) /\ \A h : h = Body(h) => h[M] = Total(f, M)
    <2>1. PICK S : S = M
      OBVIOUS
    <2>2. PICK g : g = f
      OBVIOUS
    <2>3. IsFiniteSet(S) /\ \A x \in S : g[x] \in Int
      BY <1>1, <1>2, <2>1, <2>2
    <2> DEFINE B(h) == [s \in SUBSET S |-> IF s = {} THEN 0 ELSE g[One(s)] + h[s \ {One(s)}]]
    <2>4. (\E h : h = B(h)) /\ \A h : h = B(h) => h[S] = Total(g, S)
      BY <2>3, AddedUp
    <2> QED BY <2>1, <2>2, <2>4
  <1> HIDE DEF Body
  <1>7. iter = Step(iter)
    BY <1>5, <1>6
  <1> HIDE DEF iter
  <1>8. iter[M] = Total(f, M)
    BY <1>5, <1>6, <1>7
  <1> QED BY <1>4, <1>8 DEF f, M

\* The working time of all robots.
Working(j) == (j.end - j.start) * Cardinality(j.team)

BusyOf(J) == House!MapThenSumSet(LAMBDA j : (j.end - j.start) * House!Cardinality(j.team), J)

LEMMA BusyIs ==
    ASSUME NEW J, IsFiniteSet(J), NEW f, \A j \in J : f[j] \in Int /\ f[j] = Working(j)
    PROVE  BusyOf(J) = Total(f, J)
  <1> DEFINE Body(h) == [s \in SUBSET J |-> IF s = {} THEN 0 ELSE f[One(s)] + h[s \ {One(s)}]]
             Work(j) == (j.end - j.start) * House!Cardinality(j.team)
             Step(h) == [s \in SUBSET J |-> IF s = {} THEN 0 ELSE Work(One(s)) + h[s \ {One(s)}]]
             iter == CHOOSE h : h = Step(h)
  <1>1. BusyOf(J) = iter[J]
    BY DEF BusyOf, House!MapThenSumSet, House!MapThenFoldSet, One
  <1>2. \A j \in J : Work(j) = f[j]
    BY HouseOperators DEF Working
  <1> HIDE DEF Work
  <1>3. \A h : Step(h) = Body(h)
    <2> TAKE h
    <2>1. \A s \in SUBSET J : s # {} => One(s) \in J
      BY DEF One
    <2> QED BY <1>2, <2>1
  <1> HIDE DEF Step
  <1>4. (\E h : h = Body(h)) /\ \A h : h = Body(h) => h[J] = Total(f, J)
    BY AddedUp
  <1> HIDE DEF Body
  <1>5. iter = Step(iter)
    BY <1>3, <1>4
  <1> HIDE DEF iter
  <1> QED BY <1>1, <1>3, <1>4, <1>5

-----------------------------------------------------------------------------
(* Jobs.                                                                   *)

\* A job for its module, by a team that can carry it.
JobOK(p, j) ==
    /\ j.module \in House!ModulesOf(p) /\ j.team \in House!Groups(p.kind[j.module])
    /\ j.start \in Nat /\ j.pickup = j.start + PickupTime /\ j.end \in Nat /\ j.pickup <= j.end
    /\ j = [module |-> j.module, team |-> j.team, start |-> j.start, pickup |-> j.pickup, end |-> j.end]

\* Two jobs do not disturb each other.
Fits(p, j, k) ==
    /\ j.module = k.module => j = k
    /\ ~House!Overlap(j, k)
    /\ k.module \in p.deps[j.module] => k.end <= j.start

\* A schedule for all modules that wait no longer: they rest on each other only.
JobsOK(p, J, waiting) ==
    /\ IsFiniteSet(J) /\ \A j \in J : JobOK(p, j)
    /\ \A j, k \in J : Fits(p, j, k)
    /\ {j.module : j \in J} = House!ModulesOf(p) \ waiting
    /\ \A j \in J : p.deps[j.module] \cap waiting = {}

\* No job ends later than if all of them were done one by one, each by the slowest team.
JobsEnd(p, J, waiting) == \A j \in J : j.end <= Total(Longest(p), House!ModulesOf(p) \ waiting)

NewJob(p, m, T, begin) ==
    [module |-> m, team |-> T, start |-> begin, pickup |-> begin + PickupTime,
     end |-> begin + House!Duration(p.kind[m], T)]

\* A job that all it needs has ended for, the last of it just now.
MayStart(p, J, waiting, m, T, begin) ==
    /\ m \in waiting /\ p.deps[m] \cap waiting = {} /\ T \in House!Groups(p.kind[m]) /\ begin \in Nat
    /\ begin = 0 \/ \E k \in J : begin = k.end
    /\ \A k \in J : T \cap k.team # {} \/ k.module \in p.deps[m] => k.end <= begin

\* One more job keeps a schedule in order.
LEMMA Placing ==
    ASSUME HouseNumbers, NEW p, PlanOK(p), Buildable(p), NEW J, NEW waiting, waiting \subseteq House!ModulesOf(p),
           JobsOK(p, J, waiting), JobsEnd(p, J, waiting),
           NEW m, NEW T, NEW begin, MayStart(p, J, waiting, m, T, begin),
           NEW job, job = NewJob(p, m, T, begin)
    PROVE  /\ JobsOK(p, J \cup {job}, waiting \ {m}) /\ JobsEnd(p, J \cup {job}, waiting \ {m})
           /\ job.end \in Nat /\ begin <= job.end /\ job.team = T
  <1>0. /\ m \in waiting /\ p.deps[m] \cap waiting = {} /\ T \in House!Groups(p.kind[m]) /\ begin \in Nat
        /\ begin = 0 \/ \E k \in J : begin = k.end
        /\ \A k \in J : T \cap k.team # {} \/ k.module \in p.deps[m] => k.end <= begin
        /\ job = [module |-> m, team |-> T, start |-> begin, pickup |-> begin + PickupTime,
                  end |-> begin + House!Duration(p.kind[m], T)]
    BY DEF MayStart, NewJob
  <1> DEFINE M == House!ModulesOf(p)
             f == Longest(p)
             d == House!Duration(p.kind[m], T)
  <1>1. /\ f[m] \in Nat /\ d \in Nat /\ d <= f[m] /\ PickupTime <= d /\ PickupTime \in Nat
    BY <1>0, LongestIs DEF HouseNumbers
  <1>2. IsFiniteSet(M) /\ \A x \in M : f[x] \in Nat
    BY PlanFacts, LongestIs
  <1>3. job.module = m /\ job.team = T /\ job.start = begin /\ job.end = begin + d
    BY <1>0
  <1>4. JobOK(p, job)
    <2>1. job.pickup = begin + PickupTime /\ job.end \in Nat /\ job.pickup <= job.end
      BY <1>0, <1>1
    <2> QED BY <1>0, <1>1, <2>1 DEF JobOK
  <1> HIDE DEF d, f, M
  <1>5. \A k \in J : k.module # m /\ m \notin p.deps[k.module] /\ k.end \in Nat /\ k.start \in Nat
    <2> TAKE k \in J
    <2>1. k.module \in M \ waiting /\ p.deps[k.module] \cap waiting = {} /\ JobOK(p, k)
      BY DEF JobsOK, M
    <2> QED BY <1>0, <2>1 DEF JobOK
  <1>6. ASSUME NEW j \in J \cup {job}, NEW k \in J \cup {job} PROVE Fits(p, j, k)
    <2>1. CASE j \in J /\ k \in J
      BY <2>1 DEF JobsOK
    <2>2. CASE j = job /\ k = job
      <3>1. m \notin p.deps[m]
        BY <1>0
      <3> QED BY <1>3, <2>2, <3>1 DEF Fits, House!Overlap
    <2>3. CASE j = job /\ k \in J
      <3>1. k.module # m /\ k.end \in Nat /\ (T \cap k.team # {} \/ k.module \in p.deps[m] => k.end <= begin)
        BY <1>0, <1>5, <2>3
      <3>2. ~House!Overlap(job, k)
        BY <1>0, <1>3, <3>1 DEF House!Overlap
      <3> QED BY <1>3, <2>3, <3>1, <3>2 DEF Fits
    <2>4. CASE j \in J /\ k = job
      <3>1. /\ j.module # m /\ m \notin p.deps[j.module] /\ j.end \in Nat
            /\ T \cap j.team # {} => j.end <= begin
        BY <1>0, <1>5, <2>4
      <3>2. ~House!Overlap(j, job)
        BY <1>0, <1>3, <3>1 DEF House!Overlap
      <3> QED BY <1>3, <2>4, <3>1, <3>2 DEF Fits
    <2> QED BY <2>1, <2>2, <2>3, <2>4
  <1>7. JobsOK(p, J \cup {job}, waiting \ {m})
    <2>1. IsFiniteSet(J \cup {job})
      BY FS_AddElement DEF JobsOK
    <2>2. \A j \in J \cup {job} : JobOK(p, j)
      BY <1>4 DEF JobsOK
    <2>3. {j.module : j \in J \cup {job}} = M \ (waiting \ {m})
      <3>1. {j.module : j \in J} = M \ waiting
        BY DEF JobsOK, M
      <3>2. {j.module : j \in J \cup {job}} = {j.module : j \in J} \cup {m}
        BY <1>3
      <3>3. m \in M /\ m \in waiting /\ waiting \subseteq M
        BY <1>0 DEF M
      <3> QED BY <3>1, <3>2, <3>3
    <2>4. \A j \in J \cup {job} : p.deps[j.module] \cap (waiting \ {m}) = {}
      BY <1>0, <1>3 DEF JobsOK
    <2> QED BY <1>6, <2>1, <2>2, <2>3, <2>4 DEF JobsOK, M
  <1> DEFINE A == M \ waiting
             B == M \ (waiting \ {m})
  <1>8. IsFiniteSet(A) /\ IsFiniteSet(B) /\ m \in B /\ B \ {m} = A /\ A \subseteq M /\ B \subseteq M
    <2>1. A \subseteq M /\ B \subseteq M /\ m \in B /\ B \ {m} = A
      BY <1>0 DEF M
    <2> HIDE DEF A, B
    <2> QED BY <1>2, <2>1, FS_Subset
  <1> HIDE DEF A, B
  <1>9. Total(f, B) = f[m] + Total(f, A) /\ Total(f, A) \in Int
    <2>1. /\ \A x \in B : f[x] \in Int
          /\ \A x \in A : f[x] \in Int
      BY <1>2, <1>8
    <2> QED BY <1>8, <2>1, TotalWithout
  <1>10. Total(f, A) >= 0
    <2>0. PICK zero \in Int : zero = 0
      OBVIOUS
    <2>1. \A x \in A : f[x] \in Int /\ f[x] >= zero
      BY <1>2, <1>8, <2>0
    <2>2. Total(f, A) >= zero * Cardinality(A)
      BY <1>8, <2>1, TotalBound
    <2>3. zero * Cardinality(A) = 0
      BY <1>8, <2>0, FS_CardinalityType
    <2> QED BY <2>2, <2>3
  <1>11. \A k \in J : k.end <= Total(f, A)
    BY DEF JobsEnd, A, f, M
  <1>12. begin <= Total(f, A)
    BY <1>0, <1>10, <1>11
  <1>13. \A j \in J \cup {job} : j.end <= Total(f, B)
    <2> TAKE j \in J \cup {job}
    <2>1. CASE j \in J
      <3>1. j.end <= Total(f, A) /\ j.end \in Nat
        BY <1>5, <1>11, <2>1
      <3> QED BY <1>1, <1>9, <3>1
    <2>2. CASE j = job
      <3>1. job.end <= f[m] + Total(f, A)
        BY <1>0, <1>1, <1>3, <1>9, <1>12
      <3> QED BY <1>9, <2>2, <3>1
    <2> QED BY <2>1, <2>2
  <1>14. JobsEnd(p, J \cup {job}, waiting \ {m})
    BY <1>13 DEF JobsEnd, B, f, M
  <1> QED BY <1>0, <1>1, <1>3, <1>7, <1>14

\* To delay what has not started yet keeps a schedule in order.
Shifted(j, t, delay) ==
    IF j.start >= t
    THEN [module |-> j.module, team |-> j.team, start |-> j.start + delay, pickup |-> j.pickup + delay,
          end |-> j.end + delay]
    ELSE j

LEMMA Delaying ==
    ASSUME HouseNumbers, NEW p, NEW J, NEW waiting, JobsOK(p, J, waiting), NEW t \in Nat, NEW delay \in Nat,
           NEW K, K = {Shifted(j, t, delay) : j \in J}
    PROVE  /\ JobsOK(p, K, waiting) /\ BusyOf(K) = BusyOf(J)
           /\ \A c \in Int : (\A j \in J : j.end <= c) => \A k \in K : k.end <= c + delay
  <1> DEFINE s(j) == Shifted(j, t, delay)
  <1>1. PickupTime \in Nat
    BY DEF HouseNumbers
  <1>2. ASSUME NEW j \in J
        PROVE  /\ s(j).module = j.module /\ s(j).team = j.team
               /\ \/ j.start >= t /\ s(j).start = j.start + delay /\ s(j).end = j.end + delay
                  \/ ~(j.start >= t) /\ s(j).start = j.start /\ s(j).end = j.end
               /\ j.start \in Nat /\ j.end \in Nat /\ j.start <= j.end /\ JobOK(p, s(j))
               /\ j.team \in House!Groups(p.kind[j.module])
    <2>1. JobOK(p, j)
      BY DEF JobsOK
    <2>2. CASE j.start >= t
      <3>1. s(j) = [module |-> j.module, team |-> j.team, start |-> j.start + delay, pickup |-> j.pickup + delay,
                    end |-> j.end + delay]
        BY <2>2 DEF Shifted
      <3> HIDE DEF s
      <3>2. /\ s(j).module = j.module /\ s(j).team = j.team /\ s(j).start = j.start + delay
            /\ s(j).pickup = j.pickup + delay /\ s(j).end = j.end + delay
        BY <3>1
      <3>3. j.start <= j.end /\ j.start \in Nat /\ j.end \in Nat
        BY <1>1, <2>1 DEF JobOK
      <3>4. JobOK(p, s(j))
        BY <1>1, <2>1, <3>1, <3>2 DEF JobOK
      <3> QED BY <2>1, <2>2, <3>2, <3>3, <3>4 DEF JobOK
    <2>3. CASE ~(j.start >= t)
      <3>1. s(j) = j
        BY <2>3 DEF Shifted
      <3>2. j.start <= j.end
        BY <1>1, <2>1 DEF JobOK
      <3> QED BY <2>1, <2>3, <3>1, <3>2 DEF JobOK
    <2> QED BY <2>2, <2>3
  <1> HIDE DEF s
  <1>3. K = {s(j) : j \in J}
    BY DEF s
  <1>4. \A j, k \in J : Fits(p, j, k)
    BY DEF JobsOK
  <1>5. \A j, k \in J : s(j) = s(k) => j = k
    <2> TAKE j, k \in J
    <2>1. Fits(p, j, k) /\ s(j).module = j.module /\ s(k).module = k.module
      BY <1>2, <1>4
    <2> QED BY <2>1 DEF Fits
  \* What ends before another job starts still does.
  <1>6. ASSUME NEW j \in J, NEW k \in J, k.end <= j.start PROVE s(k).end <= s(j).start
    BY <1>2, <1>6
  <1>7. ASSUME NEW j \in J, NEW k \in J PROVE Fits(p, s(j), s(k))
    <2>1. Fits(p, j, k)
      BY <1>4
    <2>2. s(j).module = j.module /\ s(k).module = k.module /\ s(j).team = j.team /\ s(k).team = k.team
      BY <1>2
    <2>3. ~House!Overlap(s(j), s(k))
      <3>1. CASE j = k
        BY <3>1 DEF House!Overlap
      <3>2. CASE j.team \cap k.team = {}
        BY <2>2, <3>2 DEF House!Overlap
      <3>3. CASE j # k /\ j.team \cap k.team # {}
        <4>1. k.end <= j.start \/ j.end <= k.start
          BY <1>2, <2>1, <3>3 DEF Fits, House!Overlap
        <4>2. s(k).end <= s(j).start \/ s(j).end <= s(k).start
          BY <1>6, <4>1
        <4>3. s(k).end \in Int /\ s(j).start \in Int /\ s(j).end \in Int /\ s(k).start \in Int
          BY <1>2
        <4> QED BY <4>2, <4>3 DEF House!Overlap
      <3> QED BY <3>1, <3>2, <3>3
    <2>4. s(k).module \in p.deps[s(j).module] => s(k).end <= s(j).start
      BY <1>6, <2>1, <2>2 DEF Fits
    <2> QED BY <2>1, <2>2, <2>3, <2>4 DEF Fits
  <1> DEFINE h == [j \in J |-> s(j)]
             f == [j \in J |-> Working(j)]
             g == [k \in K |-> Working(k)]
  <1>8. IsFiniteSet(K) /\ IsFiniteSet(J)
    <2>1. h \in Surjection(J, K)
      BY <1>3 DEF Surjection
    <2>2. IsFiniteSet(J)
      BY DEF JobsOK
    <2> HIDE DEF h
    <2> QED BY <2>1, <2>2, FS_Surjection
  <1>9. JobsOK(p, K, waiting)
    <2>1. {k.module : k \in K} = {j.module : j \in J}
      BY <1>2, <1>3
    <2>2. \A k \in K : JobOK(p, k) /\ p.deps[k.module] \cap waiting = {}
      BY <1>2, <1>3 DEF JobsOK
    <2>3. \A j, k \in K : Fits(p, j, k)
      BY <1>3, <1>7
    <2> QED BY <1>8, <2>1, <2>2, <2>3 DEF JobsOK
  <1>10. BusyOf(K) = BusyOf(J)
    <2>1. \A j \in J : f[j] \in Int /\ f[j] = Working(j) /\ s(j) \in K /\ g[s(j)] = f[j]
      <3> TAKE j \in J
      <3>1. f[j] = Working(j) /\ s(j) \in K /\ g[s(j)] = Working(s(j))
        BY <1>3
      <3>2. s(j).end - s(j).start = j.end - j.start /\ j.end - j.start \in Int /\ s(j).team = j.team
        BY <1>2
      <3>3. Cardinality(j.team) \in Nat
        <4>1. j.team \in SUBSET Crew
          BY <1>2, HouseOperators DEF House!Groups, kSubset
        <4> QED BY <4>1, RobotFacts, FS_Subset, FS_CardinalityType
      <3> DEFINE c == Cardinality(j.team)
                 e == j.end - j.start
      <3>4. Working(s(j)) = e * c /\ Working(j) = e * c
        BY <3>2 DEF Working
      <3>5. e * c \in Int
        <4> HIDE DEF e, c
        <4>1. e \in Int /\ c \in Int
          BY <3>2, <3>3 DEF e, c
        <4> QED BY <4>1
      <3> QED BY <3>1, <3>4, <3>5
    <2>2. \A k \in K : g[k] \in Int /\ g[k] = Working(k)
      BY <1>3, <2>1
    <2>3. \A j \in J : h[j] = s(j)
      OBVIOUS
    <2>4. K = {h[j] : j \in J}
      BY <1>3
    <2> HIDE DEF f, g, h
    <2>5. BusyOf(J) = Total(f, J) /\ BusyOf(K) = Total(g, K)
      BY <1>8, <2>1, <2>2, BusyIs
    <2>6. \A x, y \in J : h[x] = h[y] => x = y
      BY <1>5, <2>3
    <2>7. \A x \in J : f[x] \in Int /\ f[x] = g[h[x]]
      BY <2>1, <2>3
    <2>8. Total(g, {h[j] : j \in J}) = Total(f, J)
      BY <1>8, <2>6, <2>7, TotalImage
    <2> QED BY <2>4, <2>5, <2>8
  <1>11. ASSUME NEW c \in Int, \A j \in J : j.end <= c, NEW k \in K PROVE k.end <= c + delay
    <2>1. PICK j \in J : k = s(j)
      BY <1>3
    <2>2. j.end <= c
      BY <1>11
    <2> QED BY <1>2, <2>1, <2>2
  <1> QED BY <1>9, <1>10, <1>11

\* A schedule of the external solver.
LEMMA Choosing ==
    ASSUME HouseNumbers, NEW p, PlanOK(p), Buildable(p),
           NEW team, NEW begin,
           \A m \in House!ModulesOf(p) : team[m] \in House!Groups(p.kind[m]) /\ begin[m] \in Nat,
           NEW J, J = {[module |-> m, team |-> team[m], start |-> begin[m], pickup |-> begin[m] + PickupTime,
                        end |-> begin[m] + House!Duration(p.kind[m], team[m])] : m \in House!ModulesOf(p)},
           \A j \in J : /\ j.end <= Total(Longest(p), House!ModulesOf(p))
                        /\ \A k \in J : ~House!Overlap(j, k) /\ (k.module \in p.deps[j.module] => j.start >= k.end)
    PROVE  JobsOK(p, J, {}) /\ JobsEnd(p, J, {})
  <1> DEFINE M == House!ModulesOf(p)
             d(m) == House!Duration(p.kind[m], team[m])
             job(m) == [module |-> m, team |-> team[m], start |-> begin[m], pickup |-> begin[m] + PickupTime,
                        end |-> begin[m] + d(m)]
  <1>1. \A m \in M : d(m) \in Nat /\ d(m) >= PickupTime /\ PickupTime \in Nat /\ begin[m] \in Nat
    BY LongestIs DEF HouseNumbers
  <1>2. J = {job(m) : m \in M}
    OBVIOUS
  <1> HIDE DEF d
  <1>3. \A m \in M : JobOK(p, job(m)) /\ job(m).module = m
    <2> TAKE m \in M
    <2>1. job(m).start + PickupTime <= job(m).end
      BY <1>1
    <2> QED BY <1>1, <2>1 DEF JobOK
  <1>4. ASSUME NEW j \in J, NEW k \in J PROVE Fits(p, j, k)
    <2>1. PICK m \in M : j = job(m)
      BY <1>2
    <2>2. PICK n \in M : k = job(n)
      BY <1>2
    <2>3. j.module = k.module => j = k
      BY <1>3, <2>1, <2>2
    <2>4. ~House!Overlap(j, k) /\ (k.module \in p.deps[j.module] => j.start >= k.end)
      OBVIOUS
    <2>5. j.start \in Nat /\ k.end \in Nat
      BY <1>3, <2>1, <2>2 DEF JobOK
    <2> QED BY <2>3, <2>4, <2>5 DEF Fits
  <1>5. IsFiniteSet(J)
    <2> DEFINE s == [m \in M |-> job(m)]
    <2>1. s \in Surjection(M, J)
      BY <1>2 DEF Surjection
    <2> HIDE DEF s
    <2>2. IsFiniteSet(M)
      BY PlanFacts
    <2> QED BY <2>1, <2>2, FS_Surjection
  <1>6. {j.module : j \in J} = M \ {}
    <2>1. ASSUME NEW j \in J PROVE j.module \in M
      BY <1>2, <1>3
    <2>2. ASSUME NEW m \in M PROVE \E j \in J : m = j.module
      <3>1. job(m) \in J /\ job(m).module = m
        BY <1>2, <1>3
      <3> QED BY <3>1
    <2> HIDE DEF M, job
    <2> QED BY <2>1, <2>2
  <1>7. \A j \in J : JobOK(p, j)
    BY <1>2, <1>3
  <1>8. JobsOK(p, J, {})
    BY <1>4, <1>5, <1>6, <1>7 DEF JobsOK
  <1>9. M \ {} = M
    OBVIOUS
  <1>10. JobsEnd(p, J, {})
    BY <1>9 DEF JobsEnd
  <1> QED BY <1>8, <1>10

\* A complete schedule has as many jobs as the plan has modules, and ends at some time.
LEMMA Complete ==
    ASSUME NEW p, PlanOK(p), NEW J, JobsOK(p, J, {})
    PROVE  /\ {j.module : j \in J} = House!ModulesOf(p)
           /\ House!Cardinality(J) = House!Cardinality(House!ModulesOf(p))
           /\ Max({j.end : j \in J}) \in {j.end : j \in J} /\ Max({j.end : j \in J}) \in Nat
           /\ \A k \in J : k.end <= Max({j.end : j \in J})
  <1> DEFINE M == House!ModulesOf(p)
             E == {j.end : j \in J}
             module == [j \in J |-> j.module]
             e == [j \in J |-> j.end]
  <1>1. {j.module : j \in J} = M /\ IsFiniteSet(J) /\ M # {}
    BY PlanFacts DEF JobsOK
  <1>2. \A j, k \in J : module[j] = module[k] => j = k
    BY DEF JobsOK, Fits
  <1>3. module \in Surjection(J, M)
    BY <1>1 DEF Surjection
  <1>4. module \in Injection(J, M)
    BY <1>2, <1>3 DEF Injection, Surjection, IsInjective
  <1>5. e \in Surjection(J, E)
    BY DEF Surjection
  <1>6. E \in SUBSET Nat /\ E # {}
    BY <1>1 DEF JobsOK, JobOK
  <1>7. \A j \in J : j.end \in E
    OBVIOUS
  <1> HIDE DEF module, e, E
  <1>8. Cardinality(J) = Cardinality(M)
    <2> HIDE DEF M
    <2> QED BY <1>1, <1>3, <1>4, FS_Surjection
  <1>9. IsFiniteSet(E)
    BY <1>1, <1>5, FS_Surjection
  <1>10. Max(E) \in E /\ \A y \in E : y <= Max(E)
    BY <1>6, <1>9, FiniteMax
  <1> QED BY <1>1, <1>6, <1>7, <1>8, <1>10, HouseOperators DEF E

\* Crew work no longer than there is time.
LEMMA BusyBound ==
    ASSUME HouseNumbers, NEW p, NEW J, NEW waiting, JobsOK(p, J, waiting),
           NEW c \in Nat, \A j \in J : j.end <= c
    PROVE  BusyOf(J) \in Int /\ BusyOf(J) <= c * Cardinality(Crew)
  <1> DEFINE time(j) == j.start..(j.end - 1)
             cells == [j \in J |-> j.team \X time(j)]
             f == [j \in J |-> Working(j)]
             All == Crew \X (0..(c - 1))
             Some == UNION {cells[j] : j \in J}
  <1>1. IsFiniteSet(J) /\ IsFiniteSet(Crew)
    BY RobotFacts DEF JobsOK
  <1>2. \A j \in J : /\ j.team \in SUBSET Crew /\ IsFiniteSet(j.team) /\ j.start \in Nat /\ j.end \in Nat
                     /\ j.start <= j.end /\ j.end <= c
    <2> TAKE j \in J
    <2>1. JobOK(p, j)
      BY DEF JobsOK
    <2>2. j.start <= j.end
      BY <2>1 DEF JobOK, HouseNumbers
    <2>3. j.team \in SUBSET Crew
      BY <2>1, HouseOperators DEF JobOK, House!Groups, kSubset
    <2> QED BY <1>1, <2>1, <2>2, <2>3, FS_Subset DEF JobOK
  <1>3. ASSUME NEW j \in J
        PROVE IsFiniteSet(cells[j]) /\ f[j] = Cardinality(cells[j]) /\ f[j] = Working(j) /\ f[j] \in Int
    <2> DEFINE T == j.team
               S == time(j)
    <2>1. IsFiniteSet(S) /\ Cardinality(S) = j.end - j.start
      <3>1. j.start <= j.end - 1 + 1
        BY <1>2
      <3>2. j.start \in Int /\ j.end - 1 \in Int /\ j.end \in Nat /\ j.start \in Nat
        BY <1>2
      <3>3. PICK a \in Int : a = j.start
        BY <3>2
      <3>4. PICK b \in Int : b = j.end - 1
        BY <3>2
      <3>5. S = a..b /\ (IF a > b THEN 0 ELSE (b - a) + 1) = j.end - j.start
        BY <3>1, <3>2, <3>3, <3>4
      <3> HIDE DEF S
      <3>6. IsFiniteSet(a..b) /\ Cardinality(a..b) = IF a > b THEN 0 ELSE (b - a) + 1
        BY FS_Interval
      <3> QED BY <3>5, <3>6
    <2>2. IsFiniteSet(T) /\ cells[j] = T \X S
      BY <1>2
    <2>3. Working(j) = (j.end - j.start) * Cardinality(T)
      BY DEF Working
    <2> HIDE DEF T, S
    <2>4. IsFiniteSet(T \X S) /\ Cardinality(T \X S) = Cardinality(T) * Cardinality(S)
      BY <2>1, <2>2, FS_Product
    <2>5. Cardinality(T) \in Nat /\ Cardinality(S) \in Nat
      BY <2>1, <2>2, FS_CardinalityType
    <2>6. Working(j) = Cardinality(T) * Cardinality(S)
      BY <2>1, <2>3, <2>5
    <2>7. Cardinality(T) * Cardinality(S) \in Nat
      BY <2>5
    <2>8. f[j] = Working(j)
      OBVIOUS
    <2> HIDE DEF f, cells
    <2>9. IsFiniteSet(cells[j]) /\ Cardinality(cells[j]) = Cardinality(T) * Cardinality(S)
      BY <2>2, <2>4
    <2> QED BY <2>6, <2>7, <2>8, <2>9
  <1>4. ASSUME NEW j \in J, NEW k \in J, j # k PROVE cells[j] \cap cells[k] = {}
    <2> SUFFICES ASSUME NEW x \in cells[j], x \in cells[k] PROVE FALSE
      OBVIOUS
    <2>1. x[1] \in j.team /\ x[2] \in time(j) /\ x[1] \in k.team /\ x[2] \in time(k)
      OBVIOUS
    <2>2. x[2] \in Int /\ j.start <= x[2] /\ x[2] < j.end /\ k.start <= x[2] /\ x[2] < k.end
      BY <1>2, <2>1
    <2>3. j.start < k.end /\ k.start < j.end
      BY <1>2, <2>2
    <2>4. House!Overlap(j, k)
      BY <1>4, <2>1, <2>3 DEF House!Overlap
    <2>5. Fits(p, j, k)
      BY DEF JobsOK
    <2> QED BY <2>4, <2>5 DEF Fits
  <1>5. \A j \in J : cells[j] \subseteq All
    <2> SUFFICES ASSUME NEW j \in J, NEW x \in cells[j] PROVE x \in All
      OBVIOUS
    <2>1. x \in j.team \X time(j)
      OBVIOUS
    <2>2. x[1] \in Crew /\ x[2] \in 0..(c - 1)
      BY <1>2, <2>1
    <2> QED BY <2>1, <2>2
  <1>6. IsFiniteSet(All) /\ Cardinality(All) = c * Cardinality(Crew)
    <2> DEFINE C == 0..(c - 1)
    <2>1. IsFiniteSet(C) /\ Cardinality(C) = c
      BY FS_Interval
    <2> HIDE DEF C
    <2>2. IsFiniteSet(Crew \X C) /\ Cardinality(Crew \X C) = Cardinality(Crew) * Cardinality(C)
      BY <1>1, <2>1, FS_Product
    <2>3. Cardinality(Crew) \in Nat
      BY <1>1, FS_CardinalityType
    <2> QED BY <2>1, <2>2, <2>3 DEF C
  <1> HIDE DEF cells, f, All
  <1>7. Total(f, J) = Cardinality(Some)
    <2>1. Separate(cells, J)
      BY <1>4 DEF Separate
    <2> QED BY <1>1, <1>3, <2>1, TotalSizes
  <1>8. Some \subseteq All
    BY <1>5
  <1> HIDE DEF Some
  <1>9. Cardinality(Some) <= Cardinality(All) /\ Cardinality(Some) \in Nat
    BY <1>6, <1>8, FS_Subset, FS_CardinalityType
  <1>10. BusyOf(J) = Total(f, J)
    BY <1>1, <1>3, BusyIs
  <1> QED BY <1>6, <1>7, <1>9, <1>10

-----------------------------------------------------------------------------
(* The schedule of a house.                                                *)

\* While modules are placed: times are those of jobs, and every controller knows
\* when its robots are free.
PlacingInv ==
    /\ ~disrupted
    /\ now = 0 \/ \E k \in jobs : now = k.end
    /\ JobsEnd(plan, jobs, pending)
    /\ controller = "sequential" => \A k \in jobs : k.end <= now
    /\ controller = "greedy" =>
        /\ \A k \in jobs : \A r \in k.team : k.end <= free[r]
        /\ \A r \in Crew : free[r] = 0 \/ \E k \in jobs : free[r] = k.end

\* A schedule that is complete.
ScheduledInv ==
    /\ pending = {} /\ makespan \in Nat /\ \A k \in jobs : k.end <= makespan
    /\ ~disrupted => JobsEnd(plan, jobs, {}) /\ \E k \in jobs : makespan = k.end
    /\ idleSeconds = makespan * Cardinality(Crew) - BusyOf(jobs)

Installed(J, time) == {j.module : j \in {k \in J : k.end <= time}}

HouseInv ==
    /\ PlanOK(plan) /\ pending \in SUBSET House!ModulesOf(plan)
    /\ free \in [Crew -> Nat] /\ now \in Nat
    /\ phase \in {"draft", "refused", "place", "unsolved", "scheduled", "trace"}
    /\ phase = "unsolved" => controller = "optimized"
    /\ JobsOK(plan, jobs, pending)
    /\ phase = "draft" => pending = House!ModulesOf(plan) /\ ~disrupted
    /\ phase # "draft" => (phase = "refused" <=> ~Buildable(plan))
    /\ phase = "draft" \/ controller = "optimized" => now = 0 /\ \A r \in Crew : free[r] = 0
    /\ phase = "place" => PlacingInv
    /\ phase \in {"scheduled", "trace"} => ScheduledInv
    /\ phase # "trace" => frame = -FrameInterval /\ installed = {}
    /\ phase = "trace" => frame \in Int /\ frame >= -FrameInterval /\ installed = Installed(jobs, frame)

\* As long as all modules wait there are no jobs.
LEMMA NoJobs ==
    ASSUME NEW p, NEW J, JobsOK(p, J, House!ModulesOf(p)) PROVE J = {}
  <1>1. {j.module : j \in J} = {}
    BY DEF JobsOK
  <1> QED BY <1>1

LEMMA HouseInit == HouseNumbers /\ House!Init => HouseInv
  <1> SUFFICES ASSUME HouseNumbers, House!Init PROVE HouseInv
    OBVIOUS
  <1>1. PlanOK(plan)
    BY InitIsPlan
  <1>2. pending = House!ModulesOf(plan) /\ jobs = {} /\ phase = "draft" /\ controller = "none"
    BY DEF House!Init, House!Mods
  <1>3. JobsOK(plan, jobs, pending)
    BY <1>2, FS_EmptySet DEF JobsOK
  <1>4. /\ free = [r \in Crew |-> 0] /\ now = 0 /\ disrupted = FALSE
        /\ frame = -FrameInterval /\ installed = {}
    BY DEF House!Init
  <1> QED BY <1>1, <1>2, <1>3, <1>4 DEF HouseInv

LEMMA ValidateStep ==
    HouseNumbers /\ HouseInv /\ House!Validate => HouseInv'
  <1> SUFFICES ASSUME HouseNumbers, HouseInv, House!Validate PROVE HouseInv'
    OBVIOUS
  <1>1. /\ phase = "draft" /\ pending = House!ModulesOf(plan) /\ ~disrupted /\ PlanOK(plan)
        /\ now = 0 /\ \A r \in Crew : free[r] = 0
    BY DEF HouseInv, House!Validate
  <1>2. jobs = {}
    BY <1>1, NoJobs DEF HouseInv
  <1>3. House!Valid(plan) <=> Buildable(plan)
    BY <1>1, ValidIsBuildable
  <1>4. /\ UNCHANGED <<plan, pending, free, now, jobs, makespan, idleSeconds, disrupted, frame, installed>>
        /\ phase' = IF Buildable(plan) THEN "place" ELSE "refused"
    BY <1>3 DEF House!Validate
  <1>5. (phase = "place" => PlacingInv)'
    BY <1>1, <1>2, <1>4 DEF PlacingInv, JobsEnd
  <1> QED BY <1>1, <1>4, <1>5 DEF HouseInv

LEMMA SequentialStep ==
    HouseNumbers /\ HouseInv /\ House!Sequential => HouseInv'
  <1> SUFFICES ASSUME HouseNumbers, HouseInv, House!Sequential PROVE HouseInv'
    OBVIOUS
  <1> DEFINE M == House!ModulesOf(plan)
             m == CHOOSE m \in pending : \A k \in pending \ {m} : House!Before(m, k)
             times == {now, 0} \cup {House!EndOf(d) : d \in plan.deps[m]}
             T == House!First(House!Groups(plan.kind[m]))
             begin == House!Max(times)
             job == NewJob(plan, m, T, begin)
  <1>1. /\ phase = "place" /\ controller = "sequential" /\ pending # {} /\ pending \in SUBSET M
        /\ PlanOK(plan) /\ Buildable(plan) /\ JobsOK(plan, jobs, pending) /\ now \in Nat
        /\ PlacingInv
    BY DEF HouseInv, House!Sequential
  <1>2. /\ jobs' = jobs \cup {job} /\ now' = job.end /\ pending' = pending \ {m}
        /\ UNCHANGED <<plan, phase, controller, free, makespan, idleSeconds, disrupted, frame, installed>>
    BY DEF House!Sequential, House!Job, NewJob
  <1>3. m \in pending /\ plan.deps[m] \cap pending = {}
    <2>1. House!Acyclic(plan)
      BY <1>1, AcyclicIsSound DEF Buildable
    <2>2. pending \in SUBSET House!Mods
      BY <1>1 DEF House!Mods
    <2> QED BY <1>1, <2>1, <2>2, NextInRounds
  <1> HIDE DEF m
  <1>4. T \in House!Groups(plan.kind[m])
    <2>1. m \in M
      BY <1>1, <1>3
    <2>2. House!Groups(plan.kind[m]) # {} /\ plan.kind[m] \in KindsOfModule
      BY <1>1, <2>1, PlanFacts DEF Buildable
    <2>3. House!Groups(plan.kind[m]) \in SUBSET (SUBSET Crew)
      BY <2>2, TeamFacts
    <2> QED BY <2>2, <2>3, FirstIsOne
  <1> HIDE DEF T
  <1>5. begin = now
    <2>1. \A k \in jobs : k.end \in Nat /\ k.end <= now
      BY <1>1 DEF PlacingInv, JobsOK, JobOK
    <2>2. ASSUME NEW d \in plan.deps[m] PROVE House!EndOf(d) \in Nat /\ House!EndOf(d) <= now
      <3>1. m \in M
        BY <1>1, <1>3
      <3>2. d \in M \ pending
        BY <1>1, <1>3, <3>1, PlanFacts
      <3>3. \E k \in jobs : k.module = d
        BY <1>1, <3>2 DEF JobsOK
      <3> QED BY <2>1, <3>3 DEF House!EndOf
    <2>3. times \subseteq Int /\ now \in times /\ \A y \in times : y <= now
      BY <1>1, <2>2
    <2> HIDE DEF times
    <2>4. Max(times) = now
      BY <2>3, MaxIs
    <2> QED BY <2>4, HouseOperators
  <1> HIDE DEF begin
  <1>6. /\ JobsOK(plan, jobs \cup {job}, pending \ {m}) /\ JobsEnd(plan, jobs \cup {job}, pending \ {m})
        /\ job.end \in Nat /\ begin <= job.end
    <2>1. JobsEnd(plan, jobs, pending) /\ \A k \in jobs : k.end <= begin
      BY <1>1, <1>5 DEF PlacingInv
    <2>2. begin \in Nat /\ (begin = 0 \/ \E k \in jobs : begin = k.end)
      BY <1>1, <1>5 DEF PlacingInv
    <2>3. MayStart(plan, jobs, pending, m, T, begin)
      BY <1>3, <1>4, <2>1, <2>2 DEF MayStart
    <2> QED BY <1>1, <2>1, <2>3, Placing
  <1> HIDE DEF job
  <1>7. PlacingInv'
    <2>1. \A k \in jobs : k.end \in Nat /\ k.end <= now
      BY <1>1 DEF PlacingInv, JobsOK, JobOK
    <2>2. ASSUME NEW k \in jobs \cup {job} PROVE k.end <= job.end
      <3>1. job.end \in Nat /\ now <= job.end /\ now \in Nat
        BY <1>1, <1>5, <1>6
      <3>2. CASE k \in jobs
        BY <2>1, <3>1, <3>2
      <3>3. CASE k = job
        BY <3>1, <3>3
      <3> QED BY <3>2, <3>3
    <2> QED BY <1>1, <1>2, <1>6, <2>2 DEF PlacingInv
  <1> QED BY <1>1, <1>2, <1>6, <1>7 DEF HouseInv

LEMMA GreedyStep ==
    HouseNumbers /\ HouseInv /\ House!Greedy => HouseInv'
  <1> SUFFICES ASSUME HouseNumbers, HouseInv, House!Greedy PROVE HouseInv'
    OBVIOUS
  <1> DEFINE M == House!ModulesOf(plan)
             m == CHOOSE m \in House!Startable : \A k \in House!Startable \ {m} :
                    \/ House!Depth(m) > House!Depth(k) \/ (House!Depth(m) = House!Depth(k) /\ m < k)
             T == House!First(House!FreeGroups(m))
             job == NewJob(plan, m, T, now)
  <1>1. /\ phase = "place" /\ controller = "greedy" /\ House!Startable # {} /\ pending \in SUBSET M
        /\ PlanOK(plan) /\ Buildable(plan) /\ JobsOK(plan, jobs, pending) /\ now \in Nat
        /\ PlacingInv /\ free \in [Crew -> Nat]
    BY DEF HouseInv, House!Greedy
  <1>2. /\ jobs' = jobs \cup {job} /\ pending' = pending \ {m}
        /\ free' = [r \in Crew |-> IF r \in job.team THEN job.end ELSE free[r]]
        /\ UNCHANGED <<plan, phase, controller, now, makespan, idleSeconds, disrupted, frame, installed>>
    BY DEF House!Greedy, House!Job, NewJob
  <1>3. m \in House!Startable
    <2>1. House!Startable \in SUBSET House!Mods
      BY <1>1 DEF House!Startable, House!Ready, House!Mods
    <2> QED BY <1>1, <2>1, MostCritical
  <1> HIDE DEF m
  <1>4. m \in pending /\ plan.deps[m] \subseteq House!Completed /\ House!FreeGroups(m) # {} /\ m \in M
    BY <1>1, <1>3 DEF House!Startable, House!Ready
  <1>5. T \in House!Groups(plan.kind[m]) /\ T \in SUBSET Crew /\ \A r \in T : free[r] <= now
    <2>1. plan.kind[m] \in KindsOfModule
      BY <1>1, <1>4, PlanFacts
    <2>2. House!FreeGroups(m) \in SUBSET (SUBSET Crew)
      BY <2>1, TeamFacts DEF House!FreeGroups
    <2>3. T \in House!FreeGroups(m)
      BY <1>4, <2>2, FirstIsOne
    <2> HIDE DEF T
    <2> QED BY <2>2, <2>3 DEF House!FreeGroups
  <1> HIDE DEF T
  <1>6. \A k \in jobs : /\ k.end \in Nat /\ k.team \in SUBSET Crew /\ k.module \in M \ pending
                        /\ \A r \in k.team : k.end <= free[r]
    <2> TAKE k \in jobs
    <2>1. JobOK(plan, k) /\ k.module \in M \ pending
      BY <1>1 DEF JobsOK
    <2>2. k.team \in SUBSET Crew
      BY <2>1, HouseOperators DEF JobOK, House!Groups, kSubset
    <2> QED BY <1>1, <2>1, <2>2 DEF JobOK, PlacingInv
  <1>7. plan.deps[m] \cap pending = {}
    BY <1>4, <1>6 DEF House!Completed
  <1>8. ASSUME NEW k \in jobs, T \cap k.team # {} \/ k.module \in plan.deps[m] PROVE k.end <= now
    <2>1. CASE T \cap k.team # {}
      <3>1. PICK r \in Crew : r \in T /\ r \in k.team
        BY <1>5, <2>1
      <3>2. k.end <= free[r] /\ free[r] <= now /\ free[r] \in Nat /\ k.end \in Nat
        BY <1>1, <1>5, <1>6, <3>1
      <3> QED BY <1>1, <3>2
    <2>2. CASE k.module \in plan.deps[m]
      <3>1. PICK j \in jobs : j.module = k.module /\ j.end <= now
        BY <1>4, <2>2 DEF House!Completed
      <3>2. Fits(plan, j, k)
        BY <1>1 DEF JobsOK
      <3> QED BY <3>1, <3>2 DEF Fits
    <2> QED BY <1>8, <2>1, <2>2
  <1>9. /\ JobsOK(plan, jobs \cup {job}, pending \ {m}) /\ JobsEnd(plan, jobs \cup {job}, pending \ {m})
        /\ job.end \in Nat /\ now <= job.end /\ job.team = T
    <2>1. JobsEnd(plan, jobs, pending) /\ (now = 0 \/ \E k \in jobs : now = k.end)
      BY <1>1 DEF PlacingInv
    <2>2. MayStart(plan, jobs, pending, m, T, now)
      BY <1>1, <1>4, <1>5, <1>7, <1>8, <2>1 DEF MayStart
    <2>3. PICK x : x = job
      OBVIOUS
    <2>4. x = NewJob(plan, m, T, now) /\ pending \subseteq House!ModulesOf(plan)
      BY <1>1, <2>3
    <2> HIDE DEF job
    <2> QED BY <1>1, <2>1, <2>2, <2>3, <2>4, Placing
  <1> HIDE DEF job
  <1>10. free' \in [Crew -> Nat]
    BY <1>1, <1>2, <1>9
  <1>11. \A r \in Crew : free'[r] = 0 \/ \E k \in jobs' : free'[r] = k.end
    <2> TAKE r \in Crew
    <2>1. free[r] = 0 \/ \E k \in jobs : free[r] = k.end
      BY <1>1 DEF PlacingInv
    <2> QED BY <1>2, <2>1
  <1>12. ASSUME NEW k \in jobs', NEW r \in k.team PROVE k.end <= free'[r]
    <2>1. CASE k = job
      BY <1>2, <1>5, <1>9, <2>1
    <2>2. CASE k \in jobs
      <3>1. r \in Crew /\ k.end <= free[r] /\ k.end \in Nat /\ free[r] \in Nat
        BY <1>1, <1>6, <2>2
      <3>2. CASE r \in T
        <4>1. free[r] <= now /\ free'[r] = job.end
          BY <1>2, <1>5, <1>9, <3>1, <3>2
        <4> QED BY <1>1, <1>9, <3>1, <4>1
      <3>3. CASE r \notin T
        BY <1>2, <1>9, <3>1, <3>3
      <3> QED BY <3>2, <3>3
    <2> QED BY <1>2, <2>1, <2>2
  <1>13. PlacingInv'
    <2>1. (now = 0 \/ \E k \in jobs : now = k.end) /\ ~disrupted
      BY <1>1 DEF PlacingInv
    <2> QED BY <1>1, <1>2, <1>9, <1>11, <1>12, <2>1 DEF PlacingInv
  <1> QED BY <1>1, <1>2, <1>9, <1>10, <1>13 DEF HouseInv

LEMMA GreedyWaitStep ==
    HouseNumbers /\ HouseInv /\ House!GreedyWait => HouseInv'
  <1> SUFFICES ASSUME HouseNumbers, HouseInv, House!GreedyWait PROVE HouseInv'
    OBVIOUS
  <1> DEFINE M == House!ModulesOf(plan)
             future == {free[r] : r \in Crew} \ (0..now)
  <1>1. /\ phase = "place" /\ controller = "greedy" /\ House!Startable = {} /\ pending # {}
        /\ pending \in SUBSET M /\ PlanOK(plan) /\ Buildable(plan) /\ JobsOK(plan, jobs, pending)
        /\ now \in Nat /\ PlacingInv /\ free \in [Crew -> Nat]
    BY DEF HouseInv, House!GreedyWait
  <1>2. future # {}
    <2> SUFFICES ASSUME future = {} PROVE FALSE
      OBVIOUS
    <2>1. \A r \in Crew : free[r] <= now
      <3> TAKE r \in Crew
      <3>1. free[r] \in Nat /\ free[r] \in 0..now
        BY <1>1
      <3> QED BY <1>1, <3>1
    <2>2. \A k \in jobs : k.end <= now
      <3> TAKE k \in jobs
      <3>1. JobOK(plan, k) /\ k.module \in M
        BY <1>1 DEF JobsOK
      <3>2. k.team \in SUBSET Crew /\ k.team # {}
        BY <1>1, <3>1, PlanFacts, TeamFacts DEF JobOK
      <3>3. PICK r \in Crew : r \in k.team
        BY <3>2
      <3>4. k.end <= free[r] /\ free[r] <= now /\ k.end \in Nat /\ free[r] \in Nat
        BY <1>1, <2>1, <3>1, <3>3 DEF PlacingInv, JobOK
      <3> QED BY <1>1, <3>4
    <2>3. House!Completed = M \ pending
      BY <1>1, <2>2 DEF House!Completed, JobsOK
    <2>4. PICK m \in pending : plan.deps[m] \cap pending = {}
      BY <1>1 DEF Buildable, House!NoSink
    <2>5. m \in M /\ plan.deps[m] \subseteq M
      BY <1>1, <2>4, PlanFacts
    <2>6. m \in House!Ready
      BY <2>3, <2>4, <2>5 DEF House!Ready
    <2>7. PICK T \in House!Groups(plan.kind[m]) : TRUE
      BY <1>1, <2>5 DEF Buildable
    <2>8. T \in SUBSET Crew
      BY <1>1, <2>5, PlanFacts, TeamFacts
    <2>9. T \in House!FreeGroups(m)
      BY <2>1, <2>7, <2>8 DEF House!FreeGroups
    <2> QED BY <1>1, <2>6, <2>9 DEF House!Startable
  <1>3. now' = Min(future)
    BY <1>2, HouseOperators DEF House!GreedyWait
  <1>4. UNCHANGED <<plan, phase, controller, pending, free, jobs, makespan, idleSeconds, disrupted, frame, installed>>
    BY <1>2 DEF House!GreedyWait
  <1>5. now' \in Nat /\ \E k \in jobs : now' = k.end
    <2>1. future \in SUBSET Nat
      BY <1>1
    <2>2. Min(future) \in future
      <3> HIDE DEF future
      <3> QED BY <1>2, <2>1, LeastIsMin
    <2>3. PICK r \in Crew : Min(future) = free[r] /\ free[r] \notin 0..now
      BY <2>2
    <2>4. free[r] # 0 /\ free[r] \in Nat
      BY <1>1, <2>3
    <2>5. \E k \in jobs : free[r] = k.end
      BY <1>1, <2>4 DEF PlacingInv
    <2> HIDE DEF future
    <2> QED BY <1>3, <2>3, <2>4, <2>5
  <1>6. PlacingInv'
    BY <1>1, <1>4, <1>5 DEF PlacingInv
  <1> QED BY <1>1, <1>4, <1>5, <1>6 DEF HouseInv

LEMMA OptimizeStep ==
    HouseNumbers /\ HouseInv /\ House!Optimize => HouseInv'
  <1> SUFFICES ASSUME HouseNumbers, HouseInv, House!Optimize PROVE HouseInv'
    OBVIOUS
  <1> DEFINE M == House!ModulesOf(plan)
  <1>1. /\ phase = "place" /\ controller = "optimized" /\ pending = M
        /\ PlanOK(plan) /\ Buildable(plan) /\ JobsOK(plan, jobs, pending)
        /\ now = 0 /\ PlacingInv /\ \A r \in Crew : free[r] = 0
    BY DEF HouseInv, House!Optimize, House!Mods
  <1>2. UNCHANGED <<plan, free, now, makespan, idleSeconds, disrupted, frame, installed>>
    BY DEF House!Optimize
  <1>5. CASE phase' = "unsolved" /\ UNCHANGED <<controller, jobs, pending>>
    BY <1>1, <1>2, <1>5 DEF HouseInv
  <1>3. CASE controller' = "greedy" /\ UNCHANGED <<phase, jobs, pending>>
    <2>1. jobs = {}
      BY <1>1, NoJobs
    <2>2. PlacingInv'
      BY <1>1, <1>2, <1>3, <2>1 DEF PlacingInv
    <2> QED BY <1>1, <1>2, <1>3, <2>2 DEF HouseInv
  <1>4. CASE pending' = {} /\ UNCHANGED <<phase, controller>> /\
             \E team \in [House!Mods -> SUBSET Crew], begin \in [House!Mods -> SolverStarts] :
                LET chosen == {House!Job(m, team[m], begin[m]) : m \in House!Mods} IN
                /\ \A m \in House!Mods : team[m] \in House!Groups(plan.kind[m])
                /\ \A j \in chosen : j.end <= House!Horizon /\
                    \A k \in chosen : ~House!Overlap(j, k) /\ (k.module \in plan.deps[j.module] => j.start >= k.end)
                /\ jobs' = chosen
    <2>0. House!Mods = M
      BY DEF House!Mods
    <2>1. PICK team \in [M -> SUBSET Crew], begin \in [M -> SolverStarts] :
                LET chosen == {House!Job(m, team[m], begin[m]) : m \in M} IN
                /\ \A m \in M : team[m] \in House!Groups(plan.kind[m])
                /\ \A j \in chosen : j.end <= House!Horizon /\
                    \A k \in chosen : ~House!Overlap(j, k) /\ (k.module \in plan.deps[j.module] => j.start >= k.end)
                /\ jobs' = chosen
      BY <1>4, <2>0
    <2>2. \A m \in M : team[m] \in House!Groups(plan.kind[m]) /\ begin[m] \in Nat
      BY <2>1 DEF HouseNumbers
    <2>3. jobs' = {[module |-> m, team |-> team[m], start |-> begin[m], pickup |-> begin[m] + PickupTime,
                    end |-> begin[m] + House!Duration(plan.kind[m], team[m])] : m \in M}
      BY <2>1 DEF House!Job
    <2>4. House!Horizon = Total(Longest(plan), M)
      BY <1>1, <2>0, HorizonIs
    <2>5. \A j \in jobs' :
            /\ j.end <= Total(Longest(plan), M)
            /\ \A k \in jobs' : ~House!Overlap(j, k) /\ (k.module \in plan.deps[j.module] => j.start >= k.end)
      BY <2>1, <2>4
    <2>6. JobsOK(plan, jobs', {}) /\ JobsEnd(plan, jobs', {})
      <3> HIDE DEF M
      <3>1. PICK J : J = jobs'
        OBVIOUS
      <3>2. PICK p : p = plan
        OBVIOUS
      <3>3. JobsOK(p, J, {}) /\ JobsEnd(p, J, {})
        BY <1>1, <2>2, <2>3, <2>5, <3>1, <3>2, Choosing DEF M
      <3> QED BY <3>1, <3>2, <3>3
    <2>7. PlacingInv'
      BY <1>1, <1>2, <1>4, <2>6 DEF PlacingInv
    <2> QED BY <1>1, <1>2, <1>4, <2>6, <2>7 DEF HouseInv
  <1> QED BY <1>3, <1>4, <1>5 DEF House!Optimize

LEMMA FinishStep ==
    HouseNumbers /\ HouseInv /\ House!FinishSchedule => HouseInv'
  <1> SUFFICES ASSUME HouseNumbers, HouseInv, House!FinishSchedule PROVE HouseInv'
    OBVIOUS
  <1>1. /\ phase = "place" /\ pending = {} /\ PlanOK(plan) /\ Buildable(plan)
        /\ JobsOK(plan, jobs, pending) /\ PlacingInv
    BY DEF HouseInv, House!FinishSchedule
  <1> DEFINE E == {j.end : j \in jobs}
  <1>2. /\ phase' = "scheduled" /\ makespan' = Max(E)
        /\ idleSeconds' = Max(E) * Cardinality(Crew) - BusyOf(jobs)
        /\ UNCHANGED <<plan, controller, pending, free, now, jobs, disrupted, frame, installed>>
    BY HouseOperators DEF House!FinishSchedule, House!Ends, House!Busy, BusyOf
  <1>3. Max(E) \in E /\ Max(E) \in Nat /\ \A j \in jobs : j.end <= Max(E)
    BY <1>1, Complete
  <1>4. \E k \in jobs : Max(E) = k.end
    BY <1>3
  <1> HIDE DEF E
  <1>5. ScheduledInv'
    BY <1>1, <1>2, <1>3, <1>4 DEF ScheduledInv, PlacingInv
  <1> QED BY <1>1, <1>2, <1>5 DEF HouseInv

LEMMA DisruptStep ==
    HouseNumbers /\ HouseInv /\ House!Disrupt => HouseInv'
  <1> SUFFICES ASSUME HouseNumbers, HouseInv, House!Disrupt PROVE HouseInv'
    OBVIOUS
  <1>1. /\ phase = "scheduled" /\ ScheduledInv /\ JobsOK(plan, jobs, pending) /\ makespan \in Nat
    BY DEF HouseInv, House!Disrupt, ScheduledInv
  <1>2. /\ disrupted' = TRUE
        /\ UNCHANGED <<plan, phase, controller, pending, free, now, frame, installed>>
    BY DEF House!Disrupt
  <1>3. PICK t \in 0..(makespan - 1), delay \in Delays :
            /\ jobs' = House!Delayed(t, delay) /\ makespan' = makespan + delay
            /\ idleSeconds' = idleSeconds + delay * House!Cardinality(Crew)
    BY DEF House!Disrupt
  <1>4. t \in Nat /\ delay \in Nat
    BY DEF HouseNumbers
  <1>5. ASSUME NEW j \in jobs
        PROVE  Shifted(j, t, delay) = IF j.start >= t THEN [j EXCEPT !.start = @ + delay, !.pickup = @ + delay,
                                                                     !.end = @ + delay] ELSE j
    <2>1. j = [module |-> j.module, team |-> j.team, start |-> j.start, pickup |-> j.pickup, end |-> j.end]
      BY <1>1 DEF JobsOK, JobOK
    <2>2. PICK a, b, c, d, e : j = [module |-> a, team |-> b, start |-> c, pickup |-> d, end |-> e]
      BY <2>1
    <2> QED BY <2>2 DEF Shifted
  <1>6. jobs' = {Shifted(j, t, delay) : j \in jobs}
    BY <1>3, <1>5 DEF House!Delayed
  <1>7. /\ JobsOK(plan, jobs', pending) /\ BusyOf(jobs') = BusyOf(jobs)
        /\ \A c \in Int : (\A j \in jobs : j.end <= c) => \A k \in jobs' : k.end <= c + delay
    <2>1. PICK K : K = jobs'
      OBVIOUS
    <2>2. /\ JobsOK(plan, K, pending) /\ BusyOf(K) = BusyOf(jobs)
          /\ \A c \in Int : (\A j \in jobs : j.end <= c) => \A k \in K : k.end <= c + delay
      BY <1>1, <1>4, <1>6, <2>1, Delaying
    <2> QED BY <2>1, <2>2
  <1>8. ScheduledInv'
    <2>1. makespan' \in Nat /\ \A k \in jobs' : k.end <= makespan'
      BY <1>1, <1>3, <1>4, <1>7 DEF ScheduledInv
    <2>2. idleSeconds' = makespan' * Cardinality(Crew) - BusyOf(jobs')
      <3>1. BusyOf(jobs) \in Int
        BY <1>1, BusyBound DEF ScheduledInv
      <3>2. House!Cardinality(Crew) = Cardinality(Crew) /\ Cardinality(Crew) \in Nat
        BY RobotFacts, HouseOperators
      <3> DEFINE n == Cardinality(Crew)
                 b == BusyOf(jobs)
      <3>3. /\ makespan' = makespan + delay /\ n \in Nat /\ b \in Int
            /\ idleSeconds' = (makespan * n - b) + delay * n
        BY <1>1, <1>3, <3>1, <3>2 DEF ScheduledInv
      <3> HIDE DEF n, b
      <3>4. (makespan + delay) * n = makespan * n + delay * n
        BY <1>1, <1>4, <3>3
      <3>5. makespan * n \in Int /\ delay * n \in Int
        BY <1>1, <1>4, <3>3
      <3>6. idleSeconds' = makespan' * n - b
        BY <3>3, <3>4, <3>5
      <3> QED BY <1>7, <3>6 DEF n, b
    <2> QED BY <1>1, <1>2, <2>1, <2>2 DEF ScheduledInv
  <1> QED BY <1>1, <1>2, <1>7, <1>8 DEF HouseInv

LEMMA TraceStep ==
    HouseNumbers /\ HouseInv /\ (House!StartTrace \/ House!BuildFrame) => HouseInv'
  <1> SUFFICES ASSUME HouseNumbers, HouseInv, House!StartTrace \/ House!BuildFrame PROVE HouseInv'
    OBVIOUS
  <1>1. FrameInterval \in Nat /\ 0 < FrameInterval
    BY DEF HouseNumbers
  <1>2. CASE House!StartTrace
    <2>1. /\ phase = "scheduled" /\ phase' = "trace" /\ ScheduledInv /\ JobsOK(plan, jobs, pending)
          /\ frame = -FrameInterval /\ installed = {}
          /\ UNCHANGED <<plan, controller, pending, free, now, jobs, makespan, idleSeconds, disrupted, frame, installed>>
      BY <1>2 DEF HouseInv, House!StartTrace
    <2>2. \A k \in jobs : k.end \in Nat
      BY <2>1 DEF JobsOK, JobOK
    <2>3. Installed(jobs, frame) = {}
      BY <1>1, <2>1, <2>2 DEF Installed
    <2>4. ScheduledInv'
      BY <2>1 DEF ScheduledInv
    <2>5. frame \in Int /\ frame >= -FrameInterval
      BY <1>1, <2>1
    <2> QED BY <2>1, <2>3, <2>4, <2>5 DEF HouseInv
  <1>3. CASE House!BuildFrame
    <2>1. /\ phase = "trace" /\ ScheduledInv /\ frame' = frame + FrameInterval
          /\ installed' = Installed(jobs, frame') /\ frame \in Int /\ frame >= -FrameInterval
          /\ UNCHANGED <<plan, phase, controller, pending, free, now, jobs, makespan, idleSeconds, disrupted>>
      BY <1>3 DEF HouseInv, House!BuildFrame, Installed
    <2>2. ScheduledInv'
      BY <2>1 DEF ScheduledInv
    <2>3. frame' \in Int /\ frame' >= -FrameInterval
      BY <1>1, <2>1
    <2> QED BY <2>1, <2>2, <2>3 DEF HouseInv
  <1> QED BY <1>2, <1>3

LEMMA HouseKeeps == HouseNumbers /\ HouseInv /\ [House!Next]_(House!vars) => HouseInv'
  <1> SUFFICES ASSUME HouseNumbers, HouseInv, [House!Next]_(House!vars) PROVE HouseInv'
    OBVIOUS
  <1>1. CASE UNCHANGED House!vars
    BY <1>1 DEF House!vars, HouseInv, PlacingInv, ScheduledInv
  <1>2. CASE House!Next
    BY <1>2, ValidateStep, SequentialStep, GreedyStep, GreedyWaitStep, OptimizeStep, FinishStep, DisruptStep,
       TraceStep DEF House!Next
  <1> QED BY <1>1, <1>2

\* What the invariant says is what schedules have to be.
LEMMA HouseIsSound == HouseNumbers /\ HouseInv => House!ScheduleSound
  <1> SUFFICES ASSUME HouseNumbers, HouseInv PROVE House!ScheduleSound
    OBVIOUS
  <1> DEFINE M == House!Mods
             E == {j.end : j \in jobs}
  <1>1. M = House!ModulesOf(plan) /\ PlanOK(plan) /\ JobsOK(plan, jobs, pending)
    BY DEF HouseInv, House!Mods
  <1>2. House!RefusedRightly
    BY <1>1 DEF HouseInv, Buildable, House!RefusedRightly
  <1>3. phase # "stuck" /\ (phase = "unsolved" => controller = "optimized")
    BY DEF HouseInv
  <1>4. \A j, k \in jobs : /\ j.start \in Nat /\ k.end \in Nat /\ j.start <= j.pickup
                           /\ ~House!Overlap(j, k) /\ (k.module \in plan.deps[j.module] => j.start >= k.end)
                           /\ j.team \in House!Groups(plan.kind[j.module])
    <2> TAKE j, k \in jobs
    <2>1. JobOK(plan, j) /\ JobOK(plan, k) /\ Fits(plan, j, k)
      BY <1>1 DEF JobsOK
    <2>2. j.start <= j.pickup
      BY <2>1 DEF JobOK, HouseNumbers
    <2> QED BY <2>1, <2>2 DEF JobOK, Fits
  <1>5. ASSUME phase \in {"scheduled", "trace"}
        PROVE  /\ {j.module : j \in jobs} = M /\ House!Cardinality(jobs) = House!Cardinality(M)
               /\ makespan >= House!Max(E)
               /\ ~disrupted => makespan = House!Max(E) /\ makespan <= House!Horizon
               /\ idleSeconds = makespan * House!Cardinality(Crew) - House!Busy /\ idleSeconds >= 0
    <2>1. ScheduledInv /\ Buildable(plan) /\ JobsOK(plan, jobs, {})
      BY <1>1, <1>5 DEF HouseInv, ScheduledInv
    <2>2. /\ {j.module : j \in jobs} = M /\ House!Cardinality(jobs) = House!Cardinality(M)
          /\ Max(E) \in E /\ Max(E) \in Nat /\ \A k \in jobs : k.end <= Max(E)
      BY <1>1, <2>1, Complete
    <2>3. House!Max(E) = Max(E) /\ House!Cardinality(Crew) = Cardinality(Crew)
      BY HouseOperators
    <2>4. \E k \in jobs : Max(E) = k.end
      BY <2>2
    <2> HIDE DEF E
    <2>5. makespan >= Max(E)
      BY <2>1, <2>2, <2>4 DEF ScheduledInv
    <2>6. ASSUME ~disrupted PROVE makespan = Max(E) /\ makespan <= House!Horizon
      <3>1. PICK k \in jobs : makespan = k.end
        BY <2>1, <2>6 DEF ScheduledInv
      <3>2. makespan <= Max(E)
        BY <2>2, <3>1
      <3>3. House!Horizon = Total(Longest(plan), M)
        BY <1>1, <2>1, HorizonIs
      <3>4. M \ {} = M
        OBVIOUS
      <3>5. k.end <= Total(Longest(plan), M)
        BY <1>1, <2>1, <2>6, <3>4 DEF ScheduledInv, JobsEnd
      <3> QED BY <2>1, <2>2, <2>5, <3>1, <3>2, <3>3, <3>5 DEF ScheduledInv
    <2>7. idleSeconds = makespan * Cardinality(Crew) - BusyOf(jobs) /\ House!Busy = BusyOf(jobs)
      BY <2>1 DEF ScheduledInv, House!Busy, BusyOf
    <2>8. BusyOf(jobs) \in Int /\ BusyOf(jobs) <= makespan * Cardinality(Crew)
      <3>1. makespan \in Nat /\ \A k \in jobs : k.end <= makespan
        BY <2>1 DEF ScheduledInv
      <3> QED BY <1>1, <3>1, BusyBound
    <2>9. idleSeconds >= 0
      <3> DEFINE b == BusyOf(jobs)
                 c == makespan * Cardinality(Crew)
      <3>1. c \in Int
        <4>1. Cardinality(Crew) \in Nat /\ makespan \in Nat
          BY <2>1, RobotFacts DEF ScheduledInv
        <4> QED BY <4>1
      <3>2. idleSeconds = c - b /\ b \in Int /\ b <= c
        BY <2>7, <2>8
      <3> HIDE DEF b, c
      <3> QED BY <3>1, <3>2
    <2> QED BY <2>2, <2>3, <2>5, <2>6, <2>7, <2>9 DEF E
  <1>6. ASSUME phase = "trace", NEW j \in House!Carried, NEW r \in j.team PROVE House!Shown(r) = j.module
    <2> DEFINE active == {k \in jobs : r \in k.team /\ k.start <= frame /\ frame < k.end}
    <2>1. j \in jobs /\ j.pickup <= frame /\ frame < j.end /\ frame \in Int
      BY <1>6 DEF House!Carried, HouseInv
    <2>2. j.pickup \in Nat
      BY <1>1, <2>1 DEF JobsOK, JobOK, HouseNumbers
    <2>3. j.start <= frame
      BY <1>4, <2>1, <2>2
    <2>4. j \in active
      BY <2>1, <2>3
    <2>5. ASSUME NEW k \in active PROVE k = j
      <3>1. k \in jobs /\ r \in k.team /\ k.start <= frame /\ frame < k.end
        OBVIOUS
      <3>2. j.start < k.end /\ k.start < j.end
        BY <1>4, <2>1, <2>3, <3>1
      <3>3. ~House!Overlap(j, k)
        BY <1>4, <2>1, <3>1
      <3> QED BY <3>1, <3>2, <3>3 DEF House!Overlap
    <2>6. active = {j}
      <3> HIDE DEF active
      <3> QED BY <2>4, <2>5
    <2>7. House!Shown(r) = IF active = {} THEN 0
                           ELSE (CHOOSE x \in active : \A k \in active : x.start <= k.start).module
      BY DEF House!Shown
    <2> HIDE DEF active
    <2>8. \E x \in active : \A k \in active : x.start <= k.start
      BY <1>4, <2>1, <2>6
    <2> DEFINE first == CHOOSE x \in active : \A k \in active : x.start <= k.start
    <2>9. first \in active /\ House!Shown(r) = IF active = {} THEN 0 ELSE first.module
      BY <2>7, <2>8
    <2> HIDE DEF first
    <2> QED BY <2>6, <2>9
  <1> HIDE DEF M, E
  <1> QED BY <1>2, <1>3, <1>4, <1>5, <1>6 DEF House!ScheduleSound, House!Ends, E, M

\* What any controller schedules for any plan can be carried out, before and after a
\* disruption: every module gets one capable team, no robot is in two places, modules
\* wait for what they rest on, times and idle times agree with the jobs, the frames show
\* every robot at its job, and only plans that nobody could build are refused (compiler.py,
\* models.py, scheduler.py, recovery.py, trace.py).  The greedy controller never gives up
\* on a valid plan; the solver does so only when it stops at its limit.
THEOREM SchedulesAreSound == HouseNumbers => (House!Spec => []House!ScheduleSound)
  <1>1. ASSUME HouseNumbers PROVE House!Spec => []House!ScheduleSound
    <2>1. House!Init => HouseInv
      BY <1>1, HouseInit
    <2>2. HouseInv /\ [House!Next]_(House!vars) => HouseInv'
      BY <1>1, HouseKeeps
    <2>3. HouseInv => House!ScheduleSound
      BY <1>1, HouseIsSound
    <2> QED BY <2>1, <2>2, <2>3, PTL DEF House!Spec
  <1> QED BY <1>1

LEMMA TraceInOrder ==
    HouseNumbers /\ HouseInv /\ [House!Next]_(House!vars)
        => [House!Order!Next]_<<House!Mods, plan.deps, installed>>
  <1> SUFFICES ASSUME HouseNumbers, HouseInv, [House!Next]_(House!vars)
               PROVE  [House!Order!Next]_<<House!Mods, plan.deps, installed>>
    OBVIOUS
  <1>1. CASE UNCHANGED <<plan, installed>>
    BY <1>1 DEF House!Mods, House!ModulesOf
  <1>2. CASE House!BuildFrame
    <2>1. /\ phase = "trace" /\ frame \in Int /\ frame' = frame + FrameInterval
          /\ installed = Installed(jobs, frame) /\ installed' = Installed(jobs, frame')
          /\ plan' = plan /\ ScheduledInv /\ JobsOK(plan, jobs, {})
      BY <1>2 DEF HouseInv, House!BuildFrame, Installed, ScheduledInv
    <2>2. \A j \in jobs : JobOK(plan, j)
      BY <2>1 DEF JobsOK
    <2>3. installed' \in SUBSET House!Mods /\ installed \subseteq installed'
      <3>1. \A j \in jobs : j.module \in House!Mods /\ j.end \in Nat
        BY <2>2 DEF JobOK, House!Mods
      <3>2. frame <= frame' /\ frame' \in Int
        BY <2>1 DEF HouseNumbers
      <3>3. \A j \in jobs : j.end <= frame => j.end <= frame'
        BY <2>1, <3>1, <3>2
      <3> QED BY <2>1, <3>1, <3>3 DEF Installed
    <2>4. ASSUME NEW p \in installed' \ installed, NEW d \in plan.deps[p] PROVE d \in installed
      <3>1. PICK j \in jobs : p = j.module /\ j.end <= frame'
        BY <2>1 DEF Installed
      <3>2. JobOK(plan, j) /\ PlanOK(plan)
        BY <2>2 DEF HouseInv
      <3>3. j.start <= frame
        BY <2>1, <3>1, <3>2 DEF JobOK, HouseNumbers
      <3>4. d \in House!ModulesOf(plan)
        BY <3>1, <3>2, PlanFacts DEF JobOK
      <3>5. PICK k \in jobs : k.module = d
        BY <2>1, <3>4 DEF JobsOK
      <3>6. k.end <= j.start
        BY <2>1, <3>1, <3>5 DEF JobsOK, Fits
      <3>7. k.end <= frame
        BY <2>1, <2>2, <3>2, <3>3, <3>6 DEF JobOK
      <3> QED BY <2>1, <3>5, <3>7 DEF Installed
    <2>5. UNCHANGED <<House!Mods, plan.deps>>
      BY <2>1 DEF House!Mods, House!ModulesOf
    <2> QED BY <2>3, <2>4, <2>5 DEF House!Order!Next, House!Order!Install
  <1>3. CASE House!Next /\ ~House!BuildFrame
    <2>1. UNCHANGED <<plan, installed>>
      BY <1>3 DEF House!Next, House!Validate, House!Sequential, House!Greedy, House!GreedyWait, House!Optimize,
                  House!FinishSchedule, House!Disrupt, House!StartTrace
    <2> QED BY <1>1, <2>1
  <1>4. CASE UNCHANGED House!vars
    BY <1>1, <1>4 DEF House!vars
  <1> QED BY <1>2, <1>3, <1>4

\* The frames of a trace show a build in the order of the plan, if no job is shorter than
\* the time between two frames (trace.py takes 2 seconds, picking up takes 4).
THEOREM TracesBuildInOrder == HouseNumbers => (House!Spec => House!BuildsInOrder)
  <1>1. ASSUME HouseNumbers PROVE House!Spec => House!Order!Spec
    <2>1. House!Init => HouseInv /\ House!Order!Init
      BY <1>1, HouseInit DEF House!Init, House!Order!Init
    <2>2. HouseInv /\ [House!Next]_(House!vars) => HouseInv'
      BY <1>1, HouseKeeps
    <2>3. HouseInv /\ [House!Next]_(House!vars) => [House!Order!Next]_<<House!Mods, plan.deps, installed>>
      BY <1>1, TraceInOrder
    <2> QED BY <2>1, <2>2, <2>3, PTL DEF House!Spec, House!Order!Spec
  <1> QED BY <1>1 DEF House!BuildsInOrder

-----------------------------------------------------------------------------
(* The build that is driven in a simulator.                                *)

DrivePlaces == {"start", "decide", "approach", "attach", "carry", "install", "stop", "over"}

Targets(teams) == {p[1] : p \in teams}

\* What the environment may have counted before it stands.
Ahead ==
    CASE pc \in {"approach", "attach", "carry"} -> Targets(assigned)
      [] pc = "install" -> Targets(attachments)
      [] OTHER -> {}

DriveInv ==
    /\ logical \in [DriveModules -> {"todo", "active", "done"}]
    /\ pc \in DrivePlaces /\ installed \subseteq DriveModules
    \* Teams are disjoint, and what their modules rest on stands.
    /\ \A p \in assigned : p[1] \in DriveModules /\ DriveDeps[p[1]] \subseteq installed
    /\ \A p, q \in assigned : p # q => p[1] # q[1] /\ p[2] \cap q[2] = {}
    \* A module is held from its attachment to its installation.
    /\ attachments \subseteq assigned
    /\ pc \in {"start", "decide"} => attachments = {}
    /\ pc = "carry" => attachments = assigned
    /\ pc \notin {"stop", "over"} => Drive!Done \cup Drive!Active \subseteq installed \cup Ahead
    /\ driven # {} => pc \in Drive!Driving \cup {"stop"} /\ driven \subseteq Drive!Team

LEMMA DriveInit == Drive!Init => DriveInv
  BY DEF Drive!Init, DriveInv, DrivePlaces, Drive!Done, Drive!Active

\* Steps that leave everything but the place, the wheels and the routes as it is.
LEMMA DriveMoves ==
    ASSUME DriveInv, UNCHANGED <<logical, assigned, attachments, installed>>,
           pc' \in {"stop", "over"} \/ (pc' = "decide" /\ pc = "start")
             \/ (pc' = pc /\ pc \in Drive!Driving) \/ (pc' = "attach" /\ pc = "approach")
             \/ (pc' = "install" /\ pc = "carry"),
           driven' # {} => pc' \in Drive!Driving \cup {"stop"} /\ driven' \subseteq Drive!Team
    PROVE  DriveInv'
  <1>1. Drive!Done' = Drive!Done /\ Drive!Active' = Drive!Active /\ Drive!Team' = Drive!Team
    BY DEF Drive!Done, Drive!Active, Drive!Team
  <1>2. pc' \in DrivePlaces
    BY DEF DriveInv, DrivePlaces, Drive!Driving
  <1>3. pc' \in {"start", "decide"} => attachments = {}
    BY DEF DriveInv, Drive!Driving
  <1>4. pc' = "carry" => attachments = assigned
    BY DEF DriveInv
  <1>5. pc' \notin {"stop", "over"} => Ahead' = Ahead
    BY DEF Ahead, DriveInv, Drive!Driving, Targets
  <1>6. pc' \notin {"stop", "over"} => pc \notin {"stop", "over"}
    BY DEF Drive!Driving
  <1>7. (driven # {} => pc \in Drive!Driving \cup {"stop"} /\ driven \subseteq Drive!Team)'
    BY <1>1 DEF Drive!Driving
  <1> QED BY <1>1, <1>2, <1>3, <1>4, <1>5, <1>6, <1>7 DEF DriveInv

\* A decision assigns modules on what stands; what it counts is among them.
LEMMA DecideKeeps == ASSUME DriveInv, Drive!Decide PROVE DriveInv'
  <1>1. pc = "decide" /\ UNCHANGED <<driven, attachments, installed>>
    BY DEF Drive!Decide
  <1>2. PICK teams \in SUBSET {p \in Drive!Ready \X SUBSET Drivers : Drive!Cardinality(p[2]) = DriveTeams[p[1]]} :
            /\ \A p, q \in teams : p # q => p[1] # q[1] /\ p[2] \cap q[2] = {}
            /\ \E ended, dropped \in SUBSET (Drive!Active \cup {p[1] : p \in teams}) :
                /\ ended \cap dropped = {}
                /\ logical' = [m \in DriveModules |->
                    CASE m \in ended -> "done" [] m \in dropped -> "todo"
                      [] m \in {p[1] : p \in teams} \ (ended \cup dropped) -> "active"
                      [] OTHER -> logical[m]]
            /\ assigned' = teams
            /\ pc' = IF teams = {} THEN "decide" ELSE "approach"
    BY Zenon DEF Drive!Decide
  <1>3. PICK ended \in SUBSET (Drive!Active \cup {p[1] : p \in teams}),
             dropped \in SUBSET (Drive!Active \cup {p[1] : p \in teams}) :
                /\ ended \cap dropped = {}
                /\ logical' = [m \in DriveModules |->
                    CASE m \in ended -> "done" [] m \in dropped -> "todo"
                      [] m \in {p[1] : p \in teams} \ (ended \cup dropped) -> "active"
                      [] OTHER -> logical[m]]
    BY <1>2, Zenon
  <1>4. Targets(teams) = {p[1] : p \in teams}
    BY DEF Targets
  <1>5. \A p \in teams : p[1] \in DriveModules /\ DriveDeps[p[1]] \subseteq Drive!Done
    BY <1>2 DEF Drive!Ready
  <1>6. Drive!Done \cup Drive!Active \subseteq installed /\ driven = {} /\ attachments = {}
    BY <1>1 DEF DriveInv, Ahead, Drive!Driving
  <1>7. \A p \in assigned' : p[1] \in DriveModules /\ DriveDeps[p[1]] \subseteq installed'
    BY <1>1, <1>2, <1>5, <1>6
  <1>8. logical' \in [DriveModules -> {"todo", "active", "done"}]
    <2>1. logical \in [DriveModules -> {"todo", "active", "done"}]
      BY DEF DriveInv
    <2> QED BY <1>3, <2>1
  <1>9. Drive!Done' \cup Drive!Active' \subseteq installed \cup Targets(teams)
    <2> SUFFICES ASSUME NEW m \in DriveModules, logical'[m] \in {"active", "done"}
                 PROVE  m \in installed \cup Targets(teams)
      BY DEF Drive!Done, Drive!Active
    <2>1. CASE m \in ended \cup dropped \cup Targets(teams)
      BY <1>6, <1>4, <2>1
    <2>2. CASE m \notin ended \cup dropped \cup Targets(teams)
      <3>1. logical'[m] = logical[m]
        BY <1>3, <1>4, <2>2
      <3> QED BY <1>6, <3>1 DEF Drive!Done, Drive!Active
    <2> QED BY <2>1, <2>2
  <1>10. Ahead' = Targets(teams) /\ pc' \in {"decide", "approach"}
    BY <1>1, <1>2 DEF Ahead, Targets
  <1> QED BY <1>1, <1>2, <1>6, <1>7, <1>8, <1>9, <1>10 DEF DriveInv, DrivePlaces

\* Teams that are carried out lose nothing of what was counted.
LEMMA AttachKeeps == ASSUME DriveInv, Drive!Attach PROVE DriveInv'
  <1>1. pc = "attach" /\ UNCHANGED <<logical, assigned, driven, installed>> /\ driven = {}
    BY DEF Drive!Attach, DriveInv, Drive!Driving
  <1>2. Drive!Done' = Drive!Done /\ Drive!Active' = Drive!Active
    BY <1>1 DEF Drive!Done, Drive!Active
  <1>3. /\ attachments \subseteq assigned /\ attachments' \subseteq assigned
        /\ (pc' = "carry" /\ attachments' = assigned) \/ pc' = "stop" \/ pc' = "attach"
    BY <1>1 DEF Drive!Attach, DriveInv
  <1>4. pc' # "stop" => Ahead' = Ahead
    BY <1>1, <1>3 DEF Ahead, Targets
  <1> QED BY <1>1, <1>2, <1>3, <1>4 DEF DriveInv, DrivePlaces

LEMMA InstallKeeps == ASSUME DriveInv, Drive!Install PROVE DriveInv'
  <1>1. pc = "install" /\ UNCHANGED <<logical, assigned, driven>> /\ driven = {}
    BY DEF Drive!Install, DriveInv, Drive!Driving
  <1>2. /\ Drive!Done' = Drive!Done /\ Drive!Active' = Drive!Active
        /\ Drive!Done \cup Drive!Active \subseteq installed \cup Targets(attachments)
    BY <1>1 DEF Drive!Done, Drive!Active, DriveInv, Ahead
  <1>3. CASE attachments = {} /\ pc' = "decide" /\ UNCHANGED <<attachments, installed>>
    <2>1. Targets(attachments) = {}
      BY <1>3 DEF Targets
    <2> QED BY <1>1, <1>2, <1>3, <2>1 DEF DriveInv, DrivePlaces
  <1>4. CASE pc' = "stop" /\ UNCHANGED <<attachments, installed>>
    BY <1>1, <1>2, <1>4 DEF DriveInv, DrivePlaces
  <1>5. CASE \E p \in attachments :
            /\ attachments' = attachments \ {p} /\ installed' = installed \cup {p[1]}
            /\ UNCHANGED pc
    <2> PICK p \in attachments :
            /\ attachments' = attachments \ {p} /\ installed' = installed \cup {p[1]}
            /\ UNCHANGED pc
      BY <1>5
    <2>1. p[1] \in DriveModules /\ installed' \subseteq DriveModules /\ installed \subseteq installed'
      BY DEF DriveInv
    <2>2. installed \cup Targets(attachments) \subseteq installed' \cup Ahead'
      BY <1>1 DEF Ahead, Targets
    <2>3. \A q \in assigned : q[1] \in DriveModules /\ DriveDeps[q[1]] \subseteq installed'
      BY <2>1 DEF DriveInv
    <2> QED BY <1>1, <1>2, <2>1, <2>2, <2>3 DEF DriveInv, DrivePlaces
  <1> QED BY <1>3, <1>4, <1>5 DEF Drive!Install

LEMMA DriveKeeps == DriveInv /\ [Drive!Next]_(Drive!vars) => DriveInv'
  <1> SUFFICES ASSUME DriveInv, [Drive!Next]_(Drive!vars) PROVE DriveInv'
    OBVIOUS
  <1>1. CASE Drive!Start
    <2>1. driven = {}
      BY <1>1 DEF Drive!Start, DriveInv, Drive!Driving
    <2> QED BY <1>1, <2>1, DriveMoves DEF Drive!Start
  <1>2. CASE Drive!EndEpisode
    <2>1. driven = {}
      BY <1>2 DEF Drive!EndEpisode, DriveInv, Drive!Driving
    <2> QED BY <1>2, <2>1, DriveMoves DEF Drive!EndEpisode
  <1>3. CASE Drive!ControlStep
    <2>1. /\ pc \in Drive!Driving /\ pc' \in {pc, "stop"}
          /\ UNCHANGED <<logical, assigned, attachments, installed>>
      BY <1>3 DEF Drive!ControlStep
    <2>2. driven' \subseteq driven \cup Drive!Team
      BY <1>3 DEF Drive!ControlStep, Drive!Underway
    <2>3. driven' \subseteq Drive!Team
      BY <2>2 DEF DriveInv
    <2> QED BY <2>1, <2>3, DriveMoves
  <1>4. CASE Drive!Hold
    <2>1. driven' = {}
      BY <1>4 DEF Drive!Hold, DriveInv
    <2>2. (pc = "approach" /\ pc' = "attach") \/ (pc = "carry" /\ pc' = "install")
      BY <1>4 DEF Drive!Hold, Drive!Driving
    <2> QED BY <1>4, <2>1, <2>2, DriveMoves DEF Drive!Hold
  <1>5. CASE Drive!Stop
    BY <1>5, DriveMoves DEF Drive!Stop
  <1>6. CASE UNCHANGED Drive!vars
    BY <1>6 DEF Drive!vars, DriveInv, Ahead, Drive!Done, Drive!Active, Drive!Team
  <1> QED BY <1>1, <1>2, <1>3, <1>4, <1>5, <1>6, DecideKeeps, AttachKeeps, InstallKeeps
          DEF Drive!Next

THEOREM DriveInvariant == Drive!Spec => []DriveInv
  <1> QED BY DriveInit, DriveKeeps, PTL DEF Drive!Spec

LEMMA DriveSound == DriveInv => Drive!DrivenSound
  BY DEF DriveInv, Drive!DrivenSound, Ahead

\* Wheels turn only on a route and not after the run, however it ends; a module is
\* carried by a team of its own; and all that the environment has counted when it
\* decides stands, although it is ahead of the robots in between (coppelia_dynamic.py).
THEOREM DriveIsSound == Drive!Spec => []Drive!DrivenSound
  BY DriveSound, DriveInvariant, PTL

LEMMA DriveInOrder ==
    DriveInv /\ [Drive!Next]_(Drive!vars) => [Driven!Next]_<<DriveModules, DriveDeps, installed>>
  <1> SUFFICES ASSUME DriveInv, [Drive!Next]_(Drive!vars)
               PROVE  [Driven!Next]_<<DriveModules, DriveDeps, installed>>
    OBVIOUS
  <1>1. CASE Drive!Install
    <2>1. UNCHANGED installed \/ \E p \in attachments : installed' = installed \cup {p[1]}
      BY <1>1 DEF Drive!Install
    <2>2. \A p \in attachments : p[1] \in DriveModules /\ DriveDeps[p[1]] \subseteq installed
      BY DEF DriveInv
    <2>3. installed \subseteq DriveModules
      BY DEF DriveInv
    <2> QED BY <2>1, <2>2, <2>3 DEF Driven!Next, Driven!Install
  <1>2. CASE UNCHANGED Drive!vars
    BY <1>2 DEF Drive!vars
  <1>3. CASE Drive!Start \/ Drive!Decide \/ Drive!EndEpisode \/ Drive!ControlStep \/ Drive!Hold
               \/ Drive!Attach \/ Drive!Stop
    BY <1>3 DEF Drive!Start, Drive!Decide, Drive!EndEpisode, Drive!ControlStep, Drive!Hold,
                Drive!Attach, Drive!Stop
  <1> QED BY <1>1, <1>2, <1>3 DEF Drive!Next

\* What the robots build, they build in the order of the plan: a module is installed
\* on installed ones, although the dependencies are checked in the environment only.
THEOREM DriveIsBuild == Drive!Spec => Driven!Spec
  <1>1. Drive!Init => Driven!Init
    BY DEF Drive!Init, Driven!Init
  <1> QED BY <1>1, DriveInOrder, DriveInvariant, PTL DEF Drive!Spec, Driven!Spec

-----------------------------------------------------------------------------
(* The scene of an assembly.                                               *)

\* What there is of a scene looks like a frame.
LooksLike(sc, f) ==
    /\ objects >= 1 => sc.agents = f.agents
    /\ objects >= 2 => /\ sc.place = [e \in Mirror!Elements |-> Mirror!Place(f, e)]
                       /\ 1..f.installed \subseteq sc.turned
    /\ objects >= 3 => sc.markers = 1..f.installed

LEMMA SyncedLooks == \A f, sc : LooksLike(Mirror!Synced(f, sc), f)
  <1> TAKE f, sc
  <1>1. Mirror!Synced(f, sc) = [agents  |-> IF objects >= 1 THEN f.agents ELSE sc.agents,
                                markers |-> IF objects >= 3 THEN 1..f.installed ELSE sc.markers,
                                place   |-> IF objects >= 2 THEN [e \in Mirror!Elements |-> Mirror!Place(f, e)]
                                            ELSE sc.place,
                                turned  |-> IF objects >= 2 THEN sc.turned \cup 1..f.installed ELSE sc.turned]
    BY DEF Mirror!Synced, Mirror!SyncedUpTo, Mirror!Shown
  <1> QED BY <1>1 DEF LooksLike

SceneInv == (~ready => objects = 0) /\ \A f \in shown : LooksLike(scene, f)

LEMMA SceneKeeps == SceneInv /\ [Mirror!Next]_(Mirror!vars) => SceneInv'
  <1> SUFFICES ASSUME SceneInv, [Mirror!Next]_(Mirror!vars) PROVE SceneInv'
    OBVIOUS
  <1> USE DEF Mirror!Returns, Mirror!Raises, Mirror!Looks, Mirror!Rests, Mirror!RunsOn, Mirror!StartsFrom, SceneInv
  <1>1. ASSUME UNCHANGED <<ready, objects>>,
               shown' = {} \/ \E f, sc : shown' = {f} /\ scene' = Mirror!Synced(f, sc)
        PROVE  SceneInv'
    BY <1>1, SyncedLooks DEF LooksLike
  <1>2. CASE Mirror!Reset
    BY <1>1, <1>2 DEF Mirror!Reset
  <1>3. CASE Mirror!Step
    BY <1>1, <1>3 DEF Mirror!Step
  <1>4. CASE Mirror!ExecuteOption
    BY <1>1, <1>4 DEF Mirror!ExecuteOption
  <1>5. CASE Mirror!SetCurriculumStage
    <2>1. CASE ready
      BY <1>1, <1>5, <2>1 DEF Mirror!SetCurriculumStage
    <2>2. CASE ~ready
      BY <1>5, <2>2 DEF Mirror!SetCurriculumStage, LooksLike
    <2> QED BY <2>1, <2>2
  <1>6. CASE Mirror!FocusCameras
    BY <1>1, <1>6 DEF Mirror!FocusCameras
  <1>7. CASE Mirror!RecordEpisode
    BY <1>1, <1>7 DEF Mirror!RecordEpisode
  <1>8. CASE Mirror!SaveScene
    BY <1>1, <1>8 DEF Mirror!SaveScene
  <1>9. CASE Mirror!Close
    BY <1>1, <1>9 DEF Mirror!Close
  <1>10. CASE UNCHANGED Mirror!vars
    BY <1>10 DEF Mirror!vars, LooksLike
  <1> QED BY <1>2, <1>3, <1>4, <1>5, <1>6, <1>7, <1>8, <1>9, <1>10 DEF Mirror!Next

LEMMA SceneInit == Mirror!Init => SceneInv
  BY DEF Mirror!Init, SceneInv

LEMMA SceneShows == SceneInv => Mirror!SceneMirrors
  BY DEF SceneInv, LooksLike, Mirror!SceneMirrors

\* Whatever failed before, a call that returns leaves a scene that shows its frame, as
\* far as there are objects for it (coppelia_backend.py).
THEOREM ScenesMirror == Mirror!Spec => []Mirror!SceneMirrors
  BY SceneInit, SceneShows, SceneKeeps, PTL DEF Mirror!Spec

-----------------------------------------------------------------------------
(* The building of a site.                                                 *)

\* What SiteNumbers says of a site that is played.
SiteOK(s) ==
    /\ s.kind \in {"blueprint", "scenario"}
    /\ \E n \in Nat : n > 0 /\ DOMAIN s.needs = 1..n
    /\ s.starts \in Spots
    /\ s.pickup \in [DOMAIN s.needs -> Spots] /\ s.assembly \in [DOMAIN s.needs -> Spots]
    /\ s.kind = "scenario" =>
        /\ s.starts \in Site!Grid \X Site!Grid /\ s.starts[1] # s.starts[2]
        /\ \A p \in DOMAIN s.needs : s.needs[p] = {}

LEMMA SiteOperators ==
    /\ \A S : Site!Cardinality(S) = Cardinality(S) /\ Site!Min(S) = Min(S) /\ Site!Max(S) = Max(S)
    /\ \A f : Site!Range(f) = Range(f) /\ (Site!IsInjective(f) <=> IsInjective(f))
    /\ \A s : Site!FlattenSeq(s) = FlattenSeq(s)
  BY DEF Cardinality, Site!Cardinality, Min, Site!Min, Max, Site!Max, Range, Site!Range,
         IsInjective, Site!IsInjective, FlattenSeq, Site!FlattenSeq

LEMMA PairMax == ASSUME NEW x \in Int, NEW y \in Int
                 PROVE  Site!Max({x, y}) = IF x <= y THEN y ELSE x
  BY MaxIs, SiteOperators

LEMMA PairMin == ASSUME NEW x \in Int, NEW y \in Int
                 PROVE  Site!Min({x, y}) = IF x <= y THEN x ELSE y
  <1> DEFINE m == IF x <= y THEN x ELSE y
  <1>1. m \in {x, y} /\ \A z \in {x, y} : m <= z
    OBVIOUS
  <1>2. \A w \in {x, y} : (\A z \in {x, y} : w <= z) => w = m
    OBVIOUS
  <1> HIDE DEF m
  <1>3. Min({x, y}) = m
    BY <1>1, <1>2 DEF Min
  <1> QED BY <1>3, SiteOperators DEF m

LEMMA MoveInGrid == ASSUME NEW c \in Site!Grid, NEW a, Size \in Nat PROVE Site!Move(c, a) \in Site!Grid
  <1>1. PICK x \in 0..(Size - 1), y \in 0..(Size - 1) : c = <<x, y>>
    BY DEF Site!Grid
  <1>2. /\ Site!Max({0, y - 1}) \in 0..(Size - 1) /\ Site!Max({0, x - 1}) \in 0..(Size - 1)
        /\ Site!Min({Size - 1, y + 1}) \in 0..(Size - 1) /\ Site!Min({Size - 1, x + 1}) \in 0..(Size - 1)
    <2>1. PICK z \in Int : z = 0
      OBVIOUS
    <2>2. PICK b \in Int : b = Size - 1
      OBVIOUS
    <2>3. PICK l \in Int, r \in Int, u \in Int, d \in Int : l = x - 1 /\ r = x + 1 /\ u = y - 1 /\ d = y + 1
      OBVIOUS
    <2>4. /\ Site!Max({z, u}) = IF z <= u THEN u ELSE z
          /\ Site!Max({z, l}) = IF z <= l THEN l ELSE z
          /\ Site!Min({b, d}) = IF b <= d THEN b ELSE d
          /\ Site!Min({b, r}) = IF b <= r THEN b ELSE r
      BY PairMax, PairMin
    <2> QED BY <2>1, <2>2, <2>3, <2>4
  <1> QED BY <1>1, <1>2 DEF Site!Move, Site!Grid

-----------------------------------------------------------------------------
\* A beginning of the order: every part once, each after what it rests on.
Sorted(d, s) ==
    /\ d \in Seq(Site!Parts(s))
    /\ \A i, j \in 1..Len(d) : d[i] = d[j] => i = j
    /\ \A i \in 1..Len(d) : s.needs[d[i]] \subseteq {d[j] : j \in 1..(i - 1)}
OrderOK(o, s) == Sorted(o, s) /\ Len(o) = Cardinality(Site!Parts(s))

Ready(s, d) == {p \in Site!Parts(s) : p \notin Range(d) /\ s.needs[p] \subseteq Range(d)}
Lengthened(s, d) == IF Ready(s, d) = {} THEN d ELSE Append(d, Site!Min(Ready(s, d)))

LEMMA SortedFurther ==
    ASSUME NEW s, SiteOK(s), NEW d, Sorted(d, s) PROVE Sorted(Lengthened(s, d), s)
  <1>1. CASE Ready(s, d) = {}
    BY <1>1 DEF Lengthened
  <1>2. CASE Ready(s, d) # {}
    <2>1. PICK n \in Nat : Site!Parts(s) = 1..n
      BY DEF SiteOK, Site!Parts
    <2>2. Ready(s, d) \in SUBSET Nat
      BY <2>1 DEF Ready
    <2>3. PICK p \in Ready(s, d) : Lengthened(s, d) = Append(d, p)
      BY <1>2, <2>2, LeastIsMin, SiteOperators DEF Lengthened
    <2>4. p \in Site!Parts(s) /\ p \notin Range(d) /\ s.needs[p] \subseteq Range(d)
      BY <2>3 DEF Ready
    <2>5. d \in Seq(Site!Parts(s)) /\ Range(d) = {d[j] : j \in 1..Len(d)} /\ Len(d) \in Nat
      BY DEF Sorted, Range
    <2> DEFINE q == Append(d, p)
    <2>6. /\ q \in Seq(Site!Parts(s)) /\ Len(q) = Len(d) + 1 /\ q[Len(d) + 1] = p
          /\ \A i \in 1..Len(d) : q[i] = d[i]
      BY <2>4, <2>5, AppendProperties
    <2> HIDE DEF q
    <2>7. ASSUME NEW i \in 1..Len(q), NEW j \in 1..Len(q), q[i] = q[j] PROVE i = j
      <3>1. \A k \in 1..Len(d) : d[k] # p
        BY <2>4, <2>5
      <3>2. (i \in 1..Len(d) \/ i = Len(d) + 1) /\ (j \in 1..Len(d) \/ j = Len(d) + 1)
        BY <2>5, <2>6
      <3> QED BY <2>6, <2>7, <3>1, <3>2 DEF Sorted
    <2>8. ASSUME NEW i \in 1..Len(q) PROVE s.needs[q[i]] \subseteq {q[j] : j \in 1..(i - 1)}
      <3>1. CASE i \in 1..Len(d)
        <4>1. s.needs[q[i]] \subseteq {d[j] : j \in 1..(i - 1)}
          BY <2>6, <3>1 DEF Sorted
        <4>2. \A j \in 1..(i - 1) : j \in 1..Len(d) /\ q[j] = d[j]
          BY <2>5, <2>6, <3>1
        <4> QED BY <4>1, <4>2
      <3>2. CASE i = Len(d) + 1
        <4>1. q[i] = p /\ i - 1 = Len(d)
          BY <2>5, <2>6, <3>2
        <4>2. s.needs[p] \subseteq {d[j] : j \in 1..Len(d)}
          BY <2>4, <2>5
        <4> QED BY <2>6, <4>1, <4>2
      <3> QED BY <2>5, <2>6, <3>1, <3>2
    <2>9. Sorted(q, s)
      BY <2>6, <2>7, <2>8 DEF Sorted
    <2> QED BY <2>3, <2>9 DEF q
  <1> QED BY <1>1, <1>2

LEMMA NothingSorted == ASSUME NEW s PROVE Sorted(<<>>, s)
  <1>1. <<>> \in Seq(Site!Parts(s)) /\ Len(<<>>) = 0
    OBVIOUS
  <1> QED BY <1>1 DEF Sorted

LEMMA OrderSorted == ASSUME NEW s, SiteOK(s) PROVE Sorted(Site!InstallationOrder(s), s)
  <1> DEFINE n == Cardinality(Site!Parts(s))
             X == {d \in Seq(Site!Parts(s)) : Sorted(d, s)}
             longer == [d \in X |-> Lengthened(s, d)]
             step == [t \in Nat |-> longer]
             Body(f) == [k \in 0..n |-> IF k = 0 THEN <<>> ELSE Lengthened(s, f[k - 1])]
             upTo == CHOOSE f : f = Body(f)
  <1>1. n \in Nat
    BY FS_Interval DEF SiteOK, Site!Parts
  <1>2. Site!InstallationOrder(s) = upTo[n]
    BY DEF Site!InstallationOrder, Lengthened, Ready, Site!Range, Range, Site!Cardinality, Cardinality
  <1>3. <<>> \in X
    BY NothingSorted
  <1>4. \A d \in X : Lengthened(s, d) \in X
    BY SortedFurther DEF Sorted
  <1>5. longer \in [X -> X]
    BY <1>4
  <1>6. step \in [Nat -> [X -> X]]
    BY <1>5
  <1>7. \E f : f = Body(f)
    <2>1. PICK f : Iterates(f, X, <<>>, step, n)
      <3> HIDE DEF n, X, step
      <3> QED BY <1>1, <1>3, <1>6, Recursion
    <2>2. f \in [0..n -> X] /\ f[0] = <<>> /\ \A t \in 1..n : f[t] = step[t][f[t - 1]]
      BY <2>1 DEF Iterates
    <2>3. \A t \in 1..n : f[t] = Lengthened(s, f[t - 1])
      <3> TAKE t \in 1..n
      <3>1. t - 1 \in 0..n /\ t \in Nat
        BY <1>1
      <3>2. f[t - 1] \in X
        BY <2>2, <3>1
      <3>3. step[t] = longer
        BY <3>1
      <3>4. longer[f[t - 1]] = Lengthened(s, f[t - 1])
        BY <3>2
      <3> QED BY <2>2, <3>3, <3>4
    <2>4. ASSUME NEW k \in 0..n
          PROVE  f[k] = IF k = 0 THEN <<>> ELSE Lengthened(s, f[k - 1])
      <3>1. CASE k = 0
        BY <2>2, <3>1
      <3>2. CASE k # 0
        <4>1. k \in 1..n
          BY <1>1, <3>2
        <4> QED BY <2>3, <3>2, <4>1
      <3> QED BY <3>1, <3>2
    <2> HIDE DEF n, X
    <2>5. f = Body(f)
      BY <2>2, <2>4
    <2> QED BY <2>5
  <1>8. upTo = Body(upTo)
    <2> HIDE DEF Body
    <2> QED BY <1>7
  <1> HIDE DEF upTo, n
  <1>9. \A k \in 0..n : upTo[k] = IF k = 0 THEN <<>> ELSE Lengthened(s, upTo[k - 1])
    BY <1>8
  <1>10. \A k \in 0..n : Sorted(upTo[k], s)
    <2> DEFINE bad == {k \in 0..n : ~Sorted(upTo[k], s)}
    <2> SUFFICES ASSUME bad # {} PROVE FALSE
      OBVIOUS
    <2>1. bad \in SUBSET Nat
      BY <1>1
    <2> HIDE DEF bad
    <2>2. PICK k \in bad : \A j \in bad : k <= j
      BY <2>1, LeastNumber
    <2>3. k \in 0..n /\ ~Sorted(upTo[k], s)
      BY <2>2 DEF bad
    <2>4. CASE k = 0
      BY <1>9, <2>3, <2>4, NothingSorted
    <2>5. CASE k # 0
      <3>1. k - 1 \in 0..n /\ ~(k <= k - 1)
        BY <1>1, <2>3, <2>5
      <3>2. Sorted(upTo[k - 1], s)
        BY <2>2, <3>1 DEF bad
      <3>3. Sorted(Lengthened(s, upTo[k - 1]), s)
        BY <3>2, SortedFurther
      <3> QED BY <1>9, <2>3, <2>5, <3>3
    <2> QED BY <2>4, <2>5
  <1>11. n \in 0..n
    BY <1>1
  <1> QED BY <1>2, <1>10, <1>11

LEMMA DeclaredSorted ==
    ASSUME NEW s, SiteOK(s), s.kind = "scenario" PROVE OrderOK(Site!OrderAsDeclared(s), s)
  <1>1. PICK n \in Nat : Site!Parts(s) = 1..n
    BY DEF SiteOK, Site!Parts
  <1>2. Cardinality(1..n) = n
    BY FS_Interval
  <1> DEFINE o == [i \in 1..n |-> i]
  <1>3. o \in Seq(1..n) /\ Len(o) = n
    BY <1>1
  <1>4. \A p \in 1..n : s.needs[p] = {}
    BY <1>1 DEF SiteOK, Site!Parts
  <1>5. Site!OrderAsDeclared(s) = o
    BY <1>1 DEF Site!OrderAsDeclared
  <1> QED BY <1>1, <1>2, <1>3, <1>4, <1>5 DEF OrderOK, Sorted

\* What a valid site keeps apart.
LEMMA RobotsReserved ==
    ASSUME NEW s, SiteOK(s)
    PROVE  /\ {s.starts[1], s.starts[2]} \subseteq Range(Site!Reserved(s))
           /\ IsInjective(Site!Reserved(s)) => s.starts[1] # s.starts[2]
  <1>1. PICK n \in Nat : DOMAIN s.needs = 1..n
    BY DEF SiteOK
  <1>2. s.pickup \in [1..n -> [1..2 -> Point]] /\ s.assembly \in [1..n -> [1..2 -> Point]]
    <2>1. \A x \in Spots : x \in [1..2 -> Point]
      BY DEF Spots
    <2> QED BY <1>1, <2>1 DEF SiteOK
  <1>3. FlattenSeq(s.pickup) \in [1..(n * 2) -> Point] /\ FlattenSeq(s.assembly) \in [1..(n * 2) -> Point]
    <2>1. PICK k \in Nat : k = 2
      OBVIOUS
    <2> QED BY <1>2, <2>1, EqualPieces
  <1> DEFINE F == FlattenSeq(s.pickup)
             G == FlattenSeq(s.assembly)
  <1>4. F \in Seq(Point) /\ G \in Seq(Point) /\ s.starts \in Seq(Point) /\ Len(s.starts) = 2
    <2>1. n * 2 \in Nat
      OBVIOUS
    <2>2. PICK m \in Nat : m = n * 2
      BY <2>1
    <2>3. F \in [1..m -> Point] /\ G \in [1..m -> Point]
      BY <1>3, <2>2
    <2>4. \A x \in Spots : x \in Seq(Point) /\ Len(x) = 2
      <3> TAKE x \in Spots
      <3>1. PICK c \in Point, d \in Point : x = <<c, d>>
        BY DEF Spots
      <3>2. <<c, d>> \in Seq(Point) /\ Len(<<c, d>>) = 2
        OBVIOUS
      <3> QED BY <3>1, <3>2
    <2> HIDE DEF F, G
    <2> QED BY <2>3, <2>4 DEF SiteOK
  <1> HIDE DEF F, G
  <1> DEFINE Q == s.starts \o F
             R == Q \o G
  <1>5. Q \in Seq(Point) /\ Len(Q) = 2 + Len(F) /\ Q[1] = s.starts[1] /\ Q[2] = s.starts[2]
    <2>1. PICK t \in Seq(Point) : t = s.starts /\ Len(t) = 2
      BY <1>4
    <2>2. /\ t \o F \in Seq(Point) /\ Len(t \o F) = Len(t) + Len(F)
          /\ \A i \in 1..(Len(t) + Len(F)) : (t \o F)[i] = IF i <= Len(t) THEN t[i] ELSE F[i - Len(t)]
      BY <1>4, ConcatProperties
    <2> QED BY <1>4, <2>1, <2>2
  <1> HIDE DEF Q
  <1>6. R \in Seq(Point) /\ Len(R) = Len(Q) + Len(G) /\ R[1] = s.starts[1] /\ R[2] = s.starts[2]
    BY <1>4, <1>5
  <1>7. Site!Reserved(s) = R
    BY SiteOperators DEF Site!Reserved, Q, F, G
  <1>8. 1 \in DOMAIN R /\ 2 \in DOMAIN R
    BY <1>4, <1>5, <1>6
  <1> HIDE DEF R
  <1> QED BY <1>6, <1>7, <1>8 DEF Range, IsInjective

-----------------------------------------------------------------------------
\* The records of an episode.
Fields == {"at", "index", "carrying", "installed", "steps", "attempts", "queued", "failed",
           "recovered", "failures", "recoveries", "collisions", "hits", "invalid", "deadlocks",
           "wasted"}
IsEnv(e) == DOMAIN e = Fields /\ e = [f \in Fields |-> e[f]]

SameBooks(e, m) ==
    /\ m.index = e.index /\ m.carrying = e.carrying /\ m.installed = e.installed
    /\ m.attempts = e.attempts /\ m.queued = e.queued
    /\ m.failed = e.failed /\ m.recovered = e.recovered
    /\ m.failures = e.failures /\ m.recoveries = e.recoveries

\* Two robots on cells of their own.
Placed(at) == at \in Site!Open \X Site!Open /\ at[1] # at[2]

LEMMA PairOf == ASSUME NEW S, NEW at \in S \X S, NEW x, NEW y
                PROVE  <<x, y>> = at <=> x = at[1] /\ y = at[2]
  OBVIOUS

LEMMA FreeSteps ==
    ASSUME NEW e, IsEnv(e), Placed(e.at), NEW a, Size \in Nat
    PROVE  LET m == Site!StepIndependent(e, a)
           IN  /\ IsEnv(m) /\ SameBooks(e, m) /\ Placed(m.at)
               /\ Site!Both(a, "grab") => m.at = e.at
  <1> DEFINE Mv(i) == Site!Move(e.at[i], a[i])
             hit == {i \in Site!Pair : Mv(i) \in site.obstacles \ {e.at[i]}}
             To(i) == IF i \in hit THEN e.at[i] ELSE Mv(i)
             to == <<To(1), To(2)>>
             met == to[1] = to[2] \/ (to[1] = e.at[2] /\ to[2] = e.at[1])
             m == Site!StepIndependent(e, a)
             new == IF met THEN e.at ELSE to
  <1>1. \A i \in Site!Pair : e.at[i] \in Site!Open /\ e.at[i] \in Site!Grid /\ e.at[i] \notin site.obstacles
    BY DEF Placed, Site!Pair, Site!Open
  <1>2. \A i \in Site!Pair : To(i) \in Site!Open
    <2> TAKE i \in Site!Pair
    <2>1. Mv(i) \in Site!Grid
      BY <1>1, MoveInGrid
    <2> QED BY <1>1, <2>1 DEF Site!Open
  <1>3. /\ m.at = new /\ IsEnv(m) /\ SameBooks(e, m)
    <2> HIDE DEF Mv
    <2> QED BY DEF Site!StepIndependent, IsEnv, Fields, SameBooks, Mv
  <1>4. Placed(new)
    <2>1. to \in Site!Open \X Site!Open
      BY <1>2 DEF Site!Pair
    <2>2. ~met => to[1] # to[2]
      OBVIOUS
    <2> HIDE DEF to, met
    <2> QED BY <2>1, <2>2 DEF Placed
  <1>5. ASSUME Site!Both(a, "grab") PROVE new = e.at
    <2>1. \A i \in Site!Pair : Mv(i) = e.at[i]
      BY <1>5 DEF Site!Both, Site!Move, Site!Pair
    <2>2. \A i \in Site!Pair : To(i) = e.at[i]
      BY <2>1
    <2>3. to = e.at
      BY <2>2, PairOf DEF Placed, Site!Pair
    <2> HIDE DEF to
    <2> QED BY <2>3
  <1> QED BY <1>3, <1>4, <1>5

LEMMA RigidSteps ==
    ASSUME NEW e, IsEnv(e), Placed(e.at), NEW a, Size \in Nat
    PROVE  LET m == Site!StepCarrying(e, a)
           IN  /\ IsEnv(m) /\ SameBooks(e, m) /\ Placed(m.at)
               /\ Site!Offset(m.at) = Site!Offset(e.at)
               /\ Site!Both(a, "install") => m = e
  <1> DEFINE to == <<Site!Move(e.at[1], a[1]), Site!Move(e.at[2], a[1])>>
             m == Site!StepCarrying(e, a)
             turned == [e EXCEPT !.deadlocks = @ + 1]
             struck == [e EXCEPT !.collisions = @ + 1, !.hits = @ + 1]
             closed == [e EXCEPT !.collisions = @ + 1]
             bent == [e EXCEPT !.invalid = @ + 1]
             moved == [e EXCEPT !.at = to]
  <1>1. m = CASE a[1] # a[2] -> turned
              [] a[1] \in Site!Terminal /\ a[1] = a[2] -> e
              [] OTHER -> IF \E i \in Site!Pair : to[i] \in site.obstacles THEN struck
                          ELSE IF to[1] = to[2] THEN closed
                          ELSE IF Site!Offset(to) # Site!Offset(e.at) THEN bent ELSE moved
    BY DEF Site!StepCarrying
  <1> DEFINE Kept(x) == IsEnv(x) /\ SameBooks(e, x) /\ x.at = e.at
  <1>2. Kept(turned) /\ Kept(struck) /\ Kept(closed) /\ Kept(bent) /\ Kept(e)
    BY DEF IsEnv, Fields, SameBooks
  <1>3. IsEnv(moved) /\ SameBooks(e, moved) /\ moved.at = to
    BY DEF IsEnv, Fields, SameBooks
  <1>4. to \in Site!Grid \X Site!Grid
    BY MoveInGrid DEF Placed, Site!Open
  <1> HIDE DEF turned, struck, closed, bent, moved, to
  <1>5. \/ m \in {turned, struck, closed, bent, e}
        \/ /\ m = moved /\ to[1] \notin site.obstacles /\ to[2] \notin site.obstacles
           /\ to[1] # to[2] /\ Site!Offset(to) = Site!Offset(e.at)
    BY <1>1 DEF Site!Pair
  <1>6. ASSUME Site!Both(a, "install") PROVE m = e
    BY <1>1, <1>6 DEF Site!Both, Site!Terminal
  <1> HIDE DEF m
  <1>7. CASE m \in {turned, struck, closed, bent, e}
    <2> HIDE DEF Kept
    <2>1. Kept(m)
      BY <1>2, <1>7
    <2> QED BY <1>6, <2>1 DEF m, Kept
  <1>8. CASE m = moved /\ Placed(to) /\ Site!Offset(to) = Site!Offset(e.at)
    BY <1>3, <1>6, <1>8 DEF m
  <1> QED BY <1>4, <1>5, <1>7, <1>8 DEF Placed, Site!Open

-----------------------------------------------------------------------------
\* The books of an episode: what was tried, what failed and what was made good.
Keys(s) == Site!Parts(s) \X Site!Phases
MadeGood(e, k) == k \in e.failed => k \in e.recovered
Owing(e) == IF e.carrying THEN 1 ELSE 0

BooksOK(e, s, o) ==
    /\ e.attempts \in [Keys(s) -> Nat] /\ e.failures \in Nat
    /\ e.recovered \subseteq e.failed /\ e.failed \subseteq Keys(s)
    /\ e.recoveries = Cardinality(e.recovered)
    /\ \A i \in 1..e.index : MadeGood(e, <<o[i], "grasp">>) /\ MadeGood(e, <<o[i], "install">>)
    /\ e.carrying => MadeGood(e, <<o[e.index + 1], "grasp">>)
    /\ e.failures + 2 * e.index + Owing(e) = Total(e.attempts, Keys(s))

\* Where an episode of n parts is.
PlaceOK(e, o, n) ==
    /\ e.carrying \in BOOLEAN /\ e.index \in 0..n /\ (e.carrying => e.index < n)
    /\ e.installed = SubSeq(o, 1, e.index)

\* A part is taken, then installed, then the next one is due.
Progress(e, m) ==
    m.index = IF e.carrying /\ ~m.carrying THEN e.index + 1 ELSE e.index

LEMMA KeysFinite == ASSUME NEW s, SiteOK(s) PROVE IsFiniteSet(Keys(s))
  <1>1. PICK n \in Nat : Site!Parts(s) = 1..n
    BY DEF SiteOK, Site!Parts
  <1>2. IsFiniteSet(1..n) /\ IsFiniteSet(Site!Phases)
    <2>1. IsFiniteSet({} \cup {"grasp"})
      BY FS_EmptySet, FS_AddElement
    <2>2. IsFiniteSet(({} \cup {"grasp"}) \cup {"install"})
      BY <2>1, FS_AddElement
    <2>3. Site!Phases = ({} \cup {"grasp"}) \cup {"install"}
      BY DEF Site!Phases
    <2> QED BY <2>2, <2>3, FS_Interval
  <1> QED BY <1>1, <1>2, FS_Product DEF Keys

\* One more attempt is one more in the sum.
LEMMA OneMoreAttempt ==
    ASSUME NEW s, SiteOK(s), NEW f \in [Keys(s) -> Nat], NEW k \in Keys(s)
    PROVE  Total([f EXCEPT ![k] = @ + 1], Keys(s)) = Total(f, Keys(s)) + 1
  <1> DEFINE g == [f EXCEPT ![k] = @ + 1]
             K == Keys(s)
             R == K \ {k}
  <1>1. IsFiniteSet(K) /\ IsFiniteSet(R)
    BY KeysFinite, FS_Subset
  <1>2. /\ \A x \in K : f[x] \in Int /\ g[x] \in Int
        /\ g[k] = f[k] + 1 /\ \A x \in R : g[x] \in Int /\ g[x] = f[x]
    OBVIOUS
  <1> HIDE DEF g, R
  <1>3. Total(g, R) = Total(f, R) /\ Total(f, R) \in Int
    <2>1. \A x \in R : f[x] \in Int
      BY <1>2 DEF R
    <2> QED BY <1>1, <1>2, <2>1, TotalSame, TotalWithout
  <1> HIDE DEF K
  <1>4. k \in K
    BY DEF K
  <1>5. Total(g, K) = g[k] + Total(g, R) /\ Total(f, K) = f[k] + Total(f, R)
    BY <1>1, <1>2, <1>4, TotalWithout DEF R
  <1>6. f[k] \in Int
    BY <1>2, <1>4
  <1> QED BY <1>2, <1>3, <1>5, <1>6 DEF g, K

LEMMA PartIs ==
    ASSUME NEW e, e.index \in Nat, run.active \in Nat, e.index < run.active
    PROVE  Site!Part(e) = order[e.index + 1]
  <1>1. PICK a \in Int, b \in Int : a = e.index + 1 /\ b = run.active
    OBVIOUS
  <1>2. Site!Min({a, b}) = a
    BY <1>1, PairMin
  <1> QED BY <1>1, <1>2 DEF Site!Part

\* What an attempt at part p writes down.
Noted(e, m, act, p) ==
    LET k == <<p, act>> IN
    /\ IsEnv(m) /\ m.at = e.at
    /\ m.attempts = [e.attempts EXCEPT ![k] = @ + 1]
    /\ m.queued = [e.queued EXCEPT ![k] = 0]
    /\ \/ /\ m.index = e.index /\ m.carrying = e.carrying /\ m.installed = e.installed
          /\ m.failures = e.failures + 1 /\ m.failed = e.failed \cup {k}
          /\ m.recovered = e.recovered /\ m.recoveries = e.recoveries
       \/ /\ m.carrying = (act = "grasp")
          /\ m.index = IF act = "grasp" THEN e.index ELSE e.index + 1
          /\ m.installed = IF act = "grasp" THEN e.installed ELSE Append(e.installed, p)
          /\ m.failures = e.failures /\ m.failed = e.failed
          /\ IF k \in e.failed \ e.recovered
             THEN m.recovered = e.recovered \cup {k} /\ m.recoveries = e.recoveries + 1
             ELSE m.recovered = e.recovered /\ m.recoveries = e.recoveries

LEMMA AttemptIs ==
    ASSUME NEW e, IsEnv(e), NEW act, NEW K, <<Site!Part(e), act>> \in K,
           e.queued \in [K -> 0..1]
    PROVE  Noted(e, Site!Attempt(e, act), act, Site!Part(e))
  <1> DEFINE k == <<Site!Part(e), act>>
             queued == e.queued[k] > 0
             tried == [e EXCEPT !.attempts[k] = @ + 1, !.queued[k] = IF queued THEN @ - 1 ELSE @]
             failed == [tried EXCEPT !.failures = @ + 1, !.failed = @ \cup {k}]
             ok == IF k \in e.failed \ e.recovered
                   THEN [tried EXCEPT !.recoveries = @ + 1, !.recovered = @ \cup {k}]
                   ELSE tried
             took == [ok EXCEPT !.carrying = TRUE]
             built == [ok EXCEPT !.carrying = FALSE, !.index = @ + 1,
                                 !.installed = Append(@, Site!Part(e))]
             m == Site!Attempt(e, act)
  <1>1. m = failed \/ m = (IF act = "grasp" THEN took ELSE built)
    BY DEF Site!Attempt
  <1>2. /\ tried.attempts = [e.attempts EXCEPT ![k] = @ + 1]
        /\ tried.queued = [e.queued EXCEPT ![k] = 0]
    <2>1. tried.attempts = [e.attempts EXCEPT ![k] = @ + 1]
      BY DEF IsEnv, Fields
    <2>2. tried.queued = [e.queued EXCEPT ![k] = IF queued THEN @ - 1 ELSE @]
      BY DEF IsEnv, Fields
    <2>3. e.queued[k] \in 0..1 /\ k \in DOMAIN e.queued
      OBVIOUS
    <2>4. (IF queued THEN e.queued[k] - 1 ELSE e.queued[k]) = 0
      BY <2>3
    <2> QED BY <2>1, <2>2, <2>4
  <1>3. /\ IsEnv(tried) /\ tried.at = e.at /\ tried.index = e.index /\ tried.carrying = e.carrying
        /\ tried.installed = e.installed /\ tried.failures = e.failures /\ tried.failed = e.failed
        /\ tried.recovered = e.recovered /\ tried.recoveries = e.recoveries
    BY DEF IsEnv, Fields
  <1> HIDE DEF tried
  <1>4. /\ IsEnv(failed) /\ failed.at = e.at
        /\ failed.attempts = tried.attempts /\ failed.queued = tried.queued
        /\ failed.index = e.index /\ failed.carrying = e.carrying /\ failed.installed = e.installed
        /\ failed.failures = e.failures + 1 /\ failed.failed = e.failed \cup {k}
        /\ failed.recovered = e.recovered /\ failed.recoveries = e.recoveries
    BY <1>3 DEF IsEnv, Fields
  <1>5. /\ IsEnv(ok) /\ ok.at = e.at
        /\ ok.attempts = tried.attempts /\ ok.queued = tried.queued
        /\ ok.index = e.index /\ ok.carrying = e.carrying /\ ok.installed = e.installed
        /\ ok.failures = e.failures /\ ok.failed = e.failed
        /\ IF k \in e.failed \ e.recovered
           THEN ok.recovered = e.recovered \cup {k} /\ ok.recoveries = e.recoveries + 1
           ELSE ok.recovered = e.recovered /\ ok.recoveries = e.recoveries
    BY <1>3 DEF IsEnv, Fields
  <1> HIDE DEF ok
  <1>6. /\ IsEnv(took) /\ took.at = e.at
        /\ took.attempts = tried.attempts /\ took.queued = tried.queued
        /\ took.index = e.index /\ took.carrying = TRUE /\ took.installed = e.installed
        /\ took.failures = e.failures /\ took.failed = e.failed
        /\ took.recovered = ok.recovered /\ took.recoveries = ok.recoveries
    BY <1>5 DEF IsEnv, Fields
  <1>7. /\ IsEnv(built) /\ built.at = e.at
        /\ built.attempts = tried.attempts /\ built.queued = tried.queued
        /\ built.index = e.index + 1 /\ built.carrying = FALSE
        /\ built.installed = Append(e.installed, Site!Part(e))
        /\ built.failures = e.failures /\ built.failed = e.failed
        /\ built.recovered = ok.recovered /\ built.recoveries = ok.recoveries
    BY <1>5 DEF IsEnv, Fields
  <1> HIDE DEF failed, took, built, m
  <1>8. CASE m = failed
    BY <1>2, <1>4, <1>8 DEF m, Noted
  <1>9. CASE m = took /\ act = "grasp"
    BY <1>2, <1>5, <1>6, <1>9 DEF m, Noted
  <1>10. CASE m = built /\ act # "grasp"
    BY <1>2, <1>5, <1>7, <1>10 DEF m, Noted
  <1> QED BY <1>1, <1>8, <1>9, <1>10

\* An attempt where it is due leaves the books in order.
LEMMA AttemptSound ==
    ASSUME NEW e, IsEnv(e), NEW act \in Site!Phases, SiteOK(site),
           OrderOK(order, site), run.active \in 0..Len(order),
           PlaceOK(e, order, run.active), BooksOK(e, site, order), e.index < run.active,
           act = IF e.carrying THEN "install" ELSE "grasp",
           e.queued \in [Keys(site) -> 0..1],
           \A k \in Keys(site) : k # <<order[e.index + 1], act>> => e.queued[k] = 0
    PROVE  LET m == Site!Attempt(e, act)
           IN  /\ IsEnv(m) /\ m.at = e.at
               /\ PlaceOK(m, order, run.active) /\ BooksOK(m, site, order)
               /\ m.queued = [k \in Keys(site) |-> 0]
               /\ Progress(e, m)
  <1> DEFINE p == order[e.index + 1]
             k == <<p, act>>
             K == Keys(site)
             m == Site!Attempt(e, act)
  <1>1. e.index \in Nat /\ run.active \in Nat /\ e.index + 1 \in 1..Len(order) /\ Len(order) \in Nat
    BY DEF PlaceOK, OrderOK, Sorted
  <1>2. p = Site!Part(e)
    BY <1>1, PartIs
  <1>3. p \in Site!Parts(site) /\ k \in K
    BY <1>1 DEF OrderOK, Sorted, Keys
  <1>4. /\ IsEnv(m) /\ m.at = e.at
        /\ m.attempts = [e.attempts EXCEPT ![k] = @ + 1]
        /\ m.queued = [e.queued EXCEPT ![k] = 0]
        /\ \/ /\ m.index = e.index /\ m.carrying = e.carrying /\ m.installed = e.installed
              /\ m.failures = e.failures + 1 /\ m.failed = e.failed \cup {k}
              /\ m.recovered = e.recovered /\ m.recoveries = e.recoveries
           \/ /\ m.carrying = (act = "grasp")
              /\ m.index = IF act = "grasp" THEN e.index ELSE e.index + 1
              /\ m.installed = IF act = "grasp" THEN e.installed ELSE Append(e.installed, p)
              /\ m.failures = e.failures /\ m.failed = e.failed
              /\ IF k \in e.failed \ e.recovered
                 THEN m.recovered = e.recovered \cup {k} /\ m.recoveries = e.recoveries + 1
                 ELSE m.recovered = e.recovered /\ m.recoveries = e.recoveries
    <2>1. <<Site!Part(e), act>> \in Keys(site)
      BY <1>2, <1>3
    <2>2. Noted(e, Site!Attempt(e, act), act, Site!Part(e))
      BY <2>1, AttemptIs
    <2> HIDE DEF p, m, K
    <2>3. Noted(e, m, act, p)
      BY <1>2, <2>2 DEF m
    <2> QED BY <2>3 DEF Noted
  <1> HIDE DEF m
  <1>5. m.queued = [j \in K |-> 0]
    BY <1>3, <1>4
  <1>6. m.attempts \in [K -> Nat] /\ Total(m.attempts, K) = Total(e.attempts, K) + 1
    <2>1. PICK f \in [K -> Nat] : f = e.attempts
      BY DEF BooksOK
    <2>2. [f EXCEPT ![k] = @ + 1] \in [K -> Nat]
      BY <1>3, <2>1
    <2>3. Total([f EXCEPT ![k] = @ + 1], K) = Total(f, K) + 1
      <3> HIDE DEF k
      <3> QED BY <1>3, <2>1, OneMoreAttempt
    <2> QED BY <1>4, <2>1, <2>2, <2>3
  <1>7. m.recoveries = Cardinality(m.recovered) /\ m.recovered \subseteq m.failed /\ m.failed \subseteq K
    <2>1. e.recovered \subseteq K /\ e.failed \subseteq K
      BY DEF BooksOK
    <2>2. k \notin e.recovered => Cardinality(e.recovered \cup {k}) = Cardinality(e.recovered) + 1
      <3>1. PICK R \in SUBSET K : R = e.recovered
        BY <2>1
      <3>2. PICK y \in K : y = k
        BY <1>3
      <3>3. y \notin R => Cardinality(R \cup {y}) = Cardinality(R) + 1
        <4>1. IsFiniteSet(R)
          BY KeysFinite, FS_Subset
        <4> QED BY <4>1, FS_AddElement
      <3> QED BY <3>1, <3>2, <3>3
    <2>3. e.recovered \subseteq e.failed /\ e.recoveries = Cardinality(e.recovered)
      BY DEF BooksOK
    <2> HIDE DEF k, K
    <2>4. \/ m.failed = e.failed \cup {k} /\ m.recovered = e.recovered /\ m.recoveries = e.recoveries
          \/ m.failed = e.failed /\ m.recovered = e.recovered /\ m.recoveries = e.recoveries
          \/ /\ m.failed = e.failed /\ m.recovered = e.recovered \cup {k}
             /\ m.recoveries = e.recoveries + 1 /\ k \in e.failed \ e.recovered
      BY <1>4
    <2> QED BY <1>3, <2>1, <2>2, <2>3, <2>4
  <1>8. \A i \in 1..e.index : order[i] # p
    BY <1>1 DEF OrderOK, Sorted
  <1>9. \A j : j # k => (MadeGood(e, j) => MadeGood(m, j))
    <2> HIDE DEF k
    <2> QED BY <1>4 DEF MadeGood
  <1>10. \A i \in 1..e.index : MadeGood(m, <<order[i], "grasp">>) /\ MadeGood(m, <<order[i], "install">>)
    BY <1>8, <1>9 DEF BooksOK
  <1> DEFINE Sound == /\ PlaceOK(m, order, run.active) /\ BooksOK(m, site, order)
                      /\ Progress(e, m)
  <1>14. /\ e.failures \in Nat /\ e.carrying \in BOOLEAN /\ e.index \in Nat
         /\ e.failures + 2 * e.index + Owing(e) = Total(e.attempts, K)
    BY <1>1 DEF BooksOK, PlaceOK
  <1>11. ASSUME m.index = e.index /\ m.carrying = e.carrying /\ m.failures = e.failures + 1
                /\ m.installed = e.installed
         PROVE  Sound
    <2>1. PlaceOK(m, order, run.active)
      BY <1>11 DEF PlaceOK
    <2>2. m.carrying => MadeGood(m, <<p, "grasp">>)
      BY <1>9, <1>11 DEF BooksOK
    <2>3. m.failures \in Nat /\ m.failures + 2 * m.index + Owing(m) = Total(m.attempts, K)
      <3>1. Owing(m) = Owing(e) /\ Owing(e) \in Nat
        BY <1>11 DEF Owing
      <3>2. PICK i \in Int, f \in Nat, w \in Nat : i = e.index /\ f = e.failures /\ w = Owing(e)
        BY <1>14, <3>1
      <3>5. Total(e.attempts, K) = f + 2 * i + w /\ f + 2 * i + w + 1 = (f + 1) + 2 * i + w
        <4>1. e.failures + 2 * e.index + Owing(e) = Total(e.attempts, K)
          BY <1>14
        <4> HIDE DEF k, K
        <4>2. f + 2 * i + w = Total(e.attempts, K)
          BY <3>2, <4>1
        <4>3. f + 2 * i + w + 1 = (f + 1) + 2 * i + w
          OBVIOUS
        <4> QED BY <4>2, <4>3
      <3>3. Total(m.attempts, K) = (f + 1) + 2 * i + w
        BY <1>6, <3>5
      <3>4. m.failures = f + 1 /\ m.index = i /\ Owing(m) = w
        BY <1>11, <3>1, <3>2
      <3> QED BY <3>3, <3>4
    <2>4. BooksOK(m, site, order)
      BY <1>6, <1>7, <1>10, <1>11, <2>2, <2>3 DEF BooksOK
    <2> QED BY <1>11, <2>1, <2>4 DEF Progress
  <1>12. ASSUME /\ ~e.carrying /\ m.carrying = TRUE /\ m.index = e.index /\ m.installed = e.installed
              /\ m.failures = e.failures /\ m.failed = e.failed
              /\ IF k \in e.failed \ e.recovered
                 THEN m.recovered = e.recovered \cup {k} ELSE m.recovered = e.recovered
         PROVE  Sound
    <2>1. PlaceOK(m, order, run.active)
      BY <1>12 DEF PlaceOK
    <2>2. MadeGood(m, <<p, "grasp">>)
      BY <1>12 DEF MadeGood
    <2>3. m.failures \in Nat /\ m.failures + 2 * m.index + Owing(m) = Total(m.attempts, K)
      BY <1>6, <1>12, <1>14 DEF Owing
    <2>4. BooksOK(m, site, order)
      BY <1>6, <1>7, <1>10, <1>12, <2>2, <2>3 DEF BooksOK
    <2> QED BY <1>12, <2>1, <2>4 DEF Progress
  <1>13. ASSUME /\ e.carrying /\ m.carrying = FALSE /\ m.index = e.index + 1
              /\ m.installed = Append(e.installed, p)
              /\ m.failures = e.failures /\ m.failed = e.failed
              /\ IF k \in e.failed \ e.recovered
                 THEN m.recovered = e.recovered \cup {k} ELSE m.recovered = e.recovered
         PROVE  Sound
    <2>1. Append(SubSeq(order, 1, e.index), order[e.index + 1]) = SubSeq(order, 1, e.index + 1)
      <3>1. order \in Seq(Site!Parts(site))
        BY DEF OrderOK, Sorted
      <3> QED BY <1>1, <3>1
    <2>2. PlaceOK(m, order, run.active)
      <3>1. m.installed = SubSeq(order, 1, m.index)
        BY <1>13, <2>1 DEF PlaceOK
      <3>2. m.index \in 0..run.active
        BY <1>1, <1>13
      <3> QED BY <1>13, <3>1, <3>2 DEF PlaceOK
    <2>3. MadeGood(m, <<p, "install">>)
      BY <1>13 DEF MadeGood
    <2>4. MadeGood(m, <<p, "grasp">>)
      BY <1>9, <1>13 DEF BooksOK
    <2>5. \A i \in 1..m.index : MadeGood(m, <<order[i], "grasp">>) /\ MadeGood(m, <<order[i], "install">>)
      <3>1. \A i \in 1..m.index : i \in 1..e.index \/ i = e.index + 1
        BY <1>1, <1>13
      <3> QED BY <1>10, <2>3, <2>4, <3>1
    <2>6. m.failures \in Nat /\ m.failures + 2 * m.index + Owing(m) = Total(m.attempts, K)
      <3>1. Owing(m) = 0 /\ Owing(e) = 1 /\ m.failures = e.failures /\ m.index = e.index + 1
        BY <1>13 DEF Owing
      <3>2. PICK i \in Int, f \in Nat : i = e.index /\ f = e.failures
        BY <1>14
      <3>3. Total(e.attempts, K) = f + 2 * i + 1 /\ f + 2 * (i + 1) + 0 = f + 2 * i + 1 + 1
        BY <1>14, <3>1, <3>2
      <3> HIDE DEF k, K
      <3>4. m.failures = f /\ m.index = i + 1 /\ Owing(m) = 0
        BY <3>1, <3>2
      <3>5. Total(m.attempts, K) = f + 2 * (i + 1) + 0
        BY <1>6, <3>3
      <3> QED BY <3>4, <3>5
    <2>7. BooksOK(m, site, order)
      BY <1>6, <1>7, <1>13, <2>5, <2>6 DEF BooksOK
    <2> QED BY <1>1, <1>13, <2>2, <2>7 DEF Progress
  <1>15. Sound
    <2> HIDE DEF Sound, k
    <2>1. (e.carrying <=> act # "grasp") /\ e.carrying \in BOOLEAN
      BY <1>14
    <2>2. CASE m.index = e.index /\ m.carrying = e.carrying /\ m.failures = e.failures + 1
               /\ m.installed = e.installed
      BY <1>11, <2>2
    <2>3. CASE ~e.carrying
      BY <1>4, <1>11, <1>12, <2>1, <2>3
    <2>4. CASE e.carrying
      BY <1>4, <1>11, <1>13, <2>1, <2>4
    <2> QED BY <2>3, <2>4
  <1> QED BY <1>4, <1>5, <1>15 DEF m

-----------------------------------------------------------------------------
\* An episode of n parts, in the order o, of a site s.
Standing(e, s) ==
    /\ e.at \in (Site!Grid \ s.obstacles) \X (Site!Grid \ s.obstacles) /\ e.at[1] # e.at[2]
Held(e, s, o) == e.carrying => Site!Offset(e.at) = Site!Offset(s.pickup[o[e.index + 1]])
EpisodeOK(e, s, o, n) ==
    /\ IsEnv(e) /\ PlaceOK(e, o, n) /\ BooksOK(e, s, o) /\ Standing(e, s) /\ Held(e, s, o)
NoneQueued(e, s) == e.queued = [k \in Keys(s) |-> 0]

\* Who moves, and who is charged for it, does not matter to the books.
LEMMA MovesSound ==
    ASSUME NEW e, NEW m, EpisodeOK(e, site, order, run.active), IsEnv(m), SameBooks(e, m),
           Placed(m.at), e.carrying => Site!Offset(m.at) = Site!Offset(e.at)
    PROVE  EpisodeOK(m, site, order, run.active)
  <1>1. PlaceOK(m, order, run.active)
    BY DEF EpisodeOK, PlaceOK, SameBooks
  <1>2. BooksOK(m, site, order)
    <2>1. \A k : MadeGood(e, k) <=> MadeGood(m, k)
      BY DEF MadeGood, SameBooks
    <2>2. Owing(m) = Owing(e)
      BY DEF Owing, SameBooks
    <2>3. BooksOK(e, site, order)
      BY DEF EpisodeOK
    <2> QED BY <2>1, <2>2, <2>3 DEF BooksOK, SameBooks
  <1>3. Standing(m, site)
    BY DEF Placed, Standing, Site!Open
  <1>4. Held(m, site, order)
    BY DEF Held, SameBooks, EpisodeOK
  <1> QED BY <1>1, <1>2, <1>3, <1>4 DEF EpisodeOK

\* What the physics queues, an attempt of the same step takes out again.
Due(e, act) ==
    IF act = "grasp" THEN ~e.carrying /\ e.at = site.pickup[order[e.index + 1]]
    ELSE e.carrying /\ e.at = site.assembly[order[e.index + 1]]

LEMMA ChecksSound ==
    ASSUME NEW e, NEW a, NEW firm, SiteOK(site), OrderOK(order, site), run.active \in 0..Len(order),
           EpisodeOK(e, site, order, run.active), NoneQueued(e, site), e.index < run.active
    PROVE  LET c == Site!Checked(e, a, firm)
               k(act) == <<order[e.index + 1], act>>
           IN  /\ IsEnv(c) /\ c.at = e.at /\ c.index = e.index /\ c.carrying = e.carrying
               /\ EpisodeOK(c, site, order, run.active)
               /\ c.queued \in [Keys(site) -> 0..1]
               /\ \/ NoneQueued(c, site)
                  \/ /\ Site!Both(a, "grab") /\ Due(e, "grasp")
                     /\ \A j \in Keys(site) : j # k("grasp") => c.queued[j] = 0
                  \/ /\ Site!Both(a, "install") /\ Due(e, "install")
                     /\ \A j \in Keys(site) : j # k("install") => c.queued[j] = 0
  <1> DEFINE c == Site!Checked(e, a, firm)
             act == IF Site!Both(a, "grab") THEN "grasp" ELSE "install"
             k == <<order[e.index + 1], act>>
             q == [e EXCEPT !.queued[k] = @ + 1]
  <1>1. e.index \in Nat /\ run.active \in Nat /\ e.index + 1 \in 1..Len(order)
    BY DEF EpisodeOK, PlaceOK, OrderOK, Sorted
  <1>2. Site!Part(e) = order[e.index + 1] /\ k \in Keys(site)
    BY <1>1, PartIs DEF OrderOK, Sorted, Keys, Site!Phases
  <1>3. IsEnv(e) /\ e.queued = [j \in Keys(site) |-> 0]
    BY DEF EpisodeOK, NoneQueued
  <1>4. c = e \/ (c = q /\ \/ Site!Both(a, "grab") /\ Due(e, "grasp")
                           \/ Site!Both(a, "install") /\ Due(e, "install"))
    BY <1>2 DEF Site!Checked, Due, Site!At, Site!Pickup, Site!Assembly
  <1>5. /\ IsEnv(q) /\ q.at = e.at /\ q.queued = [e.queued EXCEPT ![k] = @ + 1]
        /\ q.index = e.index /\ q.carrying = e.carrying
    BY <1>3 DEF IsEnv, Fields
  <1>6. /\ q.queued \in [Keys(site) -> 0..1]
        /\ \A j \in Keys(site) : j # k => q.queued[j] = 0
    BY <1>2, <1>3, <1>5
  <1>7. EpisodeOK(q, site, order, run.active)
    <2>1. /\ q.index = e.index /\ q.carrying = e.carrying /\ q.installed = e.installed
          /\ q.attempts = e.attempts /\ q.failed = e.failed /\ q.recovered = e.recovered
          /\ q.failures = e.failures /\ q.recoveries = e.recoveries
      BY <1>3 DEF IsEnv, Fields
    <2> HIDE DEF q
    <2>2. \A j : MadeGood(e, j) <=> MadeGood(q, j)
      BY <2>1 DEF MadeGood
    <2>3. Owing(q) = Owing(e)
      BY <2>1 DEF Owing
    <2>4. BooksOK(q, site, order)
      <3>1. BooksOK(e, site, order)
        BY DEF EpisodeOK
      <3> QED BY <2>1, <2>2, <2>3, <3>1 DEF BooksOK
    <2> QED BY <1>5, <2>1, <2>4 DEF EpisodeOK, PlaceOK, Standing, Held
  <1>9. e.queued \in [Keys(site) -> 0..1]
    BY <1>3
  <1> HIDE DEF q, c
  <1>10. CASE c = e
    BY <1>3, <1>9, <1>10 DEF c, NoneQueued
  <1>11. CASE c = q /\ Site!Both(a, "grab") /\ Due(e, "grasp")
    BY <1>5, <1>6, <1>7, <1>11 DEF c
  <1>12. CASE c = q /\ Site!Both(a, "install") /\ Due(e, "install")
    <2>1. ~Site!Both(a, "grab")
      BY <1>12 DEF Site!Both
    <2> QED BY <1>5, <1>6, <1>7, <1>12, <2>1 DEF c
  <1> QED BY <1>4, <1>10, <1>11, <1>12

\* What a step leaves, when it counts.
Counted(x, y) == x.at = y.at /\ SameBooks(x, y) /\ IsEnv(y)

LEMMA CountsSound ==
    ASSUME NEW e, NEW m, EpisodeOK(e, site, order, run.active), Counted(e, m)
    PROVE  EpisodeOK(m, site, order, run.active)
  BY MovesSound DEF Counted, EpisodeOK, Standing, Placed, Site!Open

LEMMA StepSound ==
    ASSUME NEW e, NEW a, NEW firm, Size \in Nat, SiteOK(site), OrderOK(order, site),
           run.active \in 0..Len(order),
           EpisodeOK(e, site, order, run.active), NoneQueued(e, site), e.index < run.active
    PROVE  LET m == Site!Step(Site!Checked(e, a, firm), a)
           IN  /\ EpisodeOK(m, site, order, run.active) /\ NoneQueued(m, site)
               /\ Progress(e, m)
  <1> DEFINE c == Site!Checked(e, a, firm)
             moved == IF c.carrying THEN Site!StepCarrying(c, a) ELSE Site!StepIndependent(c, a)
             grasps == ~c.carrying /\ Site!Both(a, "grab")
             grasped == IF grasps THEN Site!Manipulate(moved, Site!Pickup(c), "grasp") ELSE moved
             installs == grasped.carrying /\ Site!Both(a, "install")
             ended == IF installs THEN Site!Manipulate(grasped, Site!Assembly(c), "install") ELSE grasped
             m == Site!Step(c, a)
             Good(x) == EpisodeOK(x, site, order, run.active)
             Fine(x) == Good(x) /\ NoneQueued(x, site) /\ Progress(e, x)
  <1>1. /\ IsEnv(c) /\ c.at = e.at /\ c.index = e.index /\ c.carrying = e.carrying
        /\ Good(c) /\ c.queued \in [Keys(site) -> 0..1]
        /\ \/ NoneQueued(c, site)
           \/ /\ Site!Both(a, "grab") /\ Due(e, "grasp")
              /\ \A j \in Keys(site) : j # <<order[e.index + 1], "grasp">> => c.queued[j] = 0
           \/ /\ Site!Both(a, "install") /\ Due(e, "install")
              /\ \A j \in Keys(site) : j # <<order[e.index + 1], "install">> => c.queued[j] = 0
    BY ChecksSound
  <1>2. /\ e.index \in Nat /\ run.active \in Nat /\ e.carrying \in BOOLEAN
        /\ Site!Part(c) = order[e.index + 1]
    <2>1. e.index \in Nat /\ run.active \in Nat /\ e.carrying \in BOOLEAN
      BY DEF EpisodeOK, PlaceOK, OrderOK, Sorted
    <2>2. c.index \in Nat /\ c.index < run.active
      BY <1>1, <2>1
    <2>3. Site!Part(c) = order[c.index + 1]
      <3> HIDE DEF c
      <3> QED BY <2>1, <2>2, PartIs
    <2> QED BY <1>1, <2>1, <2>3
  <1>3. \E w, t : m = [ended EXCEPT !.wasted = w, !.steps = t]
    BY DEF Site!Step
  <1> HIDE DEF c
  <1>4. /\ IsEnv(moved) /\ SameBooks(c, moved) /\ Placed(moved.at)
        /\ c.carrying => Site!Offset(moved.at) = Site!Offset(c.at)
        /\ c.carrying /\ Site!Both(a, "install") => moved = c
        /\ ~c.carrying /\ Site!Both(a, "grab") => moved.at = c.at
    <2>1. Placed(c.at)
      BY <1>1 DEF EpisodeOK, Standing, Placed, Site!Open
    <2> QED BY <1>1, <2>1, FreeSteps, RigidSteps
  <1> HIDE DEF moved, m
  <1>5. Good(moved) /\ moved.index = e.index /\ moved.carrying = e.carrying /\ moved.queued = c.queued
    <2>1. Good(moved)
      BY <1>1, <1>4, MovesSound
    <2> QED BY <1>1, <1>4, <2>1 DEF SameBooks
  <1>6. ~Site!Both(a, "grab") \/ ~Site!Both(a, "install")
    BY DEF Site!Both
  <1>7. ASSUME NEW x, Fine(x), \E w, t : m = [x EXCEPT !.wasted = w, !.steps = t]
        PROVE  Fine(m)
    <2>1. IsEnv(x)
      BY <1>7 DEF EpisodeOK
    <2>2. Counted(x, m) /\ m.queued = x.queued /\ m.index = x.index /\ m.carrying = x.carrying
      BY <1>7, <2>1 DEF Counted, SameBooks, IsEnv, Fields
    <2>3. Good(m)
      BY <1>7, <2>2, CountsSound
    <2> QED BY <1>7, <2>2, <2>3 DEF NoneQueued, Progress
  \* The attempts that are due.
  <1>8. ASSUME NEW act \in Site!Phases, NEW x, Good(x), x.index = e.index, x.carrying = e.carrying,
               x.queued = c.queued, act = IF e.carrying THEN "install" ELSE "grasp",
               ~e.carrying => x.at = site.pickup[order[e.index + 1]],
               \A j \in Keys(site) : j # <<order[e.index + 1], act>> => c.queued[j] = 0
        PROVE  Fine(Site!Attempt(x, act))
    <2> DEFINE y == Site!Attempt(x, act)
    <2>1. /\ IsEnv(x) /\ PlaceOK(x, order, run.active) /\ BooksOK(x, site, order) /\ Standing(x, site)
      BY <1>8 DEF EpisodeOK
    <2>2. x.index < run.active /\ x.queued \in [Keys(site) -> 0..1]
      BY <1>1, <1>2, <1>8
    <2>3. /\ IsEnv(y) /\ y.at = x.at /\ PlaceOK(y, order, run.active) /\ BooksOK(y, site, order)
          /\ y.queued = [j \in Keys(site) |-> 0] /\ Progress(x, y)
      BY <1>1, <1>8, <2>1, <2>2, AttemptSound
    <2> HIDE DEF y
    <2>4. Held(y, site, order)
      <3>1. CASE x.carrying
        BY <1>8, <2>3, <3>1 DEF EpisodeOK, Held, Progress
      <3>2. CASE ~x.carrying
        BY <1>8, <2>3, <3>2 DEF Held, Progress
      <3> QED BY <3>1, <3>2
    <2>5. Good(y)
      BY <2>1, <2>3, <2>4 DEF EpisodeOK, Standing
    <2> QED BY <1>8, <2>3, <2>5 DEF NoneQueued, Progress, y
  <1>9. ASSUME Site!Both(a, "grab"), Due(e, "grasp") PROVE Fine(m)
    <2>1. ~c.carrying /\ ~e.carrying /\ moved.at = Site!Pickup(c) /\ moved.at = site.pickup[order[e.index + 1]]
      BY <1>1, <1>2, <1>4, <1>9 DEF Due, Site!Pickup
    <2>2. ended = Site!Attempt(moved, "grasp")
      BY <1>6, <1>9, <2>1 DEF Site!Manipulate, Site!At
    <2>3. \A j \in Keys(site) : j # <<order[e.index + 1], "grasp">> => c.queued[j] = 0
      BY <1>1, <1>6, <1>9 DEF NoneQueued
    <2>4. Fine(Site!Attempt(moved, "grasp"))
      <3>1. "grasp" \in Site!Phases
        BY DEF Site!Phases
      <3> HIDE DEF Fine, Good
      <3> QED BY <1>5, <1>8, <2>1, <2>3, <3>1
    <2> HIDE DEF ended, Fine
    <2> QED BY <1>3, <1>7, <2>2, <2>4
  <1>10. ASSUME Site!Both(a, "install"), Due(e, "install") PROVE Fine(m)
    <2>1. c.carrying /\ e.carrying /\ moved = c /\ moved.carrying /\ moved.at = Site!Assembly(c)
      BY <1>1, <1>2, <1>4, <1>5, <1>10 DEF Due, Site!Assembly
    <2>2. ended = Site!Attempt(moved, "install")
      BY <1>10, <2>1 DEF Site!Manipulate, Site!At
    <2>3. \A j \in Keys(site) : j # <<order[e.index + 1], "install">> => c.queued[j] = 0
      BY <1>1, <1>6, <1>10 DEF NoneQueued
    <2>4. Fine(Site!Attempt(moved, "install"))
      <3>1. "install" \in Site!Phases
        BY DEF Site!Phases
      <3> HIDE DEF Fine, Good
      <3> QED BY <1>5, <1>8, <2>1, <2>3, <3>1
    <2> HIDE DEF ended, Fine
    <2> QED BY <1>3, <1>7, <2>2, <2>4
  \* Otherwise nothing is attempted.
  <1>11. ASSUME ~(Site!Both(a, "grab") /\ Due(e, "grasp")),
                ~(Site!Both(a, "install") /\ Due(e, "install"))
         PROVE  Fine(m)
    <2> DEFINE charged == [moved EXCEPT !.invalid = @ + 1]
    <2>1. NoneQueued(c, site)
      BY <1>1, <1>11
    <2>2. Fine(moved)
      BY <1>1, <1>5, <2>1 DEF NoneQueued, Progress
    <2>3. Fine(charged)
      <3>1. Counted(moved, charged) /\ charged.queued = moved.queued
        BY <1>4 DEF Counted, SameBooks, IsEnv, Fields
      <3>2. Good(charged)
        BY <1>5, <3>1, CountsSound
      <3> QED BY <2>2, <3>1, <3>2 DEF NoneQueued, Progress, Counted, SameBooks
    <2>4. ended \in {moved, charged}
      <3>1. grasps => ~Site!At(moved, Site!Pickup(c))
        BY <1>1, <1>2, <1>4, <1>11 DEF Due, Site!Pickup, Site!At
      <3>2. grasped = IF grasps THEN charged ELSE moved
        BY <3>1 DEF Site!Manipulate
      <3>3. charged.carrying = moved.carrying
        BY <1>4 DEF IsEnv, Fields
      <3>4. CASE grasps
        BY <1>6, <3>2, <3>4
      <3>5. CASE ~grasps /\ installs
        <4>1. moved = c /\ e.carrying /\ grasped = moved
          BY <1>1, <1>4, <1>5, <3>2, <3>5
        <4>2. ~Site!At(moved, Site!Assembly(c))
          BY <1>1, <1>2, <1>11, <3>5, <4>1 DEF Due, Site!Assembly, Site!At
        <4> QED BY <3>5, <4>1, <4>2 DEF Site!Manipulate
      <3>6. CASE ~grasps /\ ~installs
        BY <3>2, <3>6
      <3> QED BY <3>4, <3>5, <3>6
    <2> HIDE DEF ended, Fine, charged
    <2> QED BY <1>3, <1>7, <2>2, <2>3, <2>4
  <1>12. Fine(m)
    <2> HIDE DEF Fine
    <2> QED BY <1>9, <1>10, <1>11
  <1> QED BY <1>12 DEF m, c

-----------------------------------------------------------------------------
\* The loops around the environment.
LoopFields == {"phase", "active", "option", "used", "decisions", "reset", "reposition", "milestones"}
LoopPhases == {"load", "refused", "decide", "move", "over", "raised"}
Holding(e, o) == IF e.carrying THEN o[e.index + 1] ELSE Site!NoPart

StartsFree(s) ==
    /\ s.starts \in (Site!Grid \ s.obstacles) \X (Site!Grid \ s.obstacles)
    /\ s.starts[1] # s.starts[2]

SiteInv ==
    /\ SiteOK(site) /\ DOMAIN run = LoopFields /\ run.phase \in LoopPhases
    /\ run.phase = "load" => env = Site!Fresh(site) /\ attached = Site!NoPart
    /\ Site!Loaded =>
        /\ StartsFree(site) /\ OrderOK(order, site) /\ run.active \in 1..Len(order)
        /\ EpisodeOK(env, site, order, run.active) /\ NoneQueued(env, site)
        /\ run.phase \in {"decide", "move"} => env.index < run.active
        /\ site.physics = "mujoco" => attached = Holding(env, order)

LEMMA FreshSound ==
    ASSUME NEW s, SiteOK(s), StartsFree(s), NEW o, OrderOK(o, s), NEW n \in 1..Len(o)
    PROVE  /\ EpisodeOK(Site!Fresh(s), s, o, n) /\ NoneQueued(Site!Fresh(s), s)
           /\ Site!Fresh(s).index = 0 /\ Site!Fresh(s).carrying = FALSE
  <1> DEFINE e == Site!Fresh(s)
             K == Keys(s)
             none == [k \in K |-> 0]
  <1>1. /\ IsEnv(e) /\ e.at = s.starts /\ e.index = 0 /\ e.carrying = FALSE /\ e.installed = <<>>
        /\ e.attempts = none /\ e.queued = none /\ e.failed = {} /\ e.recovered = {}
        /\ e.failures = 0 /\ e.recoveries = 0
    BY DEF Site!Fresh, Keys, IsEnv, Fields
  <1>2. Total(none, K) = 0
    <2>1. IsFiniteSet(K)
      BY KeysFinite
    <2>2. PICK f : f = none
      OBVIOUS
    <2>3. \A x \in K : f[x] \in Int /\ f[x] <= 0 /\ f[x] >= 0
      BY <2>2
    <2>4. PICK z \in Int : z = 0
      OBVIOUS
    <2> HIDE DEF K, none
    <2>5. Total(f, K) <= z * Cardinality(K) /\ Total(f, K) >= z * Cardinality(K)
      BY <2>1, <2>3, <2>4, TotalBound
    <2>6. Cardinality(K) \in Nat /\ Total(f, K) \in Int
      BY <2>1, <2>3, FS_CardinalityType, TotalWithout
    <2>7. z * Cardinality(K) = 0
      BY <2>4, <2>6
    <2> QED BY <2>2, <2>5, <2>6, <2>7
  <1> HIDE DEF e
  <1>3. BooksOK(e, s, o)
    <2>1. none \in [K -> Nat]
      OBVIOUS
    <2>2. Cardinality({}) = 0
      BY FS_EmptySet
    <2>3. Owing(e) = 0
      BY <1>1 DEF Owing
    <2>4. \A i \in 1..e.index : FALSE
      BY <1>1
    <2>5. e.failures + 2 * e.index + Owing(e) = Total(e.attempts, K)
      BY <1>1, <1>2, <2>3
    <2> HIDE DEF none
    <2> QED BY <1>1, <2>1, <2>2, <2>4, <2>5 DEF BooksOK
  <1>4. PlaceOK(e, o, n)
    <2>1. o \in Seq(Site!Parts(s)) /\ n \in Nat
      BY DEF OrderOK, Sorted
    <2>2. SubSeq(o, 1, 0) = <<>>
      BY <2>1
    <2>3. e.installed = SubSeq(o, 1, e.index)
      BY <1>1, <2>2
    <2>4. e.index \in 0..n /\ e.carrying = FALSE
      BY <1>1, <2>1
    <2> QED BY <2>3, <2>4 DEF PlaceOK
  <1>5. Standing(e, s) /\ Held(e, s, o)
    BY <1>1 DEF Standing, StartsFree, Held
  <1> QED BY <1>1, <1>3, <1>4, <1>5 DEF EpisodeOK, NoneQueued, e

\* One step of the environment, whoever chooses the action.
Played ==
    \E a, firm : /\ env' = Site!Step(Site!Checked(env, a, firm), a)
                 /\ attached' = Site!Attachment(env, env')

LEMMA PlaySound ==
    ASSUME SiteInv, Size \in Nat, Site!Loaded, env.index < run.active, Played
    PROVE  /\ EpisodeOK(env', site, order, run.active) /\ NoneQueued(env', site)
           /\ Progress(env, env')
           /\ site.physics = "mujoco" => attached' = Holding(env', order)
  <1>1. PICK a, firm : /\ env' = Site!Step(Site!Checked(env, a, firm), a)
                       /\ attached' = Site!Attachment(env, env')
    BY DEF Played
  <1>2. PICK e : e = env
    OBVIOUS
  <1>3. PICK m : m = env'
    OBVIOUS
  <1>4. /\ SiteOK(site) /\ OrderOK(order, site) /\ run.active \in 0..Len(order)
        /\ EpisodeOK(e, site, order, run.active) /\ NoneQueued(e, site) /\ e.index < run.active
        /\ site.physics = "mujoco" => attached = Holding(e, order)
    BY <1>2 DEF SiteInv, OrderOK, Sorted
  <1>5. m = Site!Step(Site!Checked(e, a, firm), a) /\ attached' = Site!Attachment(e, m)
    BY <1>1, <1>2, <1>3
  <1>6. EpisodeOK(m, site, order, run.active) /\ NoneQueued(m, site) /\ Progress(e, m)
    BY <1>4, <1>5, StepSound
  <1>7. site.physics = "mujoco" => attached' = Holding(m, order)
    <2>1. e.index \in Nat /\ run.active \in Nat /\ e.carrying \in BOOLEAN /\ m.carrying \in BOOLEAN
      BY <1>4, <1>6 DEF EpisodeOK, PlaceOK, OrderOK, Sorted
    <2>2. Site!Part(e) = order[e.index + 1]
      BY <1>4, <2>1, PartIs
    <2> QED BY <1>4, <1>5, <1>6, <2>1, <2>2 DEF Site!Attachment, Holding, Progress
  <1> QED BY <1>2, <1>3, <1>6, <1>7

\* A loop that goes on, with a step of the environment or without one.
LEMMA GoesOn ==
    ASSUME SiteInv, Size \in Nat, Site!Loaded, env.index < run.active,
           UNCHANGED <<site, order>>, Played \/ UNCHANGED <<env, attached>>,
           DOMAIN run' = LoopFields, run'.active = run.active,
           run'.phase \in {"decide", "move", "over", "raised"},
           run'.phase \in {"decide", "move"} => env'.index < run.active
    PROVE  SiteInv'
  <1>1. PICK m : m = env'
    OBVIOUS
  <1>2. /\ EpisodeOK(m, site, order, run.active) /\ NoneQueued(m, site)
        /\ site.physics = "mujoco" => attached' = Holding(m, order)
    BY <1>1, PlaySound DEF SiteInv
  <1>3. PICK s, o, n : s = site /\ o = order /\ n = run.active
    OBVIOUS
  <1>4. /\ s = site' /\ o = order' /\ n = run'.active
    BY <1>3
  <1>5. EpisodeOK(m, s, o, n) /\ NoneQueued(m, s) /\ (s.physics = "mujoco" => attached' = Holding(m, o))
    BY <1>2, <1>3
  <1>6. SiteOK(s) /\ StartsFree(s) /\ OrderOK(o, s) /\ n \in 1..Len(o)
    BY <1>3 DEF SiteInv
  <1> QED BY <1>1, <1>3, <1>4, <1>5, <1>6 DEF SiteInv, LoopPhases, Site!Loaded

LEMMA ValidStarts ==
    ASSUME NEW s, SiteOK(s), (s.kind = "blueprint" /\ Site!GeometryValid(s)) \/
                             (s.kind = "scenario" /\ Site!ObstaclesValid(s))
    PROVE  StartsFree(s)
  <1>1. s.starts \in Spots /\ s.starts[1] \in Range(Site!Reserved(s)) /\ s.starts[2] \in Range(Site!Reserved(s))
    BY RobotsReserved DEF SiteOK
  <1>2. PICK x, y : s.starts = <<x, y>>
    BY <1>1 DEF Spots
  <1>3. x \notin s.obstacles /\ y \notin s.obstacles
    BY <1>1, <1>2, SiteOperators DEF Site!GeometryValid, Site!ObstaclesValid
  <1>4. CASE s.kind = "scenario"
    BY <1>2, <1>3, <1>4 DEF SiteOK, StartsFree
  <1>5. CASE s.kind = "blueprint" /\ Site!GeometryValid(s)
    <2>1. x \in Site!Grid /\ y \in Site!Grid
      BY <1>1, <1>2, <1>5, SiteOperators DEF Site!GeometryValid
    <2>2. s.starts[1] # s.starts[2]
      BY <1>5, RobotsReserved, SiteOperators DEF Site!GeometryValid
    <2> QED BY <1>2, <1>3, <2>1, <2>2 DEF StartsFree
  <1> QED BY <1>4, <1>5

\* The first state of an episode.
LEMMA Begins ==
    ASSUME SiteOK(site), StartsFree(site), OrderOK(order', site), NEW n \in 1..Len(order'),
           site' = site, env' = Site!Fresh(site), attached' = Site!NoPart,
           run' = Site!Loop("decide", n)
    PROVE  SiteInv'
  <1>1. PICK s, o, e : s = site /\ o = order' /\ e = Site!Fresh(s)
    OBVIOUS
  <1>2. EpisodeOK(e, s, o, n) /\ NoneQueued(e, s) /\ e.index = 0 /\ e.carrying = FALSE
    BY <1>1, FreshSound
  <1>3. run'.active = n /\ run'.phase = "decide" /\ DOMAIN run' = LoopFields
    BY DEF Site!Loop, LoopFields
  <1>4. site' = s /\ order' = o /\ env' = e
    BY <1>1
  <1>5. SiteOK(s) /\ StartsFree(s) /\ OrderOK(o, s) /\ n \in 1..Len(o)
    BY <1>1
  <1>6. n > 0
    BY <1>5 DEF OrderOK, Sorted
  <1> QED BY <1>2, <1>3, <1>4, <1>5, <1>6 DEF SiteInv, LoopPhases, Site!Loaded, Holding

LEMMA PartsCounted == ASSUME NEW s, SiteOK(s)
                      PROVE  Cardinality(Site!Parts(s)) \in Nat /\ Cardinality(Site!Parts(s)) > 0
  <1>1. PICK n \in Nat : n > 0 /\ Site!Parts(s) = 1..n
    BY DEF SiteOK, Site!Parts
  <1>2. Cardinality(1..n) = n
    BY FS_Interval
  <1> QED BY <1>1, <1>2

LEMMA SiteKeeps == SiteInv /\ SiteNumbers /\ [Site!Next]_(Site!vars) => SiteInv'
  <1> SUFFICES ASSUME SiteInv, SiteNumbers, [Site!Next]_(Site!vars) PROVE SiteInv'
    OBVIOUS
  <1>0. Size \in Nat
    BY DEF SiteNumbers
  <1>1. ASSUME run' = Site!Loop("refused", 0), UNCHANGED site PROVE SiteInv'
    BY <1>1 DEF SiteInv, Site!Loop, LoopFields, LoopPhases, Site!Loaded
  <1>2. CASE Site!Compile
    <2>1. /\ run.phase = "load" /\ site.kind = "blueprint" /\ UNCHANGED <<site, env, attached>>
          /\ \/ /\ Site!GeometryValid(site)
                /\ Len(Site!InstallationOrder(site)) = Site!Cardinality(Site!Parts(site))
                /\ order' = Site!InstallationOrder(site) /\ run' = Site!Loop("decide", Len(order'))
             \/ run' = Site!Loop("refused", 0)
      BY <1>2 DEF Site!Compile
    <2>2. CASE run' = Site!Loop("refused", 0)
      BY <1>1, <2>1, <2>2
    <2>3. CASE ~(run' = Site!Loop("refused", 0))
      <3>1. SiteOK(site) /\ env = Site!Fresh(site) /\ attached = Site!NoPart
        BY <2>1 DEF SiteInv
      <3>2. PICK s : s = site
        OBVIOUS
      <3>3. OrderOK(order', site)
        <4>1. Sorted(Site!InstallationOrder(s), s)
          BY <3>1, <3>2, OrderSorted
        <4> QED BY <2>1, <2>3, <3>2, <4>1, SiteOperators DEF OrderOK
      <3>4. StartsFree(site)
        BY <2>1, <2>3, <3>1, <3>2, ValidStarts
      <3>5. Len(order') \in 1..Len(order')
        <4>1. Len(order') = Cardinality(Site!Parts(s)) /\ Cardinality(Site!Parts(s)) \in Nat \ {0}
          BY <3>1, <3>2, <3>3, PartsCounted DEF OrderOK
        <4> QED BY <4>1
      <3> QED BY <2>1, <2>3, <3>1, <3>3, <3>4, <3>5, Begins
    <2> QED BY <2>2, <2>3
  <1>3. CASE Site!Load
    <2>1. /\ run.phase = "load" /\ site.kind = "scenario" /\ UNCHANGED <<site, env, attached>>
          /\ \/ /\ Site!ObstaclesValid(site)
                /\ order' = Site!OrderAsDeclared(site) /\ run' = Site!Loop("decide", Len(order'))
             \/ run' = Site!Loop("refused", 0)
      BY <1>3 DEF Site!Load
    <2>2. CASE run' = Site!Loop("refused", 0)
      BY <1>1, <2>1, <2>2
    <2>3. CASE ~(run' = Site!Loop("refused", 0))
      <3>1. SiteOK(site) /\ env = Site!Fresh(site) /\ attached = Site!NoPart
        BY <2>1 DEF SiteInv
      <3>2. PICK s : s = site
        OBVIOUS
      <3>3. OrderOK(order', site)
        <4>1. OrderOK(Site!OrderAsDeclared(s), s)
          BY <2>1, <3>1, <3>2, DeclaredSorted
        <4> QED BY <2>1, <2>3, <3>2, <4>1
      <3>4. StartsFree(site)
        BY <2>1, <2>3, <3>1, <3>2, ValidStarts
      <3>5. Len(order') \in 1..Len(order')
        <4>1. Len(order') = Cardinality(Site!Parts(s)) /\ Cardinality(Site!Parts(s)) \in Nat \ {0}
          BY <3>1, <3>2, <3>3, PartsCounted DEF OrderOK
        <4> QED BY <4>1
      <3> QED BY <2>1, <2>3, <3>1, <3>3, <3>4, <3>5, Begins
    <2> QED BY <2>2, <2>3
  \* In a loop.
  <1>4. ASSUME run.phase \in {"decide", "move"}
        PROVE  /\ Site!Loaded /\ env.index < run.active /\ DOMAIN run = LoopFields
               /\ run.active \in Nat /\ env.index \in Nat
    BY <1>4 DEF SiteInv, Site!Loaded, EpisodeOK, PlaceOK, OrderOK, Sorted
  <1>5. ASSUME Played, run.phase \in {"decide", "move"}
        PROVE  /\ Site!Ended(env') \in {"over", "decide"}
               /\ Site!Ended(env') = "decide" \/ ~Site!Done(env') => env'.index < run.active
    <2>1. EpisodeOK(env', site, order, run.active)
      BY <1>0, <1>4, <1>5, PlaySound
    <2>2. env'.index \in 0..run.active
      BY <2>1 DEF EpisodeOK, PlaceOK
    <2> QED BY <1>4, <1>5, <2>2 DEF Site!Ended, Site!Done, Site!Complete
  <1>6. CASE Site!Act
    <2>1. Played /\ run.phase = "decide" /\ UNCHANGED <<site, order>>
          /\ run' = [run EXCEPT !.phase = Site!Ended(env')]
      BY <1>6 DEF Site!Act, Site!Play, Played
    <2>2. DOMAIN run' = LoopFields /\ run'.active = run.active /\ run'.phase = Site!Ended(env')
      BY <1>4, <2>1 DEF LoopFields
    <2> QED BY <1>0, <1>4, <1>5, <2>1, <2>2, GoesOn
  <1>7. CASE Site!ChooseAtOnce
    <2>1. PICK option : /\ Played /\ run.phase = "decide" /\ UNCHANGED <<site, order>>
                        /\ run' = [Site!Record(run, option, env, env') EXCEPT
                                      !.phase = Site!Ended(env'), !.decisions = Site!Counted]
      BY <1>7 DEF Site!ChooseAtOnce, Site!Play, Played
    <2>2. DOMAIN run' = LoopFields /\ run'.active = run.active /\ run'.phase = Site!Ended(env')
      BY <1>4, <2>1 DEF LoopFields, Site!Record
    <2> QED BY <1>0, <1>4, <1>5, <2>1, <2>2, GoesOn
  <1>8. CASE Site!ChooseMove
    <2>1. PICK option : /\ run.phase = "decide" /\ UNCHANGED <<site, order, env, attached>>
                        /\ \/ run' = [Site!Record(run, option, env, env) EXCEPT !.decisions = Site!Counted]
                           \/ run' = [run EXCEPT !.phase = "move", !.option = option,
                                                 !.decisions = Site!Counted]
      BY <1>8 DEF Site!ChooseMove
    <2>2. DOMAIN run' = LoopFields /\ run'.active = run.active /\ run'.phase \in {"decide", "move"}
      BY <1>4, <2>1 DEF LoopFields, Site!Record
    <2> QED BY <1>0, <1>4, <2>1, <2>2, GoesOn
  <1>9. CASE Site!Primitive
    <2>1. Played /\ run.phase = "move" /\ UNCHANGED <<site, order>>
      BY <1>9 DEF Site!Primitive, Site!Play, Played
    <2>2. \/ run' = [Site!Record(run, run.option, env', env') EXCEPT
                        !.phase = Site!Ended(env'), !.option = "none", !.used = 0]
          \/ ~Site!Done(env') /\ run' = [run EXCEPT !.used = @ + 1]
      BY <1>9 DEF Site!Primitive
    <2>3. /\ DOMAIN run' = LoopFields /\ run'.active = run.active
          /\ run'.phase = Site!Ended(env') \/ (~Site!Done(env') /\ run'.phase = "move")
      BY <1>4, <2>1, <2>2 DEF LoopFields, Site!Record
    <2> QED BY <1>0, <1>4, <1>5, <2>1, <2>3, GoesOn
  <1>10. CASE Site!GiveUp
    <2>1. /\ run.phase = "decide" /\ UNCHANGED <<site, order, env, attached>>
          /\ run' = [run EXCEPT !.phase = "raised"]
      BY <1>10 DEF Site!GiveUp
    <2>2. DOMAIN run' = LoopFields /\ run'.active = run.active /\ run'.phase = "raised"
      BY <1>4, <2>1 DEF LoopFields
    <2> QED BY <1>0, <1>4, <2>1, <2>2, GoesOn
  <1>11. CASE Site!NewEpisode
    <2>1. /\ run.phase = "over" /\ UNCHANGED <<site, order>>
          /\ env' = Site!Fresh(site) /\ attached' = Site!NoPart
      BY <1>11 DEF Site!NewEpisode
    <2>2. Site!Loaded
      BY <2>1 DEF Site!Loaded
    <2>3. SiteOK(site) /\ StartsFree(site) /\ OrderOK(order', site) /\ run.active \in 1..Len(order)
      BY <2>1, <2>2 DEF SiteInv
    <2>4. PICK n \in 1..Len(order) : run' = Site!Loop("decide", n)
      <3>1. Len(order) \in 1..Len(order)
        BY <2>1, <2>3 DEF OrderOK, Sorted
      <3> QED BY <1>11, <3>1 DEF Site!NewEpisode
    <2>5. n \in 1..Len(order')
      BY <2>1
    <2> QED BY <2>1, <2>3, <2>4, <2>5, Begins
  <1>12. CASE UNCHANGED Site!vars
    BY <1>12 DEF Site!vars, SiteInv, Site!Loaded
  <1> QED BY <1>2, <1>3, <1>6, <1>7, <1>8, <1>9, <1>10, <1>11, <1>12 DEF Site!Next

LEMMA SiteBegins == SiteNumbers /\ Site!Init => SiteInv
  <1> SUFFICES ASSUME SiteNumbers, Site!Init PROVE SiteInv
    OBVIOUS
  <1>1. PICK s \in Sites, p \in Physics : site = Site!PlayedBy(s, p)
    BY DEF Site!Init
  <1>2. /\ {"kind", "needs", "starts", "pickup", "assembly", "obstacles"} \subseteq DOMAIN s
        /\ SiteOK(s)
    <2>1. Numbered(DOMAIN s.needs) /\ DOMAIN s.needs # {}
      BY DEF SiteNumbers
    <2>2. \E n \in Nat : n > 0 /\ DOMAIN s.needs = 1..n
      BY <2>1, NumberedIs
    <2> QED BY <2>2 DEF SiteNumbers, SiteOK
  <1>3. /\ site.kind = s.kind /\ site.needs = s.needs /\ site.starts = s.starts
        /\ site.pickup = s.pickup /\ site.assembly = s.assembly
    BY <1>1, <1>2 DEF Site!PlayedBy
  <1>4. SiteOK(site)
    BY <1>2, <1>3 DEF SiteOK
  <1>5. run.phase = "load" /\ DOMAIN run = LoopFields /\ env = Site!Fresh(site) /\ attached = Site!NoPart
    BY DEF Site!Init, Site!Loop, LoopFields
  <1> QED BY <1>4, <1>5 DEF SiteInv, LoopPhases, Site!Loaded

Beginning(o, k) == {o[i] : i \in 1..k}

LEMMA BuiltIs ==
    ASSUME NEW e, NEW s, NEW o, OrderOK(o, s), NEW n \in 0..Len(o), PlaceOK(e, o, n)
    PROVE  /\ e.index \in Nat /\ e.index <= Len(o)
           /\ Site!Range(e.installed) = Beginning(o, e.index)
  <1>1. e.index \in 0..n /\ e.installed = SubSeq(o, 1, e.index) /\ o \in Seq(Site!Parts(s))
    BY DEF PlaceOK, OrderOK, Sorted
  <1>2. e.index \in Nat /\ e.index <= Len(o) /\ Len(o) \in Nat
    BY <1>1
  <1>3. DOMAIN e.installed = 1..e.index /\ \A i \in 1..e.index : e.installed[i] = o[i]
    BY <1>1, <1>2
  <1> QED BY <1>2, <1>3 DEF Site!Range, Beginning

LEMMA SiteInvSound == SiteInv => Site!AssemblySound
  <1> SUFFICES ASSUME SiteInv, Site!Loaded PROVE Site!AssemblySound
    BY DEF Site!AssemblySound
  <1>1. /\ SiteOK(site) /\ OrderOK(order, site) /\ run.active \in 1..Len(order)
        /\ IsEnv(env) /\ PlaceOK(env, order, run.active) /\ BooksOK(env, site, order)
        /\ Standing(env, site) /\ Held(env, site, order) /\ NoneQueued(env, site)
        /\ site.physics = "mujoco" => attached = Holding(env, order)
    BY DEF SiteInv, EpisodeOK
  <1>2. env.carrying => Site!Part(env) = order[env.index + 1]
    BY <1>1, PartIs DEF PlaceOK, OrderOK, Sorted
  <1>3. env.at[1] # env.at[2] /\ Site!Range(env.at) \subseteq Site!Open
    BY <1>1 DEF Standing, Site!Range, Site!Open
  <1>4. env.carrying => Site!Offset(env.at) = Site!Offset(Site!Pickup(env))
    BY <1>1, <1>2 DEF Held, Site!Pickup
  <1>5. env.installed = SubSeq(order, 1, env.index)
    BY <1>1 DEF PlaceOK
  <1>6. \A k \in DOMAIN env.queued : env.queued[k] = 0
    BY <1>1 DEF NoneQueued
  <1>7. env.recovered \subseteq env.failed /\ env.recoveries = Site!Cardinality(env.recovered)
    BY <1>1, SiteOperators DEF BooksOK
  <1>8. \A p \in Site!Built : \A act \in Site!Phases :
            <<p, act>> \in env.failed => <<p, act>> \in env.recovered
    <2> TAKE p \in Site!Built
    <2>1. PICK i \in 1..env.index : p = order[i]
      <3>1. run.active \in 0..Len(order)
        BY <1>1 DEF OrderOK, Sorted
      <3>2. PICK e, s, o : e = env /\ s = site /\ o = order
        OBVIOUS
      <3>3. Site!Range(e.installed) = Beginning(o, e.index)
        BY <1>1, <3>1, <3>2, BuiltIs
      <3> QED BY <3>2, <3>3 DEF Site!Built, Beginning
    <2> QED BY <1>1, <2>1 DEF BooksOK, MadeGood, Site!Phases
  <1>9. env.failures + 2 * env.index + (IF env.carrying THEN 1 ELSE 0)
            = Site!FoldSet(LAMBDA k, n : n + env.attempts[k], 0, DOMAIN env.attempts)
    <2> DEFINE S == Keys(site)
               Body(h) == [s \in SUBSET S |-> IF s = {} THEN 0 ELSE h[s \ {One(s)}] + env.attempts[One(s)]]
               sum == CHOOSE h : h = Body(h)
    <2>1. env.attempts \in [S -> Nat] /\ DOMAIN env.attempts = S
      BY <1>1 DEF BooksOK
    <2>2. Site!FoldSet(LAMBDA k, n : n + env.attempts[k], 0, S) = sum[S]
      BY DEF Site!FoldSet, Site!MapThenFoldSet, One
    <2>3. PICK f : f = env.attempts
      OBVIOUS
    <2>4. IsFiniteSet(S) /\ \A x \in S : f[x] \in Int
      <3>1. PICK s : s = site
        OBVIOUS
      <3>2. IsFiniteSet(Keys(s))
        BY <1>1, <3>1, KeysFinite
      <3> QED BY <2>1, <2>3, <3>1, <3>2
    <2>5. sum[S] = Total(f, S)
      <3> DEFINE T(h) == [s \in SUBSET S |-> IF s = {} THEN 0 ELSE h[s \ {One(s)}] + f[One(s)]]
      <3>1. (\E h : h = T(h)) /\ \A h : h = T(h) => h[S] = Total(f, S)
        <4> HIDE DEF S
        <4> QED BY <2>4, AddedOneByOne
      <3>2. sum = CHOOSE h : h = T(h)
        BY <2>3
      <3> HIDE DEF sum, T
      <3> QED BY <3>1, <3>2
    <2>6. env.failures + 2 * env.index + (IF env.carrying THEN 1 ELSE 0) = Total(f, S)
      BY <1>1, <2>3 DEF BooksOK, Owing
    <2> HIDE DEF S, sum
    <2> QED BY <2>1, <2>2, <2>5, <2>6
  <1>10. site.physics = "mujoco" => attached = (IF env.carrying THEN Site!Part(env) ELSE Site!NoPart)
    BY <1>1, <1>2 DEF Holding
  <1> QED BY <1>3, <1>4, <1>5, <1>6, <1>7, <1>8, <1>9, <1>10 DEF Site!AssemblySound

\* However a site is built, by whom and with which failures: robots never share a cell or
\* stand on an obstacle, hold a part the way they took it, build in their order, and keep
\* their books of attempts, failures and recoveries (assembly/env.py).
THEOREM SitesAreSound == SiteNumbers => (Site!Spec => []Site!AssemblySound)
  <1> SUFFICES ASSUME SiteNumbers PROVE Site!Spec => []Site!AssemblySound
    OBVIOUS
  <1>1. Site!Init => SiteInv
    BY SiteBegins
  <1>2. SiteInv /\ [Site!Next]_(Site!vars) => SiteInv'
    BY SiteKeeps
  <1>3. Site!Spec => Site!Init /\ [][Site!Next]_(Site!vars)
    BY DEF Site!Spec
  <1> QED BY <1>1, <1>2, <1>3, SiteInvSound, PTL

LEMMA SiteInOrder ==
    SiteNumbers /\ SiteInv /\ [Site!Next]_(Site!vars)
        => [Assembled!Next]_<<Site!Parts(site), site.needs, Site!Built>>
  <1> SUFFICES ASSUME SiteNumbers, SiteInv, [Site!Next]_(Site!vars)
               PROVE  [Assembled!Next]_<<Site!Parts(site), site.needs, Site!Built>>
    OBVIOUS
  <1>1. UNCHANGED site /\ UNCHANGED <<Site!Parts(site), site.needs>>
    BY DEF Site!Next, Site!Compile, Site!Load, Site!Act, Site!ChooseAtOnce, Site!ChooseMove,
           Site!Primitive, Site!GiveUp, Site!NewEpisode, Site!vars, Site!Parts
  <1>2. CASE UNCHANGED env
    BY <1>1, <1>2 DEF Site!Built
  <1>3. CASE env' = Site!Fresh(site)
    <2>1. env'.installed = <<>>
      BY <1>3 DEF Site!Fresh
    <2>2. Site!Built' = {}
      BY <2>1 DEF Site!Built, Site!Range
    <2> QED BY <1>1, <2>2 DEF Assembled!Next, Assembled!Begin
  <1>4. CASE run.phase \in {"decide", "move"} /\ Played
    <2>1. /\ Site!Loaded /\ env.index < run.active /\ Size \in Nat /\ SiteOK(site)
          /\ OrderOK(order, site) /\ run.active \in 0..Len(order)
          /\ PlaceOK(env, order, run.active)
      <3>1. Size \in Nat
        BY DEF SiteNumbers
      <3> QED BY <1>4, <3>1 DEF SiteInv, Site!Loaded, EpisodeOK, OrderOK, Sorted
    <2>2. PlaceOK(env', order, run.active) /\ Progress(env, env')
      BY <1>4, <2>1, PlaySound DEF EpisodeOK
    <2>3. PICK e, m, s, o, n : e = env /\ m = env' /\ s = site /\ o = order /\ n = run.active
      OBVIOUS
    <2>4. /\ PlaceOK(e, o, n) /\ PlaceOK(m, o, n) /\ OrderOK(o, s) /\ n \in 0..Len(o)
          /\ Progress(e, m)
      BY <2>1, <2>2, <2>3
    <2>5. /\ e.index \in Nat /\ e.index <= Len(o) /\ m.index \in Nat /\ m.index <= Len(o)
          /\ Site!Range(e.installed) = Beginning(o, e.index)
          /\ Site!Range(m.installed) = Beginning(o, m.index)
      BY <2>4, BuiltIs
    <2>6. m.index = e.index \/ m.index = e.index + 1
      BY <2>4 DEF Progress
    <2> DEFINE B == Beginning(o, e.index)
               C == Beginning(o, m.index)
    <2>7. B \subseteq C /\ C \subseteq Site!Parts(s)
      <3>1. \A i \in 1..e.index : i \in 1..m.index
        BY <2>5, <2>6
      <3>2. \A i \in 1..m.index : o[i] \in Site!Parts(s)
        BY <2>4, <2>5 DEF OrderOK, Sorted
      <3> QED BY <3>1, <3>2 DEF Beginning
    <2>8. ASSUME NEW p \in C \ B PROVE s.needs[p] \subseteq B
      <3>1. PICK i \in 1..m.index : p = o[i] /\ i \notin 1..e.index
        BY <2>8 DEF Beginning
      <3>2. i = e.index + 1 /\ i - 1 = e.index /\ i \in 1..Len(o)
        BY <2>5, <2>6, <3>1
      <3>3. s.needs[o[i]] \subseteq {o[j] : j \in 1..(i - 1)}
        BY <2>4, <3>2 DEF OrderOK, Sorted
      <3> QED BY <3>1, <3>2, <3>3 DEF Beginning
    <2> HIDE DEF B, C
    <2>9. Site!Built = B /\ Site!Built' = C
      BY <2>3, <2>5 DEF Site!Built, B, C
    <2> QED BY <1>1, <2>3, <2>7, <2>8, <2>9 DEF Assembled!Next, Assembled!Install
  <1>5. \/ UNCHANGED env \/ env' = Site!Fresh(site)
        \/ run.phase \in {"decide", "move"} /\ Played
    <2>1. CASE Site!Act \/ Site!ChooseAtOnce \/ Site!Primitive
      BY <2>1 DEF Site!Act, Site!ChooseAtOnce, Site!Primitive, Site!Play, Played
    <2>2. CASE Site!Compile \/ Site!Load \/ Site!ChooseMove \/ Site!GiveUp \/ UNCHANGED Site!vars
      BY <2>2 DEF Site!Compile, Site!Load, Site!ChooseMove, Site!GiveUp, Site!vars
    <2>3. CASE Site!NewEpisode
      BY <2>3 DEF Site!NewEpisode
    <2> QED BY <2>1, <2>2, <2>3 DEF Site!Next
  <1> QED BY <1>2, <1>3, <1>4, <1>5

LEMMA NothingAssembled == Site!Init => Assembled!Init
  <1> SUFFICES ASSUME Site!Init PROVE Site!Built = {}
    BY DEF Assembled!Init
  <1> QED BY DEF Site!Init, Site!Built, Site!Range, Site!Fresh

\* No part is built before what it rests on, whatever order its blueprint declares
\* (blueprint.py, assembly/env.py).
THEOREM SitesBuildInOrder == SiteNumbers => (Site!Spec => Assembled!Spec)
  <1> SUFFICES ASSUME SiteNumbers PROVE Site!Spec => Assembled!Spec
    OBVIOUS
  <1>1. Site!Init => SiteInv /\ Assembled!Init
    BY SiteBegins, NothingAssembled
  <1>2. SiteInv /\ [Site!Next]_(Site!vars) => SiteInv'
    BY SiteKeeps
  <1>3. SiteInv /\ [Site!Next]_(Site!vars)
            => [Assembled!Next]_<<Site!Parts(site), site.needs, Site!Built>>
    BY SiteInOrder
  <1>4. Site!Spec => Site!Init /\ [][Site!Next]_(Site!vars)
    BY DEF Site!Spec
  <1> QED BY <1>1, <1>2, <1>3, <1>4, PTL DEF Assembled!Spec
-----------------------------------------------------------------------------
(* What planners choose.                                                   *)

\* The first of a sequence in a set, when there is one.
LEMMA FirstIs ==
    ASSUME NEW A, NEW seq \in Seq(A), NEW S, \E i \in 1..Len(seq) : seq[i] \in S
    PROVE  \E k \in 1..Len(seq) : /\ Site!FirstIn(seq, S) = seq[k] /\ seq[k] \in S
                                  /\ \A i \in 1..Len(seq) : i < k => seq[i] \notin S
  <1> DEFINE I == {i \in 1..Len(seq) : seq[i] \in S}
             k == Min(I)
  <1>1. I \in SUBSET Nat /\ I # {}
    OBVIOUS
  <1>2. k \in I /\ \A i \in I : k <= i
    <2> HIDE DEF I
    <2> QED BY <1>1, LeastIsMin
  <1>3. Site!FirstIn(seq, S) = seq[k]
    <2>1. Site!Min(I) = k
      BY SiteOperators
    <2> QED BY <1>1, <2>1 DEF Site!FirstIn, Site!SelectInSeq
  <1> HIDE DEF k
  <1>4. \A i \in 1..Len(seq) : i < k => seq[i] \notin S
    BY <1>2
  <1> QED BY <1>2, <1>3, <1>4

\* What is offered, and what the script takes of it.
LEMMA OfferedIs ==
    ASSUME NEW e, e.carrying \in BOOLEAN
    PROVE  LET c == Site!Complete(e)
               there == Site!At(e, Site!Goal(e))
               close == Site!Distance(e, Site!Goal(e)) <= 2
               M == Site!Mask(e)
           IN  /\ "wait" \in M
               /\ "align" \in M <=> ~c /\ ~there /\ close
               /\ "install" \in M <=> ~c /\ e.carrying /\ there
               /\ "assembly" \in M <=> ~c /\ e.carrying /\ ~there
               /\ "grab" \in M <=> ~c /\ ~e.carrying /\ there
               /\ "pickup" \in M <=> ~c /\ ~e.carrying /\ ~there
               /\ "reposition" \in M <=> ~c /\ Site!ShouldReposition(e)
               /\ "reset" \in M <=> ~c /\ Site!ShouldReset(e)
  <1> DEFINE c == Site!Complete(e)
             p == Site!ShouldReposition(e)
             r == Site!ShouldReset(e)
             there == Site!At(e, Site!Goal(e))
             close == Site!Distance(e, Site!Goal(e)) <= 2
             M == Site!Mask(e)
  <1>1. M = IF c THEN {"wait"}
            ELSE {"wait"} \cup (IF ~there /\ close THEN {"align"} ELSE {})
                 \cup (CASE e.carrying /\ there  -> {"install"}
                         [] e.carrying /\ ~there -> {"assembly"}
                         [] ~e.carrying /\ there -> {"grab"}
                         [] OTHER                -> {"pickup"})
                 \cup (IF p THEN {"reposition"} ELSE {}) \cup (IF r THEN {"reset"} ELSE {})
    BY DEF Site!Mask
  <1> HIDE DEF c, p, r, there, close, M
  <1>2. /\ "wait" \in M
        /\ "align" \in M <=> ~c /\ ~there /\ close
        /\ "install" \in M <=> ~c /\ e.carrying /\ there
        /\ "assembly" \in M <=> ~c /\ e.carrying /\ ~there
        /\ "grab" \in M <=> ~c /\ ~e.carrying /\ there
        /\ "pickup" \in M <=> ~c /\ ~e.carrying /\ ~there
        /\ "reposition" \in M <=> ~c /\ p
        /\ "reset" \in M <=> ~c /\ r
    BY <1>1
  <1> QED BY <1>2 DEF c, p, r, there, close, M

LEMMA ScriptIs ==
    ASSUME NEW e
    PROVE  /\ Site!Scripted(e) =
                IF Site!Complete(e) THEN "wait"
                ELSE IF Site!ShouldReposition(e) THEN "reposition"
                ELSE IF Site!ShouldReset(e) THEN "reset"
                ELSE IF Site!At(e, Site!Goal(e)) THEN (IF e.carrying THEN "install" ELSE "grab")
                ELSE IF Site!Distance(e, Site!Goal(e)) <= 2 THEN "align"
                ELSE IF e.carrying THEN "assembly" ELSE "pickup"
           /\ Site!ShouldReposition(e) \/ Site!ShouldReset(e) => ~e.carrying
  BY DEF Site!Scripted, Site!ShouldReposition, Site!ShouldReset

\* A brain takes what the script takes, and it is offered.
LEMMA PlannersChooseAlike ==
    ASSUME NEW e, e.carrying \in BOOLEAN
    PROVE  Site!Scripted(e) \in Site!Mask(e) /\ Site!Structured(e) = Site!Scripted(e)
  <1> DEFINE c == Site!Complete(e)
             p == Site!ShouldReposition(e)
             r == Site!ShouldReset(e)
             there == Site!At(e, Site!Goal(e))
             close == Site!Distance(e, Site!Goal(e)) <= 2
             M == Site!Mask(e)
             o == Site!Scripted(e)
  <1>1. (p => ~e.carrying) /\ (r => ~e.carrying)
    BY ScriptIs
  <1>2. /\ "wait" \in M
        /\ "align" \in M <=> ~c /\ ~there /\ close
        /\ "install" \in M <=> ~c /\ e.carrying /\ there
        /\ "assembly" \in M <=> ~c /\ e.carrying /\ ~there
        /\ "grab" \in M <=> ~c /\ ~e.carrying /\ there
        /\ "pickup" \in M <=> ~c /\ ~e.carrying /\ ~there
        /\ "reposition" \in M <=> ~c /\ p
        /\ "reset" \in M <=> ~c /\ r
    BY OfferedIs
  <1>3. o = IF c THEN "wait" ELSE IF p THEN "reposition" ELSE IF r THEN "reset"
            ELSE IF there THEN (IF e.carrying THEN "install" ELSE "grab")
            ELSE IF close THEN "align" ELSE IF e.carrying THEN "assembly" ELSE "pickup"
    BY ScriptIs
  <1> DEFINE w == IF e.carrying THEN <<"install", "align", "assembly", "wait">>
                  ELSE <<"reposition", "reset", "grab", "align", "pickup", "wait">>
  <1>4. Site!Structured(e) = Site!FirstIn(w, M)
    BY DEF Site!Structured
  <1> HIDE DEF c, p, r, there, close, M, o
  <1>5. o \in M
    BY <1>1, <1>2, <1>3
  <1>6. CASE e.carrying
    <2> DEFINE v == <<"install", "align", "assembly", "wait">>
    <2>1. v \in Seq({"install", "align", "assembly", "wait"}) /\ Len(v) = 4
      OBVIOUS
    <2>2. v[1] = "install" /\ v[2] = "align" /\ v[3] = "assembly" /\ v[4] = "wait"
      OBVIOUS
    <2>3. \E i \in 1..Len(v) : v[i] \in M
      BY <1>2, <2>1, <2>2
    <2>4. w = v
      BY <1>6
    <2> HIDE DEF v, w
    <2>5. PICK k \in 1..Len(v) : /\ Site!FirstIn(v, M) = v[k] /\ v[k] \in M
                                 /\ \A i \in 1..Len(v) : i < k => v[i] \notin M
      BY <2>1, <2>3, FirstIs
    <2>6. v[k] = o
      <3>1. k \in 1..4 /\ (1 < k => v[1] \notin M) /\ (2 < k => v[2] \notin M) /\ (3 < k => v[3] \notin M)
        BY <2>1, <2>5
      <3>2. CASE k = 1
        BY <1>1, <1>2, <1>3, <1>6, <2>2, <2>5, <3>2
      <3>3. CASE k = 2
        BY <1>1, <1>2, <1>3, <1>6, <2>2, <2>5, <3>1, <3>3
      <3>4. CASE k = 3
        BY <1>1, <1>2, <1>3, <1>6, <2>2, <2>5, <3>1, <3>4
      <3>5. CASE k = 4
        BY <1>1, <1>2, <1>3, <1>6, <2>2, <2>5, <3>1, <3>5
      <3> QED BY <3>1, <3>2, <3>3, <3>4, <3>5
    <2> QED BY <1>4, <1>5, <2>4, <2>5, <2>6 DEF M, o
  <1>7. CASE ~e.carrying
    <2> DEFINE v == <<"reposition", "reset", "grab", "align", "pickup", "wait">>
    <2>1. v \in Seq({"reposition", "reset", "grab", "align", "pickup", "wait"}) /\ Len(v) = 6
      OBVIOUS
    <2>2. /\ v[1] = "reposition" /\ v[2] = "reset" /\ v[3] = "grab" /\ v[4] = "align"
          /\ v[5] = "pickup" /\ v[6] = "wait"
      OBVIOUS
    <2>3. \E i \in 1..Len(v) : v[i] \in M
      BY <1>2, <2>1, <2>2
    <2>4. w = v
      BY <1>7
    <2> HIDE DEF v, w
    <2>5. PICK k \in 1..Len(v) : /\ Site!FirstIn(v, M) = v[k] /\ v[k] \in M
                                 /\ \A i \in 1..Len(v) : i < k => v[i] \notin M
      BY <2>1, <2>3, FirstIs
    <2>6. v[k] = o
      <3>1. /\ k \in 1..6 /\ (1 < k => v[1] \notin M) /\ (2 < k => v[2] \notin M)
            /\ (3 < k => v[3] \notin M) /\ (4 < k => v[4] \notin M) /\ (5 < k => v[5] \notin M)
        BY <2>1, <2>5
      <3>2. CASE k \in {1, 2, 3}
        BY <1>1, <1>2, <1>3, <1>7, <2>2, <2>5, <3>1, <3>2
      <3>3. CASE k \in {4, 5, 6}
        BY <1>1, <1>2, <1>3, <1>7, <2>2, <2>5, <3>1, <3>3
      <3> QED BY <3>1, <3>2, <3>3
    <2> QED BY <1>4, <1>5, <2>4, <2>5, <2>6 DEF M, o
  <1> QED BY <1>6, <1>7
-----------------------------------------------------------------------------
(* Where the planners go.                                                  *)

\* All directions are looked at.
LEMMA AllDirections ==
    ASSUME NEW c, NEW target
    PROVE  /\ Site!Preference(c, target) \in Seq(Site!Directions)
           /\ \A a \in Site!Directions :
                 \E i \in 1..Len(Site!Preference(c, target)) : Site!Preference(c, target)[i] = a
  <1> DEFINE D == Site!Directions
             across == IF target[1] > c[1] THEN "right" ELSE "left"
             along == IF target[2] > c[2] THEN "down" ELSE "up"
             x == IF target[1] # c[1] THEN <<across>> ELSE <<>>
             y == IF target[2] # c[2] THEN <<along>> ELSE <<>>
             z == <<"right", "left", "down", "up">>
  <1>1. Site!Preference(c, target) = (x \o y) \o z
    BY DEF Site!Preference
  <1>2. x \in Seq(D) /\ y \in Seq(D)
    <2>1. across \in D /\ along \in D
      BY DEF Site!Directions
    <2> HIDE DEF D, across, along
    <2> QED BY <2>1
  <1>3. z \in Seq(D) /\ Len(z) = 4 /\ z[1] = "right" /\ z[2] = "left" /\ z[3] = "down" /\ z[4] = "up"
    BY DEF Site!Directions
  <1> DEFINE w == x \o y
  <1>4. w \in Seq(D)
    <2> HIDE DEF x, y, D
    <2> QED BY <1>2, ConcatProperties
  <1> HIDE DEF x, y, z, D, w
  <1> DEFINE q == w \o z
  <1>5. /\ q \in Seq(D) /\ Len(q) = Len(w) + 4 /\ Len(w) \in Nat
        /\ \A i \in 1..4 : q[Len(w) + i] = z[i]
    <2>1. /\ q \in Seq(D) /\ Len(q) = Len(w) + Len(z)
          /\ \A i \in 1..(Len(w) + Len(z)) : q[i] = IF i <= Len(w) THEN w[i] ELSE z[i - Len(w)]
      BY <1>3, <1>4, ConcatProperties
    <2>2. Len(w) \in Nat
      BY <1>4
    <2>3. ASSUME NEW i \in 1..4 PROVE q[Len(w) + i] = z[i]
      <3>1. Len(w) + i \in 1..(Len(w) + Len(z)) /\ ~(Len(w) + i <= Len(w)) /\ (Len(w) + i) - Len(w) = i
        BY <1>3, <2>2
      <3> QED BY <2>1, <3>1
    <2> QED BY <1>3, <2>1, <2>2, <2>3
  <1> HIDE DEF q
  <1>6. \A a \in Site!Directions : \E i \in 1..Len(q) : q[i] = a
    <2>1. \A i \in 1..4 : Len(w) + i \in 1..Len(q)
      BY <1>5
    <2>2. \A a \in Site!Directions : \E i \in 1..4 : z[i] = a
      BY <1>3 DEF Site!Directions
    <2> QED BY <1>5, <2>1, <2>2
  <1> QED BY <1>1, <1>5, <1>6 DEF q, w, D

LEMMA GridFinite == ASSUME NEW C \in SUBSET Site!Grid, Size \in Nat PROVE Site!Cardinality(C) \in Nat
  <1>1. IsFiniteSet(0..(Size - 1))
    BY FS_Interval
  <1>2. IsFiniteSet(Site!Grid)
    BY <1>1, FS_Product DEF Site!Grid
  <1>3. IsFiniteSet(C)
    BY <1>2, FS_Subset
  <1> QED BY <1>3, FS_CardinalityType, SiteOperators

\* The search keeps to the open cells and does not come back to where it starts.
LEMMA SearchKeepsOut ==
    ASSUME NEW here, NEW target, NEW open \in SUBSET Site!Grid, Size \in Nat
    PROVE  Site!Nearer(here, target, open) \subseteq open \ {here}
  <1> DEFINE n == Site!Cardinality(open)
             X == SUBSET open
             base == {target} \cap open
             Wider(C) == IF here \in Site!Neighbours(C) THEN C ELSE Site!Neighbours(C) \cap open
             step == [t \in Nat |-> [C \in X |-> Wider(C)]]
             Body(f) == [k \in 0..n |-> IF k = 0 THEN base ELSE Wider(f[k - 1])]
             within == CHOOSE f : f = Body(f)
  <1>1. n \in Nat
    BY GridFinite
  <1>2. Site!Nearer(here, target, open)
            = IF here # target /\ here \in Site!Neighbours(within[n]) THEN within[n] ELSE {}
    BY DEF Site!Nearer
  <1>3. \A C \in X : Wider(C) \in X
    OBVIOUS
  <1>4. step \in [Nat -> [X -> X]] /\ base \in X
    <2> HIDE DEF Wider, X
    <2>1. \A t \in Nat : [C \in X |-> Wider(C)] \in [X -> X]
      BY <1>3
    <2> QED BY <2>1 DEF X
  <1>5. \E f : f = Body(f)
    <2>1. PICK f : Iterates(f, X, base, step, n)
      <3> HIDE DEF n, X, step, base
      <3> QED BY <1>1, <1>4, Recursion
    <2>2. f \in [0..n -> X] /\ f[0] = base /\ \A t \in 1..n : f[t] = step[t][f[t - 1]]
      BY <2>1 DEF Iterates
    <2> HIDE DEF n, X, base, Wider
    <2>3. ASSUME NEW k \in 0..n PROVE f[k] = IF k = 0 THEN base ELSE Wider(f[k - 1])
      <3>1. CASE k = 0
        BY <2>2, <3>1
      <3>2. CASE k # 0
        <4>1. k \in 1..n /\ k \in Nat /\ k - 1 \in 0..n
          BY <1>1, <3>2
        <4>2. f[k - 1] \in X
          BY <2>2, <4>1
        <4>3. step[k][f[k - 1]] = Wider(f[k - 1])
          BY <4>1, <4>2
        <4> QED BY <2>2, <3>2, <4>1, <4>3
      <3> QED BY <3>1, <3>2
    <2>4. f = Body(f)
      BY <2>2, <2>3
    <2> QED BY <2>4
  <1>6. within = Body(within)
    <2> HIDE DEF Body
    <2> QED BY <1>5
  <1> HIDE DEF within, n, step
  <1>7. \A k \in 0..n : within[k] = IF k = 0 THEN base ELSE Wider(within[k - 1])
    <2> HIDE DEF base, Wider
    <2> QED BY <1>6
  <1> SUFFICES ASSUME here # target PROVE within[n] \subseteq open \ {here}
    BY <1>2
  <1> DEFINE bad == {k \in 0..n : ~(within[k] \subseteq open \ {here})}
  <1>8. bad = {}
    <2> SUFFICES ASSUME bad # {} PROVE FALSE
      OBVIOUS
    <2>1. bad \in SUBSET Nat
      BY <1>1
    <2> HIDE DEF bad
    <2>2. PICK k \in bad : \A j \in bad : k <= j
      BY <2>1, LeastNumber
    <2>3. k \in 0..n /\ ~(within[k] \subseteq open \ {here})
      BY <2>2 DEF bad
    <2>4. CASE k = 0
      BY <1>7, <2>3, <2>4
    <2>5. CASE k # 0
      <3>1. k - 1 \in 0..n /\ ~(k <= k - 1)
        BY <1>1, <2>3, <2>5
      <3>2. within[k - 1] \subseteq open \ {here}
        BY <2>2, <3>1 DEF bad
      <3>3. within[k] = Wider(within[k - 1])
        BY <1>7, <2>3, <2>5
      <3> QED BY <2>3, <3>2, <3>3
    <2> QED BY <2>4, <2>5
  <1>9. n \in 0..n
    BY <1>1
  <1> QED BY <1>8, <1>9

\* A step on a path is taken into an open cell, or none is taken.
LEMMA TowardsOpen ==
    ASSUME NEW here, NEW target, NEW open \in SUBSET Site!Grid, Size \in Nat
    PROVE  LET a == Site!Towards(here, target, open)
           IN  \/ a = "stay"
               \/ a \in Site!Directions /\ Site!Move(here, a) \in open \ {here}
  <1> DEFINE near == Site!Nearer(here, target, open)
             S == {a \in Site!Directions : Site!Move(here, a) \in near}
             w == Site!Preference(here, target)
  <1>1. near \subseteq open \ {here}
    BY SearchKeepsOut
  <1>2. Site!Towards(here, target, open) = IF S = {} THEN "stay" ELSE Site!FirstIn(w, S)
    BY DEF Site!Towards
  <1> HIDE DEF near
  <1>3. ASSUME S # {} PROVE Site!FirstIn(w, S) \in S
    <2>1. w \in Seq(Site!Directions) /\ \A a \in Site!Directions : \E i \in 1..Len(w) : w[i] = a
      BY AllDirections
    <2>2. \E i \in 1..Len(w) : w[i] \in S
      BY <1>3, <2>1
    <2> HIDE DEF S, w
    <2> QED BY <2>1, <2>2, FirstIs
  <1> HIDE DEF w
  <1> QED BY <1>1, <1>2, <1>3

\* Joint actions that run into nothing.
Clean(e, to) ==
    /\ to[1] \in Site!Open /\ to[2] \in Site!Open /\ to[1] # to[2]
    /\ IF e.carrying THEN Site!Offset(to) = Site!Offset(e.at)
       ELSE ~(to[1] = e.at[2] /\ to[2] = e.at[1])
Smooth(e, a) ==
    /\ e.carrying => a[1] = a[2]
    /\ Clean(e, <<Site!Move(e.at[1], a[1]), Site!Move(e.at[2], a[2])>>)
Moving(a) == a[1] \notin Site!Terminal /\ a[2] \notin Site!Terminal

LEMMA StayIs == ASSUME NEW c, NEW a, a \notin Site!Directions PROVE Site!Move(c, a) = c
  BY DEF Site!Move, Site!Directions

\* One robot goes, around the other.
LEMMA AloneIsSmooth ==
    ASSUME NEW e, Placed(e.at), ~e.carrying, NEW targets, NEW i \in Site!Pair, Size \in Nat
    PROVE  LET a == Site!Alone(i, Site!Around(e, targets, i)) IN Smooth(e, a)
  <1> DEFINE b == Site!Around(e, targets, i)
             j == Site!Other(i)
             spare == Site!Open \ {e.at[j]}
  <1>1. b = "stay" \/ (b \in Site!Directions /\ Site!Move(e.at[i], b) \in spare \ {e.at[i]})
    <2>1. spare \in SUBSET Site!Grid
      BY DEF Site!Open
    <2>2. b = Site!Towards(e.at[i], targets[i], spare)
      BY DEF Site!Around
    <2> HIDE DEF spare, b
    <2> QED BY <2>1, <2>2, TowardsOpen
  <1>2. e.at[1] \in Site!Open /\ e.at[2] \in Site!Open /\ e.at[1] # e.at[2]
    BY DEF Placed
  <1>3. "stay" \notin Site!Directions
    BY DEF Site!Directions
  <1>4. \A c : Site!Move(c, "stay") = c
    BY <1>3, StayIs
  <1>5. Site!Move(e.at[i], b) \in Site!Open /\ Site!Move(e.at[i], b) # e.at[j]
    <2>1. CASE b = "stay"
      <3>1. Site!Move(e.at[i], b) = e.at[i]
        BY <1>4, <2>1
      <3> QED BY <1>2, <3>1 DEF Site!Pair, Site!Other
    <2>2. CASE b # "stay"
      BY <1>1, <2>2
    <2> QED BY <2>1, <2>2
  <1> HIDE DEF b
  <1>6. CASE i = 1
    <2>1. Site!Alone(i, b) = <<b, "stay">> /\ j = 2
      BY <1>6 DEF Site!Alone, Site!Other
    <2> QED BY <1>2, <1>3, <1>4, <1>5, <1>6, <2>1 DEF Smooth, Clean, b
  <1>7. CASE i = 2
    <2>1. Site!Alone(i, b) = <<"stay", b>> /\ j = 1
      BY <1>7 DEF Site!Alone, Site!Other
    <2> QED BY <1>2, <1>3, <1>4, <1>5, <1>7, <2>1 DEF Smooth, Clean, b
  <1> QED BY <1>6, <1>7 DEF Site!Pair

\* Two robots with nothing between them.
LEMMA JointIsSmooth ==
    ASSUME NEW e, Placed(e.at), ~e.carrying, NEW targets, Size \in Nat
    PROVE  LET a == Site!JointTowards(e, targets) IN Smooth(e, a)
  <1> DEFINE away == {i \in Site!Pair : e.at[i] # targets[i]}
             own == Site!EachOnItsOwn(e, targets)
             to == <<Site!Move(e.at[1], own[1]), Site!Move(e.at[2], own[2])>>
             clash == to[1] = to[2] \/ (to[1] = e.at[2] /\ to[2] = e.at[1])
             first == IF Site!Around(e, targets, 1) # "stay" THEN 1 ELSE 2
             m == Site!Max(away)
  <1>1. Site!JointTowards(e, targets)
            = IF Site!Cardinality(away) = 1 THEN Site!Alone(m, Site!Around(e, targets, m))
              ELSE IF clash THEN Site!Alone(first, Site!Around(e, targets, first)) ELSE own
    BY DEF Site!JointTowards, Site!Resolved
  <1>2. ASSUME Site!Cardinality(away) = 1 PROVE m \in Site!Pair
    <2>1. away \in SUBSET Nat /\ \A y \in away : y <= 2
      BY DEF Site!Pair
    <2>2. away # {}
      BY <1>2, FS_EmptySet, SiteOperators
    <2>3. PICK z \in Nat : z = 2
      OBVIOUS
    <2> HIDE DEF away
    <2>4. Max(away) \in away
      BY <2>1, <2>2, <2>3, GreatestIsMax
    <2> QED BY <2>4, SiteOperators DEF away
  <1>3. first \in Site!Pair
    BY DEF Site!Pair
  <1>4. ASSUME ~clash PROVE Smooth(e, own)
    <2>1. Site!Open \in SUBSET Site!Grid /\ e.at[1] \in Site!Open /\ e.at[2] \in Site!Open
      BY DEF Site!Open, Placed
    <2>2. \A i \in Site!Pair : own[i] = Site!Towards(e.at[i], targets[i], Site!Open)
      BY DEF Site!EachOnItsOwn, Site!Pair
    <2>3. \A i \in Site!Pair :
             own[i] = "stay" \/ (own[i] \in Site!Directions /\ Site!Move(e.at[i], own[i]) \in Site!Open)
      <3> HIDE DEF own
      <3> TAKE i \in Site!Pair
      <3> QED BY <2>1, <2>2, TowardsOpen
    <2>4. "stay" \notin Site!Directions
      BY DEF Site!Directions
    <2>5. \A i \in Site!Pair : Site!Move(e.at[i], own[i]) \in Site!Open
      <3> HIDE DEF own
      <3> TAKE i \in Site!Pair
      <3>1. e.at[i] \in Site!Open
        BY <2>1 DEF Site!Pair
      <3> QED BY <2>3, <2>4, <3>1, StayIs
    <2>6. to[1] \in Site!Open /\ to[2] \in Site!Open
      BY <2>5 DEF Site!Pair
    <2>7. Clean(e, to)
      <3> HIDE DEF to
      <3> QED BY <1>4, <2>6 DEF Clean
    <2> HIDE DEF own
    <2> QED BY <2>7 DEF Smooth
  <1> HIDE DEF away, own, clash, first, m
  <1>5. CASE Site!Cardinality(away) = 1
    BY <1>1, <1>2, <1>5, AloneIsSmooth
  <1>6. CASE ~(Site!Cardinality(away) = 1) /\ clash
    BY <1>1, <1>3, <1>6, AloneIsSmooth
  <1>7. CASE ~(Site!Cardinality(away) = 1) /\ ~clash
    BY <1>1, <1>4, <1>7
  <1> QED BY <1>5, <1>6, <1>7

\* Where one of two robots that hold a part goes, the other can follow.
LEMMA MovesAlike ==
    ASSUME NEW c \in Site!Grid, NEW d \in Site!Grid, NEW a \in Site!Directions, Size \in Nat,
           Site!Move(c, a) # c,
           <<Site!Move(c, a)[1] + (d[1] - c[1]), Site!Move(c, a)[2] + (d[2] - c[2])>> \in Site!Grid
    PROVE  Site!Move(d, a)
               = <<Site!Move(c, a)[1] + (d[1] - c[1]), Site!Move(c, a)[2] + (d[2] - c[2])>>
  <1>1. PICK x \in 0..(Size - 1), y \in 0..(Size - 1) : c = <<x, y>>
    BY DEF Site!Grid
  <1>2. PICK u \in 0..(Size - 1), v \in 0..(Size - 1) : d = <<u, v>>
    BY DEF Site!Grid
  <1>3. PICK z \in Int, b \in Int : z = 0 /\ b = Size - 1
    OBVIOUS
  <1>4. PICK xl \in Int, xr \in Int, yu \in Int, yd \in Int :
            xl = x - 1 /\ xr = x + 1 /\ yu = y - 1 /\ yd = y + 1
    OBVIOUS
  <1>5. PICK ul \in Int, ur \in Int, vu \in Int, vd \in Int :
            ul = u - 1 /\ ur = u + 1 /\ vu = v - 1 /\ vd = v + 1
    OBVIOUS
  <1>6. /\ Site!Max({z, yu}) = (IF z <= yu THEN yu ELSE z) /\ Site!Max({z, vu}) = (IF z <= vu THEN vu ELSE z)
        /\ Site!Max({z, xl}) = (IF z <= xl THEN xl ELSE z) /\ Site!Max({z, ul}) = (IF z <= ul THEN ul ELSE z)
        /\ Site!Min({b, yd}) = (IF b <= yd THEN b ELSE yd) /\ Site!Min({b, vd}) = (IF b <= vd THEN b ELSE vd)
        /\ Site!Min({b, xr}) = (IF b <= xr THEN b ELSE xr) /\ Site!Min({b, ur}) = (IF b <= ur THEN b ELSE ur)
    BY PairMax, PairMin
  <1> DEFINE to == Site!Move(c, a)
             by == Site!Move(d, a)
  <1>7. \A p, q : <<p, q>> \in Site!Grid => p \in 0..(Size - 1) /\ q \in 0..(Size - 1)
    BY DEF Site!Grid
  <1>8. CASE a = "up"
    <2>1. to = <<x, Site!Max({z, yu})>> /\ by = <<u, Site!Max({z, vu})>>
      BY <1>1, <1>2, <1>3, <1>4, <1>5, <1>8 DEF Site!Move
    <2>2. to = <<x, y - 1>>
      BY <1>1, <1>3, <1>4, <1>6, <2>1
    <2>3. v - 1 \in 0..(Size - 1)
      BY <1>1, <1>2, <1>7, <2>2
    <2> QED BY <1>1, <1>2, <1>3, <1>5, <1>6, <2>1, <2>2, <2>3
  <1>9. CASE a = "down"
    <2>1. to = <<x, Site!Min({b, yd})>> /\ by = <<u, Site!Min({b, vd})>>
      BY <1>1, <1>2, <1>3, <1>4, <1>5, <1>9 DEF Site!Move
    <2>2. to = <<x, y + 1>>
      BY <1>1, <1>3, <1>4, <1>6, <2>1
    <2>3. v + 1 \in 0..(Size - 1)
      BY <1>1, <1>2, <1>7, <2>2
    <2> QED BY <1>1, <1>2, <1>3, <1>5, <1>6, <2>1, <2>2, <2>3
  <1>10. CASE a = "left"
    <2>1. to = <<Site!Max({z, xl}), y>> /\ by = <<Site!Max({z, ul}), v>>
      BY <1>1, <1>2, <1>3, <1>4, <1>5, <1>10 DEF Site!Move
    <2>2. to = <<x - 1, y>>
      BY <1>1, <1>3, <1>4, <1>6, <2>1
    <2>3. u - 1 \in 0..(Size - 1)
      BY <1>1, <1>2, <1>7, <2>2
    <2> QED BY <1>1, <1>2, <1>3, <1>5, <1>6, <2>1, <2>2, <2>3
  <1>11. CASE a = "right"
    <2>1. to = <<Site!Min({b, xr}), y>> /\ by = <<Site!Min({b, ur}), v>>
      BY <1>1, <1>2, <1>3, <1>4, <1>5, <1>11 DEF Site!Move
    <2>2. to = <<x + 1, y>>
      BY <1>1, <1>3, <1>4, <1>6, <2>1
    <2>3. u + 1 \in 0..(Size - 1)
      BY <1>1, <1>2, <1>7, <2>2
    <2> QED BY <1>1, <1>2, <1>3, <1>5, <1>6, <2>1, <2>2, <2>3
  <1> QED BY <1>8, <1>9, <1>10, <1>11 DEF Site!Directions

LEMMA RigidIsSmooth ==
    ASSUME NEW e, Placed(e.at), e.carrying, NEW targets, Size \in Nat
    PROVE  LET a == Site!RigidTowards(e, targets) IN Smooth(e, a)
  <1> DEFINE p == Site!Offset(e.at)
             open == {c \in Site!Open : <<c[1] + p[1], c[2] + p[2]>> \in Site!Open}
             b == IF p = Site!Offset(targets) THEN Site!Towards(e.at[1], targets[1], open) ELSE "stay"
             to == <<Site!Move(e.at[1], b), Site!Move(e.at[2], b)>>
  <1>1. Site!RigidTowards(e, targets) = <<b, b>>
    BY DEF Site!RigidTowards
  <1>2. e.at[1] \in Site!Open /\ e.at[2] \in Site!Open /\ e.at[1] # e.at[2] /\ e.at \in Site!Open \X Site!Open
    BY DEF Placed
  <1>3. Site!Open \subseteq Site!Grid /\ open \in SUBSET Site!Grid
    BY DEF Site!Open
  <1>4. b = "stay" \/ (b \in Site!Directions /\ Site!Move(e.at[1], b) \in open \ {e.at[1]})
    <2> HIDE DEF open, p
    <2> QED BY <1>3, TowardsOpen
  <1>5. p = <<e.at[2][1] - e.at[1][1], e.at[2][2] - e.at[1][2]>>
    BY DEF Site!Offset
  <1> HIDE DEF b
  <1>6. Clean(e, to)
    <2>1. CASE b = "stay"
      <3>1. b \notin Site!Directions
        BY <2>1 DEF Site!Directions
      <3>2. to[1] = e.at[1] /\ to[2] = e.at[2]
        BY <3>1, StayIs
      <3>3. Site!Offset(to) = Site!Offset(e.at)
        BY <3>2 DEF Site!Offset
      <3> HIDE DEF to
      <3> QED BY <1>2, <3>2, <3>3 DEF Clean
    <2>2. CASE b # "stay"
      <3> DEFINE f == Site!Move(e.at[1], b)
                 g == <<f[1] + (e.at[2][1] - e.at[1][1]), f[2] + (e.at[2][2] - e.at[1][2])>>
      <3>1. b \in Site!Directions /\ f \in Site!Open /\ f # e.at[1] /\ g \in Site!Open
        BY <1>4, <1>5, <2>2
      <3>2. Site!Move(e.at[2], b) = g
        <4>1. PICK c \in Site!Grid, d \in Site!Grid : c = e.at[1] /\ d = e.at[2]
          BY <1>2, <1>3
        <4> QED BY <1>3, <3>1, <4>1, MovesAlike
      <3>3. to[1] = f /\ to[2] = g
        BY <3>2
      <3> HIDE DEF f
      <3>4. PICK c1 \in Int, c2 \in Int, d1 \in Int, d2 \in Int :
                e.at[1] = <<c1, c2>> /\ e.at[2] = <<d1, d2>>
        BY <1>2, <1>3 DEF Site!Grid
      <3>5. PICK f1 \in Int, f2 \in Int : f = <<f1, f2>>
        BY <1>3, <3>1 DEF Site!Grid
      <3>6. g = <<f1 + (d1 - c1), f2 + (d2 - c2)>>
        BY <3>4, <3>5
      <3> HIDE DEF g, to
      <3>7. Site!Offset(to) = <<d1 - c1, d2 - c2>>
        <4>1. Site!Offset(to) = <<(f1 + (d1 - c1)) - f1, (f2 + (d2 - c2)) - f2>>
          BY <3>3, <3>5, <3>6 DEF Site!Offset
        <4> QED BY <4>1
      <3>8. Site!Offset(e.at) = <<d1 - c1, d2 - c2>>
        BY <3>4 DEF Site!Offset
      <3>9. f # g
        <4>1. c1 # d1 \/ c2 # d2
          BY <1>2, <3>4
        <4> QED BY <3>5, <3>6, <4>1
      <3> QED BY <3>1, <3>3, <3>7, <3>8, <3>9 DEF Clean
    <2> QED BY <2>1, <2>2
  <1> QED BY <1>1, <1>6 DEF Smooth

\* No option that moves manipulates anything.
LEMMA OptionMoves ==
    ASSUME NEW e, NEW o, Size \in Nat PROVE Moving(Site!ActionsFor(e, o))
  <1>1. Site!Open \in SUBSET Site!Grid
    BY DEF Site!Open
  <1>2. \A c, d : \A C \in SUBSET Site!Grid : Site!Towards(c, d, C) \notin Site!Terminal
    BY TowardsOpen DEF Site!Directions, Site!Terminal
  <1>3. "stay" \notin Site!Terminal
    BY DEF Site!Terminal
  <1>4. ASSUME NEW t PROVE Moving(Site!JointTowards(e, t))
    <2>1. \A i : Site!Around(e, t, i) \notin Site!Terminal
      BY <1>1, <1>2 DEF Site!Around
    <2>2. \A i : Moving(Site!Alone(i, Site!Around(e, t, i)))
      BY <1>3, <2>1 DEF Site!Alone, Moving
    <2>3. Moving(Site!EachOnItsOwn(e, t))
      BY <1>1, <1>2 DEF Site!EachOnItsOwn, Moving
    <2> QED BY <2>2, <2>3 DEF Site!JointTowards, Site!Resolved
  <1>5. ASSUME NEW t PROVE Moving(Site!RigidTowards(e, t))
    <2> DEFINE p == Site!Offset(e.at)
               open == {c \in Site!Open : <<c[1] + p[1], c[2] + p[2]>> \in Site!Open}
    <2>1. open \in SUBSET Site!Grid
      BY <1>1
    <2>2. Site!RigidTowards(e, t) =
            LET b == IF p = Site!Offset(t) THEN Site!Towards(e.at[1], t[1], open) ELSE "stay"
            IN <<b, b>>
      BY DEF Site!RigidTowards
    <2> HIDE DEF open, p
    <2> QED BY <1>2, <1>3, <2>1, <2>2 DEF Moving
  <1> QED BY <1>4, <1>5 DEF Site!ActionsFor

\* An option for robots that hold a part, or for robots that do not.
Suits(o, e) == e.carrying <=> (o = "assembly" \/ (o = "align" /\ e.carrying))

LEMMA OptionIsSmooth ==
    ASSUME NEW e, Placed(e.at), NEW o, Suits(o, e), Size \in Nat
    PROVE  LET a == Site!ActionsFor(e, o) IN Smooth(e, a)
  <1>1. CASE e.carrying
    <2>1. Site!ActionsFor(e, o) = Site!RigidTowards(e, Site!Target(e, o))
      BY <1>1 DEF Site!ActionsFor, Suits
    <2> QED BY <1>1, <2>1, RigidIsSmooth
  <1>2. CASE ~e.carrying
    <2>1. Site!ActionsFor(e, o) = Site!JointTowards(e, Site!Target(e, o))
      BY <1>2 DEF Site!ActionsFor, Suits
    <2> QED BY <1>2, <2>1, JointIsSmooth
  <1> QED BY <1>1, <1>2

-----------------------------------------------------------------------------
(* Steps that harm nothing.                                                *)

Spotless(e) == e.collisions = 0 /\ e.invalid = 0
SameMarks(e, m) == m.collisions = e.collisions /\ m.invalid = e.invalid /\ m.steps = e.steps

LEMMA StandingIsSmooth ==
    ASSUME NEW e, Placed(e.at), NEW x, x \notin Site!Directions PROVE Smooth(e, <<x, x>>)
  <1>1. PICK c \in Site!Open, d \in Site!Open : e.at = <<c, d>> /\ c # d
    BY DEF Placed
  <1>2. Site!Move(e.at[1], x) = c /\ Site!Move(e.at[2], x) = d
    BY <1>1, StayIs
  <1> QED BY <1>1, <1>2 DEF Smooth, Clean

LEMMA AttemptMarks ==
    ASSUME NEW e, IsEnv(e), NEW act
    PROVE  IsEnv(Site!Attempt(e, act)) /\ SameMarks(e, Site!Attempt(e, act))
  <1> DEFINE k == <<Site!Part(e), act>>
             queued == e.queued[k] > 0
             tried == [e EXCEPT !.attempts[k] = @ + 1, !.queued[k] = IF queued THEN @ - 1 ELSE @]
             failed == [tried EXCEPT !.failures = @ + 1, !.failed = @ \cup {k}]
             ok == IF k \in e.failed \ e.recovered
                   THEN [tried EXCEPT !.recoveries = @ + 1, !.recovered = @ \cup {k}]
                   ELSE tried
             took == [ok EXCEPT !.carrying = TRUE]
             built == [ok EXCEPT !.carrying = FALSE, !.index = @ + 1,
                                 !.installed = Append(@, Site!Part(e))]
             m == Site!Attempt(e, act)
  <1>1. m = failed \/ m = (IF act = "grasp" THEN took ELSE built)
    BY DEF Site!Attempt
  <1>2. IsEnv(tried) /\ SameMarks(e, tried)
    BY DEF IsEnv, Fields, SameMarks
  <1> HIDE DEF tried
  <1>3. IsEnv(failed) /\ SameMarks(e, failed)
    BY <1>2 DEF IsEnv, Fields, SameMarks
  <1>4. IsEnv(ok) /\ SameMarks(e, ok)
    BY <1>2 DEF IsEnv, Fields, SameMarks
  <1> HIDE DEF ok
  <1>5. /\ IsEnv(took) /\ SameMarks(e, took)
        /\ IsEnv(built) /\ SameMarks(e, built)
    BY <1>4 DEF IsEnv, Fields, SameMarks
  <1> HIDE DEF failed, took, built, m
  <1> QED BY <1>1, <1>3, <1>5 DEF m

LEMMA CheckMarks ==
    ASSUME NEW e, IsEnv(e), NEW a, NEW firm PROVE SameMarks(e, Site!Checked(e, a, firm))
  <1> DEFINE act == IF Site!Both(a, "grab") THEN "grasp" ELSE "install"
             q == [e EXCEPT !.queued[<<Site!Part(e), act>>] = @ + 1]
  <1>1. Site!Checked(e, a, firm) \in {e, q}
    BY DEF Site!Checked
  <1>2. SameMarks(e, q) /\ SameMarks(e, e)
    BY DEF IsEnv, Fields, SameMarks
  <1> HIDE DEF q
  <1> QED BY <1>1, <1>2

\* Moving leaves the clock, and the marks unless something is run into.
LEMMA MoveMarks ==
    ASSUME NEW e, IsEnv(e), Placed(e.at), NEW a, Size \in Nat
    PROVE  LET m == IF e.carrying THEN Site!StepCarrying(e, a) ELSE Site!StepIndependent(e, a)
           IN  /\ m.steps = e.steps
               /\ Spotless(e) /\ Smooth(e, a) => Spotless(m)
  <1>1. CASE e.carrying
    <2> DEFINE to == <<Site!Move(e.at[1], a[1]), Site!Move(e.at[2], a[1])>>
               m == Site!StepCarrying(e, a)
               turned == [e EXCEPT !.deadlocks = @ + 1]
               struck == [e EXCEPT !.collisions = @ + 1, !.hits = @ + 1]
               closed == [e EXCEPT !.collisions = @ + 1]
               bent == [e EXCEPT !.invalid = @ + 1]
               moved == [e EXCEPT !.at = to]
    <2>1. m = CASE a[1] # a[2] -> turned
                [] a[1] \in Site!Terminal /\ a[1] = a[2] -> e
                [] OTHER -> IF \E i \in Site!Pair : to[i] \in site.obstacles THEN struck
                            ELSE IF to[1] = to[2] THEN closed
                            ELSE IF Site!Offset(to) # Site!Offset(e.at) THEN bent ELSE moved
      BY DEF Site!StepCarrying
    <2>2. \A x \in {turned, struck, closed, bent, moved, e} : x.steps = e.steps
      BY DEF IsEnv, Fields
    <2>3. \A x \in {moved, e} : Spotless(e) => Spotless(x)
      BY DEF IsEnv, Fields, Spotless
    <2> HIDE DEF turned, struck, closed, bent, moved
    <2>4. ASSUME Smooth(e, a) PROVE m \in {moved, e}
      <3>1. a[1] = a[2] /\ Clean(e, to)
        BY <1>1, <2>4 DEF Smooth
      <3> HIDE DEF to
      <3>2. \A i \in Site!Pair : to[i] \notin site.obstacles
        BY <3>1 DEF Clean, Site!Open, Site!Pair
      <3> QED BY <1>1, <2>1, <3>1, <3>2 DEF Clean
    <2>5. m \in {turned, struck, closed, bent, moved, e}
      <3> HIDE DEF to
      <3> QED BY <2>1
    <2> HIDE DEF m
    <2> QED BY <1>1, <2>2, <2>3, <2>4, <2>5 DEF m
  <1>2. CASE ~e.carrying
    <2> DEFINE Mv(i) == Site!Move(e.at[i], a[i])
               hit == {i \in Site!Pair : Mv(i) \in site.obstacles \ {e.at[i]}}
               To(i) == IF i \in hit THEN e.at[i] ELSE Mv(i)
               to == <<To(1), To(2)>>
               met == to[1] = to[2] \/ (to[1] = e.at[2] /\ to[2] = e.at[1])
               bump == IF met THEN Site!Cardinality(hit) + 1 ELSE Site!Cardinality(hit)
               m == Site!StepIndependent(e, a)
    <2>1. m.steps = e.steps /\ m.invalid = e.invalid /\ m.collisions = e.collisions + bump
      <3> HIDE DEF Mv
      <3> QED BY DEF Site!StepIndependent, IsEnv, Fields, Mv
    <2> HIDE DEF m
    <2>2. ASSUME Smooth(e, a) PROVE bump = 0
      <3> DEFINE go == <<Site!Move(e.at[1], a[1]), Site!Move(e.at[2], a[2])>>
      <3>1. Clean(e, go)
        BY <2>2 DEF Smooth
      <3>2. go[1] = Mv(1) /\ go[2] = Mv(2)
        OBVIOUS
      <3> HIDE DEF Mv, go
      <3>3. hit = {}
        BY <3>1, <3>2 DEF Clean, Site!Open, Site!Pair
      <3>4. To(1) = Mv(1) /\ To(2) = Mv(2)
        BY <3>3
      <3>5. ~met
        BY <1>2, <3>1, <3>2, <3>4 DEF Clean
      <3>6. Site!Cardinality(hit) = 0
        BY <3>3, FS_EmptySet, SiteOperators
      <3> QED BY <3>5, <3>6
    <2> QED BY <1>2, <2>1, <2>2 DEF m, Spotless
  <1>3. e.carrying \/ ~e.carrying
    OBVIOUS
  <1> QED BY <1>1, <1>2, <1>3

\* What a step does to the clock, to what is carried, and to the marks.
LEMMA StepTells ==
    ASSUME NEW e, NEW a, NEW firm, Size \in Nat, SiteOK(site), OrderOK(order, site),
           run.active \in 0..Len(order),
           EpisodeOK(e, site, order, run.active), NoneQueued(e, site), e.index < run.active
    PROVE  LET m == Site!Step(Site!Checked(e, a, firm), a)
           IN  /\ m.steps = e.steps + 1
               /\ Moving(a) => m.carrying = e.carrying
               /\ /\ Spotless(e) /\ Smooth(e, a)
                  /\ ~e.carrying /\ Site!Both(a, "grab") => Due(e, "grasp")
                  /\ e.carrying /\ Site!Both(a, "install") => Due(e, "install")
                  => Spotless(m)
  <1> DEFINE c == Site!Checked(e, a, firm)
             moved == IF c.carrying THEN Site!StepCarrying(c, a) ELSE Site!StepIndependent(c, a)
             grasps == ~c.carrying /\ Site!Both(a, "grab")
             grasped == IF grasps THEN Site!Manipulate(moved, Site!Pickup(c), "grasp") ELSE moved
             installs == grasped.carrying /\ Site!Both(a, "install")
             ended == IF installs THEN Site!Manipulate(grasped, Site!Assembly(c), "install") ELSE grasped
             m == Site!Step(c, a)
  <1>1. /\ IsEnv(c) /\ c.at = e.at /\ c.index = e.index /\ c.carrying = e.carrying
        /\ EpisodeOK(c, site, order, run.active)
    BY ChecksSound
  <1>2. SameMarks(e, c)
    BY CheckMarks DEF EpisodeOK
  <1>3. Site!Part(c) = order[e.index + 1]
    <2>1. e.index \in Nat /\ run.active \in Nat
      BY DEF EpisodeOK, PlaceOK, OrderOK, Sorted
    <2>2. c.index \in Nat /\ c.index < run.active
      BY <1>1, <2>1
    <2>3. Site!Part(c) = order[c.index + 1]
      <3> HIDE DEF c
      <3> QED BY <2>1, <2>2, PartIs
    <2> QED BY <1>1, <2>3
  <1>4. \E w : m = [ended EXCEPT !.wasted = w, !.steps = @ + 1]
    BY DEF Site!Step
  <1>5. Placed(c.at)
    BY <1>1 DEF EpisodeOK, Standing, Placed, Site!Open
  <1> HIDE DEF c, m
  <1>6. /\ IsEnv(moved) /\ SameBooks(c, moved)
        /\ c.carrying /\ Site!Both(a, "install") => moved = c
        /\ ~c.carrying /\ Site!Both(a, "grab") => moved.at = c.at
    BY <1>1, <1>5, FreeSteps, RigidSteps
  <1>7. moved.steps = c.steps /\ (Spotless(c) /\ Smooth(c, a) => Spotless(moved))
    BY <1>1, <1>5, MoveMarks
  <1>8. moved.carrying = e.carrying
    BY <1>1, <1>6 DEF SameBooks
  <1> HIDE DEF moved
  <1>9. Smooth(e, a) => Smooth(c, a)
    BY <1>1 DEF Smooth, Clean
  <1>10. \A x : IsEnv(x) => LET y == [x EXCEPT !.invalid = @ + 1] IN IsEnv(y) /\ y.steps = x.steps
    BY DEF IsEnv, Fields
  \* A manipulation takes no time, and is charged for where it is not due.
  <1>11. ASSUME NEW x, IsEnv(x), NEW cells, NEW act
         PROVE  /\ Site!Manipulate(x, cells, act).steps = x.steps
                /\ Spotless(x) /\ x.at = cells => Spotless(Site!Manipulate(x, cells, act))
    <2>1. SameMarks(x, Site!Attempt(x, act))
      BY <1>11, AttemptMarks
    <2>2. CASE x.at = cells
      BY <2>1, <2>2 DEF Site!Manipulate, Site!At, SameMarks, Spotless
    <2>3. CASE x.at # cells
      BY <1>10, <1>11, <2>3 DEF Site!Manipulate, Site!At
    <2> QED BY <2>2, <2>3
  <1>12. IsEnv(ended) /\ ended.steps = e.steps
    <2>1. ASSUME NEW x, IsEnv(x), NEW cells, NEW act PROVE IsEnv(Site!Manipulate(x, cells, act))
      <3>1. ASSUME x.at = cells PROVE Site!Manipulate(x, cells, act) = Site!Attempt(x, act)
        BY <3>1 DEF Site!Manipulate, Site!At
      <3>2. IsEnv(Site!Attempt(x, act))
        BY <2>1, AttemptMarks
      <3>3. CASE x.at # cells
        BY <1>10, <2>1, <3>3 DEF Site!Manipulate, Site!At
      <3> QED BY <3>1, <3>2, <3>3
    <2>2. IsEnv(grasped) /\ grasped.steps = e.steps
      <3>1. moved.steps = e.steps
        BY <1>2, <1>7 DEF SameMarks
      <3>2. LET y == Site!Manipulate(moved, Site!Pickup(c), "grasp") IN IsEnv(y) /\ y.steps = moved.steps
        BY <1>6, <1>11, <2>1
      <3> QED BY <1>6, <3>1, <3>2
    <2> HIDE DEF grasped
    <2>3. LET y == Site!Manipulate(grasped, Site!Assembly(c), "install") IN IsEnv(y) /\ y.steps = grasped.steps
      BY <1>11, <2>1, <2>2
    <2> QED BY <2>2, <2>3
  <1>13. /\ m.steps = e.steps + 1 /\ m.carrying = ended.carrying
         /\ Spotless(ended) => Spotless(m)
    <2> HIDE DEF ended
    <2> QED BY <1>4, <1>12 DEF IsEnv, Fields, Spotless
  <1>14. ASSUME Moving(a) PROVE m.carrying = e.carrying
    <2>1. ~Site!Both(a, "grab") /\ ~Site!Both(a, "install")
      BY <1>14 DEF Moving, Site!Both, Site!Terminal
    <2>2. ended = moved
      BY <2>1
    <2> HIDE DEF ended
    <2> QED BY <1>8, <1>13, <2>2
  <1>15. ASSUME Spotless(e), Smooth(e, a),
                ~e.carrying /\ Site!Both(a, "grab") => Due(e, "grasp"),
                e.carrying /\ Site!Both(a, "install") => Due(e, "install")
         PROVE  Spotless(m)
    <2>1. Spotless(moved)
      BY <1>2, <1>7, <1>9, <1>15 DEF Spotless, SameMarks
    <2>2. ~Site!Both(a, "grab") \/ ~Site!Both(a, "install")
      BY DEF Site!Both
    <2>3. CASE grasps
      <3>1. moved.at = Site!Pickup(c)
        BY <1>1, <1>3, <1>6, <1>15, <2>3 DEF Due, Site!Pickup
      <3>2. ended = Site!Manipulate(moved, Site!Pickup(c), "grasp")
        BY <2>2, <2>3
      <3> HIDE DEF ended
      <3> QED BY <1>6, <1>11, <1>13, <2>1, <3>1, <3>2
    <2>4. CASE ~grasps
      <3>1. CASE installs
        <4>1. moved.carrying /\ c.carrying /\ moved = c
          BY <1>1, <1>6, <1>8, <2>4, <3>1
        <4>2. moved.at = Site!Assembly(c)
          BY <1>1, <1>3, <1>15, <2>4, <3>1, <4>1 DEF Due, Site!Assembly
        <4>3. ended = Site!Manipulate(moved, Site!Assembly(c), "install")
          BY <2>4, <3>1
        <4> HIDE DEF ended
        <4> QED BY <1>6, <1>11, <1>13, <2>1, <4>2, <4>3
      <3>2. CASE ~installs
        <4>1. ended = moved
          BY <2>4, <3>2
        <4> HIDE DEF ended
        <4> QED BY <1>13, <2>1, <4>1
      <3> QED BY <3>1, <3>2
    <2> QED BY <2>3, <2>4
  <1> QED BY <1>13, <1>14, <1>15 DEF m, c

-----------------------------------------------------------------------------
(* What is complete, and what waits for what.                              *)

\* No two parts belong to one place.
TwoCells(pair) == {pair[1], pair[2]}
PlacesApart(s) ==
    \A p, q \in Site!Parts(s) : p # q => TwoCells(s.assembly[p]) # TwoCells(s.assembly[q])

LEMMA PlacesReserved ==
    ASSUME NEW s, SiteOK(s), IsInjective(Site!Reserved(s)) PROVE PlacesApart(s)
  <1>1. PICK n \in Nat : DOMAIN s.needs = 1..n
    BY DEF SiteOK
  <1>2. s.pickup \in [1..n -> [1..2 -> Point]] /\ s.assembly \in [1..n -> [1..2 -> Point]]
    <2>1. \A x \in Spots : x \in [1..2 -> Point]
      BY DEF Spots
    <2> QED BY <1>1, <2>1 DEF SiteOK
  <1> DEFINE F == FlattenSeq(s.pickup)
             G == FlattenSeq(s.assembly)
  <1>3. PICK m \in Nat : m = n * 2
    OBVIOUS
  <1>4. F \in [1..m -> Point] /\ G \in [1..m -> Point]
        /\ \A p \in 1..n, j \in 1..2 : (p - 1) * 2 + j \in 1..m /\ G[(p - 1) * 2 + j] = s.assembly[p][j]
    <2>1. PICK k \in Nat : k = 2
      OBVIOUS
    <2>2. /\ F \in [1..(n * k) -> Point] /\ G \in [1..(n * k) -> Point]
          /\ Follow(G, s.assembly, n, k)
      BY <1>2, <2>1, EqualPieces
    <2> HIDE DEF F, G
    <2> QED BY <1>3, <2>1, <2>2 DEF Follow
  <1>5. F \in Seq(Point) /\ G \in Seq(Point) /\ Len(F) = m /\ Len(G) = m
        /\ s.starts \in Seq(Point) /\ Len(s.starts) = 2
    <2>1. \A x \in Spots : x \in Seq(Point) /\ Len(x) = 2
      <3> TAKE x \in Spots
      <3>1. PICK c \in Point, d \in Point : x = <<c, d>>
        BY DEF Spots
      <3>2. <<c, d>> \in Seq(Point) /\ Len(<<c, d>>) = 2
        OBVIOUS
      <3> QED BY <3>1, <3>2
    <2> HIDE DEF F, G
    <2> QED BY <1>4, <2>1 DEF SiteOK
  <1> HIDE DEF F, G
  <1> DEFINE Q == s.starts \o F
             R == Q \o G
  <1>6. Q \in Seq(Point) /\ Len(Q) = 2 + m
    <2>1. PICK t \in Seq(Point) : t = s.starts /\ Len(t) = 2
      BY <1>5
    <2>2. t \o F \in Seq(Point) /\ Len(t \o F) = Len(t) + Len(F)
      BY <1>5, ConcatProperties
    <2> QED BY <1>5, <2>1, <2>2
  <1> HIDE DEF Q
  <1>7. /\ R \in Seq(Point) /\ Len(R) = 2 + m + m
        /\ \A k \in 1..m : 2 + m + k \in DOMAIN R /\ R[2 + m + k] = G[k]
    <2>1. /\ R \in Seq(Point) /\ Len(R) = Len(Q) + Len(G)
          /\ \A i \in 1..(Len(Q) + Len(G)) : R[i] = IF i <= Len(Q) THEN Q[i] ELSE G[i - Len(Q)]
      BY <1>5, <1>6, ConcatProperties
    <2> HIDE DEF R
    <2>2. ASSUME NEW k \in 1..m PROVE 2 + m + k \in DOMAIN R /\ R[2 + m + k] = G[k]
      <3>1. /\ 2 + m + k \in 1..(Len(Q) + Len(G)) /\ ~(2 + m + k <= Len(Q))
            /\ (2 + m + k) - Len(Q) = k
        BY <1>5, <1>6
      <3> QED BY <2>1, <3>1
    <2> QED BY <1>5, <1>6, <2>1, <2>2
  <1>8. Site!Reserved(s) = R
    BY SiteOperators DEF Site!Reserved, Q, F, G
  <1> HIDE DEF R
  <1>9. \A i, j \in DOMAIN R : R[i] = R[j] => i = j
    BY <1>8 DEF IsInjective
  <1>10. ASSUME NEW p \in 1..n, NEW q \in 1..n, p # q, NEW j \in 1..2 PROVE s.assembly[p][1] # s.assembly[q][j]
    <2>1. PICK a \in 1..m, b \in 1..m : a = (p - 1) * 2 + 1 /\ b = (q - 1) * 2 + j
      <3>1. 1 \in 1..2
        OBVIOUS
      <3> QED BY <1>4, <3>1
    <2>2. s.assembly[p][1] = G[a] /\ s.assembly[q][j] = G[b]
      <3>1. 1 \in 1..2
        OBVIOUS
      <3> QED BY <1>4, <2>1, <3>1
    <2>3. 2 + m + a # 2 + m + b
      BY <1>10, <2>1
    <2> QED BY <1>7, <1>9, <2>2, <2>3
  <1>11. ASSUME NEW p \in 1..n, NEW q \in 1..n, p # q
         PROVE  TwoCells(s.assembly[p]) # TwoCells(s.assembly[q])
    <2>1. s.assembly[p][1] # s.assembly[q][1] /\ s.assembly[p][1] # s.assembly[q][2]
      BY <1>10, <1>11
    <2> QED BY <2>1 DEF TwoCells
  <1> QED BY <1>1, <1>11 DEF PlacesApart, Site!Parts

\* Of the slots in their order, those are completed whose parts are installed.
LEMMA SlotsCompleted ==
    ASSUME SiteOK(site), PlacesApart(site), OrderOK(order, site), NEW n \in 1..Len(order),
           NEW e, PlaceOK(e, order, n), NEW i \in 1..Len(order)
    PROVE  Site!SlotCompleted(e, order[i]) <=> i <= e.index
  <1>1. e.index \in Nat /\ e.index <= Len(order) /\ Site!Range(e.installed) = Beginning(order, e.index)
    <2>1. n \in 0..Len(order)
      OBVIOUS
    <2>2. PICK s, o : s = site /\ o = order
      OBVIOUS
    <2> QED BY <2>1, <2>2, BuiltIs
  <1>2. \A k \in 1..Len(order) : order[k] \in Site!Parts(site)
    BY DEF OrderOK, Sorted
  <1>3. \A p \in Site!Parts(site) : Site!Range(site.assembly[p]) = TwoCells(site.assembly[p])
    <2> TAKE p \in Site!Parts(site)
    <2>1. PICK c, d : site.assembly[p] = <<c, d>>
      BY DEF SiteOK, Spots, Site!Parts
    <2> QED BY <2>1 DEF Site!Range, TwoCells
  <1>4. ASSUME i <= e.index PROVE Site!SlotCompleted(e, order[i])
    BY <1>1, <1>4 DEF Site!SlotCompleted, Beginning
  <1>5. ASSUME Site!SlotCompleted(e, order[i]) PROVE i <= e.index
    <2>1. PICK k \in 1..e.index : \/ order[k] = order[i]
                                  \/ Site!Range(site.assembly[order[k]]) = Site!Range(site.assembly[order[i]])
      BY <1>1, <1>5 DEF Site!SlotCompleted, Beginning
    <2>2. k \in 1..Len(order)
      BY <1>1
    <2>3. order[k] = order[i]
      BY <1>2, <1>3, <2>1, <2>2 DEF PlacesApart
    <2>4. k = i
      BY <2>2, <2>3 DEF OrderOK, Sorted
    <2> QED BY <1>1, <2>4
  <1> QED BY <1>4, <1>5

\* No part that is due waits for another, and all is complete with the last slot.
LEMMA NothingWaits ==
    ASSUME SiteOK(site), PlacesApart(site), OrderOK(order, site), run.active \in 1..Len(order),
           NEW e, PlaceOK(e, order, run.active)
    PROVE  /\ ~Site!Blocked(e)
           /\ Site!Complete(e) <=> \A i \in 1..run.active : Site!SlotCompleted(e, order[i])
  <1>1. /\ e.index \in 0..run.active /\ run.active \in Nat \ {0} /\ Len(order) \in Nat
        /\ run.active <= Len(order)
    BY DEF PlaceOK, OrderOK, Sorted
  <1>2. \A i \in 1..Len(order) : Site!SlotCompleted(e, order[i]) <=> i <= e.index
    BY SlotsCompleted
  <1>3. ASSUME Site!Blocked(e) PROVE FALSE
    <2>1. e.index < run.active /\ \E p \in site.needs[Site!Part(e)] : ~Site!SlotCompleted(e, p)
      BY <1>1, <1>3 DEF Site!Blocked, Site!Complete
    <2>2. Site!Part(e) = order[e.index + 1]
      <3>1. e.index \in Nat /\ run.active \in Nat
        BY <1>1
      <3> QED BY <2>1, <3>1, PartIs
    <2>3. e.index + 1 \in 1..Len(order)
      BY <1>1, <2>1
    <2>4. site.needs[order[e.index + 1]] \subseteq {order[j] : j \in 1..((e.index + 1) - 1)}
      BY <2>3 DEF OrderOK, Sorted
    <2>5. \A j \in 1..((e.index + 1) - 1) : j \in 1..Len(order) /\ j <= e.index
      BY <1>1, <2>1
    <2> QED BY <1>2, <2>1, <2>2, <2>4, <2>5
  <1>4. \A i \in 1..run.active : i \in 1..Len(order)
    BY <1>1
  <1>5. Site!Complete(e) <=> run.active <= e.index
    BY <1>1 DEF Site!Complete
  <1>6. run.active \in 1..run.active
    BY <1>1
  <1>7. ASSUME run.active <= e.index, NEW i \in 1..run.active PROVE i <= e.index
    BY <1>1, <1>7
  <1> QED BY <1>2, <1>3, <1>4, <1>5, <1>6, <1>7

-----------------------------------------------------------------------------
(* What the loops rely on.                                                 *)

\* What a script takes at once is due, what takes it longer suits its hands, and it is
\* already there only where it is to clear a place that it cannot clear.
Stuck(e) == ~Site!Complete(e) /\ Site!ShouldReposition(e) /\ Site!At(e, Site!Clear(e))

LEMMA AtOnceIs ==
    /\ DOMAIN Site!AtOnce = {"wait", "grab", "install"}
    /\ Site!AtOnce["wait"] = "stay" /\ Site!AtOnce["grab"] = "grab" /\ Site!AtOnce["install"] = "install"
  BY DEF Site!AtOnce, Site!Terminal

LEMMA ScriptTells ==
    ASSUME NEW e, e.carrying \in BOOLEAN
    PROVE  LET o == Site!Scripted(e)
           IN  /\ o = "grab" => ~e.carrying /\ Site!At(e, Site!Pickup(e))
               /\ o = "install" => e.carrying /\ Site!At(e, Site!Assembly(e))
               /\ o \notin DOMAIN Site!AtOnce => Suits(o, e)
               /\ o \notin DOMAIN Site!AtOnce /\ Site!At(e, Site!Target(e, o)) => Stuck(e)
  <1> DEFINE o == Site!Scripted(e)
  <1>1. /\ o = IF Site!Complete(e) THEN "wait"
               ELSE IF Site!ShouldReposition(e) THEN "reposition"
               ELSE IF Site!ShouldReset(e) THEN "reset"
               ELSE IF Site!At(e, Site!Goal(e)) THEN (IF e.carrying THEN "install" ELSE "grab")
               ELSE IF Site!Distance(e, Site!Goal(e)) <= 2 THEN "align"
               ELSE IF e.carrying THEN "assembly" ELSE "pickup"
        /\ Site!ShouldReposition(e) \/ Site!ShouldReset(e) => ~e.carrying
    BY ScriptIs
  <1> HIDE DEF o
  <1>2. o = "grab" => ~e.carrying /\ Site!At(e, Site!Pickup(e))
    BY <1>1 DEF Site!Goal
  <1>3. o = "install" => e.carrying /\ Site!At(e, Site!Assembly(e))
    BY <1>1 DEF Site!Goal
  <1>4. o \notin DOMAIN Site!AtOnce => Suits(o, e)
    BY <1>1, AtOnceIs DEF Suits
  <1>5. ASSUME o \notin DOMAIN Site!AtOnce, Site!At(e, Site!Target(e, o)) PROVE Stuck(e)
    <2>1. CASE o = "reposition"
      <3>1. ~Site!Complete(e) /\ Site!ShouldReposition(e)
        BY <1>1, <2>1
      <3>2. Site!Target(e, o) = Site!Clear(e)
        BY <2>1 DEF Site!Target
      <3> QED BY <1>5, <3>1, <3>2 DEF Stuck
    <2>2. CASE o = "reset"
      <3>1. ~Site!At(e, Site!Staging(e))
        BY <1>1, <2>2 DEF Site!ShouldReset
      <3>2. Site!Target(e, o) = Site!Staging(e)
        BY <2>2 DEF Site!Target
      <3> QED BY <1>5, <3>1, <3>2
    <2>3. CASE o \in {"align", "assembly", "pickup"}
      <3>1. ~Site!At(e, Site!Goal(e)) /\ (o = "assembly" => e.carrying) /\ (o = "pickup" => ~e.carrying)
        BY <1>1, <2>3
      <3>2. Site!Target(e, o) = Site!Goal(e)
        BY <2>3, <3>1 DEF Site!Target, Site!Goal
      <3> QED BY <1>5, <3>1, <3>2
    <2> QED BY <1>1, <1>5, <2>1, <2>2, <2>3, AtOnceIs
  <1> QED BY <1>2, <1>3, <1>4, <1>5 DEF o

\* Where a script is stuck, a brain is too, and the next part lies where AssemblyEnv says.
LEMMA StuckIs ==
    ASSUME SiteOK(site), PlacesApart(site), OrderOK(order, site), run.active \in 1..Len(order),
           NEW e, PlaceOK(e, order, run.active), Stuck(e)
    PROVE  /\ Site!Pickup(e)[1][1] + 1 = site.assembly[Site!Previous(e)][1][1]
           /\ Site!Scripted(e) = "reposition" /\ \A u : Site!Decided(e, u) = "reposition"
           /\ Site!At(e, Site!Target(e, "reposition"))
  <1>1. /\ ~Site!Complete(e) /\ Site!ShouldReposition(e) /\ Site!At(e, Site!Clear(e))
        /\ ~e.carrying /\ e.index > 0 /\ e.at = site.assembly[Site!Previous(e)]
    BY DEF Stuck, Site!ShouldReposition, Site!At
  <1>2. /\ e.index \in Nat /\ run.active \in Nat /\ e.index < run.active /\ e.carrying \in BOOLEAN
        /\ e.index + 1 \in 1..Len(order) /\ e.index \in 1..Len(order)
    BY <1>1 DEF PlaceOK, OrderOK, Sorted, Site!Complete
  <1>3. Site!Part(e) = order[e.index + 1] /\ Site!Previous(e) = order[e.index]
    BY <1>2, PartIs DEF Site!Previous
  <1>4. Site!Part(e) \in DOMAIN site.needs /\ Site!Previous(e) \in DOMAIN site.needs
    BY <1>2, <1>3 DEF OrderOK, Sorted, Site!Parts
  <1>5. PICK p1, p2, p3 : p1 \in Int /\ Site!Pickup(e) = <<<<p1, p2>>, p3>>
    <2>1. Site!Pickup(e) \in Spots
      BY <1>4 DEF SiteOK, Site!Pickup
    <2> QED BY <2>1 DEF Spots, Point
  <1>6. PICK b1, b2, b3 : b1 \in Int /\ e.at = <<<<b1, b2>>, b3>> /\ site.assembly[Site!Previous(e)] = <<<<b1, b2>>, b3>>
    <2>1. site.assembly[Site!Previous(e)] \in Spots
      BY <1>4 DEF SiteOK
    <2> QED BY <1>1, <2>1 DEF Spots, Point
  <1>7. Site!Clear(e) = Site!Column(Site!Max({p1 + 1, b1 - 1}), site.assembly[Site!Previous(e)])
    BY <1>1, <1>2, <1>5, <1>6 DEF Site!Clear
  <1>8. Site!Max({p1 + 1, b1 - 1}) = b1
    <2>1. e.at = Site!Clear(e)
      BY <1>1 DEF Site!At
    <2>2. Site!Clear(e)[1][1] = Site!Max({p1 + 1, b1 - 1})
      BY <1>7 DEF Site!Column
    <2> QED BY <1>6, <2>1, <2>2
  <1>9. p1 + 1 = b1
    <2>1. PICK x \in Int, y \in Int : x = p1 + 1 /\ y = b1 - 1
      BY <1>5, <1>6
    <2>2. Site!Max({x, y}) = IF x <= y THEN y ELSE x
      BY PairMax
    <2> QED BY <1>8, <2>1, <2>2
  <1>10. Site!Scripted(e) = "reposition"
    BY <1>1, ScriptIs
  <1>11. ~Site!At(e, Site!Goal(e))
    BY <1>1, <1>5, <1>6, <1>9 DEF Site!At, Site!Goal
  <1>12. Site!Mask(e) \cap Site!Terminal = {}
    <2>1. "grab" \notin Site!Mask(e) /\ "install" \notin Site!Mask(e)
      BY <1>2, <1>11, OfferedIs
    <2> QED BY <2>1 DEF Site!Terminal
  <1>13. \A u : Site!Decided(e, u) = "reposition"
    <2>1. ~Site!Blocked(e)
      BY NothingWaits
    <2>2. Site!Structured(e) = "reposition"
      BY <1>2, <1>10, PlannersChooseAlike
    <2> QED BY <1>12, <2>1, <2>2 DEF Site!Decided, Site!HoldReason
  <1>14. Site!Target(e, "reposition") = Site!Clear(e)
    BY DEF Site!Target
  <1> QED BY <1>1, <1>5, <1>6, <1>9, <1>10, <1>13, <1>14

\* When the milestones of an episode were passed.
MilestonesOK(m, e) ==
    /\ m.first \in Nat /\ m.pickup \in Nat /\ m.second \in Nat
    /\ m.first <= e.steps /\ m.pickup <= e.steps /\ m.second <= e.steps
    /\ m.first > 0 <=> e.index > 0
    /\ m.second > 0 <=> e.index > 1
    /\ m.pickup > 0 => m.first > 0 /\ m.first < m.pickup
    /\ m.second > 0 => m.pickup > 0 /\ m.pickup < m.second
    /\ e.index = 1 /\ e.carrying => m.pickup > 0

LEMMA RecordIs ==
    ASSUME NEW r, DOMAIN r = LoopFields, NEW o, NEW e, NEW m
    PROVE  LET q == Site!Record(r, o, e, m)
               Mark(old, happened, place) == IF happened /\ e.index = place /\ old = 0 THEN m.steps ELSE old
           IN  /\ DOMAIN q = LoopFields /\ q.active = r.active /\ q.phase = r.phase
               /\ q.decisions = r.decisions /\ q.option = r.option
               /\ q.milestones.first = Mark(r.milestones.first, m.index > e.index, 0)
               /\ q.milestones.pickup = Mark(r.milestones.pickup, ~e.carrying /\ m.carrying, 1)
               /\ q.milestones.second = Mark(r.milestones.second, m.index > e.index, 1)
  BY DEF LoopFields, Site!Record

LEMMA MilestonesGoOn ==
    ASSUME NEW o, NEW e, NEW m, NEW r, DOMAIN r = LoopFields, MilestonesOK(r.milestones, e),
           e.steps \in Nat, m.steps = e.steps + 1, e.index \in Nat,
           e.carrying \in BOOLEAN, m.carrying \in BOOLEAN, Progress(e, m)
    PROVE  MilestonesOK(Site!Record(r, o, e, m).milestones, m)
  <1> DEFINE k == r.milestones
             q == Site!Record(r, o, e, m).milestones
             Mark(old, happened, place) == IF happened /\ e.index = place /\ old = 0 THEN m.steps ELSE old
  <1>1. /\ q.first = Mark(k.first, m.index > e.index, 0)
        /\ q.pickup = Mark(k.pickup, ~e.carrying /\ m.carrying, 1)
        /\ q.second = Mark(k.second, m.index > e.index, 1)
    BY RecordIs
  <1> HIDE DEF q
  <1>2. CASE e.carrying /\ ~m.carrying
    <2>1. m.index = e.index + 1
      BY <1>2 DEF Progress
    <2> QED BY <1>1, <1>2, <2>1 DEF MilestonesOK, q
  <1>3. CASE ~e.carrying /\ m.carrying
    <2>1. m.index = e.index
      BY <1>3 DEF Progress
    <2> QED BY <1>1, <1>3, <2>1 DEF MilestonesOK, q
  <1>4. CASE e.carrying = m.carrying
    <2>1. m.index = e.index
      BY <1>4 DEF Progress
    <2> QED BY <1>1, <1>4, <2>1 DEF MilestonesOK, q
  <1> QED BY <1>2, <1>3, <1>4

\* The clock, the decisions and the milestones of a loop; scripts and brains harm nothing.
PlansInv ==
    /\ site.maxSteps \in Nat \ {0} /\ (site.kind = "scenario" => PlacesApart(site))
    /\ Site!Loaded =>
        /\ PlacesApart(site) /\ env.steps \in Nat
        /\ run.phase \in {"decide", "move"} => env.steps < site.maxSteps
        /\ site.controller \in {"scripted", "brain"} =>
            Spotless(env) /\ (run.phase = "move" => Suits(run.option, env))
        /\ Site!ByOptions => MilestonesOK(run.milestones, env)
        /\ site.controller = "brain" =>
            /\ run.decisions \in Nat
            /\ run.phase = "decide" => run.decisions <= env.steps \/ Stuck(env)
            /\ run.phase = "move" => run.decisions <= env.steps + 1
        /\ run.phase = "raised" => Stuck(env)

LEMMA PlanBegins ==
    ASSUME SiteOK(site), site.maxSteps \in Nat \ {0}, PlacesApart(site),
           site' = site, env' = Site!Fresh(site), NEW n, run' = Site!Loop("decide", n)
    PROVE  PlansInv'
  <1>1. PICK s, e, r : s = site /\ e = Site!Fresh(s) /\ r = Site!Loop("decide", n)
    OBVIOUS
  <1>2. e.steps = 0 /\ e.collisions = 0 /\ e.invalid = 0 /\ e.index = 0 /\ e.carrying = FALSE
    BY <1>1 DEF Site!Fresh
  <1>3. /\ r.phase = "decide" /\ r.decisions = 0
        /\ r.milestones.first = 0 /\ r.milestones.pickup = 0 /\ r.milestones.second = 0
    BY <1>1 DEF Site!Loop, Site!NoMilestones
  <1>4. MilestonesOK(r.milestones, e)
    BY <1>2, <1>3 DEF MilestonesOK
  <1>5. site' = s /\ env' = e /\ run' = r
    BY <1>1
  <1>6. s.maxSteps \in Nat \ {0} /\ PlacesApart(s)
    BY <1>1
  <1>7. env'.steps = 0 /\ Spotless(env') /\ run'.phase = "decide" /\ run'.decisions = 0
    BY <1>2, <1>3, <1>5 DEF Spotless
  <1>8. MilestonesOK(run'.milestones, env')
    BY <1>4, <1>5
  <1>9. site'.maxSteps \in Nat \ {0} /\ PlacesApart(site')
    BY <1>5, <1>6
  <1> QED BY <1>7, <1>8, <1>9 DEF PlansInv

\* Stuck only depends on what does not change when nothing is done.
LEMMA StuckKeeps ==
    ASSUME UNCHANGED <<site, order, env>>, run'.active = run.active
    PROVE  Stuck(env) <=> Stuck(env)'
  BY DEF Stuck, Site!Complete, Site!ShouldReposition, Site!At, Site!Clear, Site!Staging, Site!Column,
         Site!Pickup, Site!Part, Site!Previous

LEMMA PlansKeep == PlansInv /\ SiteInv /\ SiteNumbers /\ [Site!Next]_(Site!vars) => PlansInv'
  <1> SUFFICES ASSUME PlansInv, SiteInv, SiteNumbers, [Site!Next]_(Site!vars) PROVE PlansInv'
    OBVIOUS
  <1>1. /\ Size \in Nat /\ SiteOK(site) /\ DOMAIN run = LoopFields
        /\ site.maxSteps \in Nat \ {0} /\ (site.kind = "scenario" => PlacesApart(site))
    BY DEF SiteNumbers, SiteInv, PlansInv
  <1>2. ASSUME run' = Site!Loop("refused", 0), UNCHANGED site PROVE PlansInv'
    BY <1>1, <1>2 DEF PlansInv, Site!Loop, Site!Loaded
  <1>3. CASE Site!Compile
    <2>1. /\ UNCHANGED <<site, env>> /\ run.phase = "load"
          /\ \/ Site!GeometryValid(site) /\ run' = Site!Loop("decide", Len(Site!InstallationOrder(site)))
             \/ run' = Site!Loop("refused", 0)
      BY <1>3 DEF Site!Compile
    <2>2. CASE run' = Site!Loop("refused", 0)
      BY <1>2, <2>1, <2>2
    <2>3. CASE ~(run' = Site!Loop("refused", 0))
      <3>1. PICK s : s = site
        OBVIOUS
      <3>2. PlacesApart(s)
        BY <1>1, <2>1, <2>3, <3>1, PlacesReserved, SiteOperators DEF Site!GeometryValid
      <3>3. env' = Site!Fresh(site)
        BY <2>1 DEF SiteInv
      <3> QED BY <1>1, <2>1, <2>3, <3>1, <3>2, <3>3, PlanBegins
    <2> QED BY <2>2, <2>3
  <1>4. CASE Site!Load
    <2>1. /\ UNCHANGED <<site, env>> /\ run.phase = "load" /\ site.kind = "scenario"
          /\ \/ run' = Site!Loop("decide", Len(order'))
             \/ run' = Site!Loop("refused", 0)
      BY <1>4 DEF Site!Load
    <2>2. CASE run' = Site!Loop("refused", 0)
      BY <1>2, <2>1, <2>2
    <2>3. CASE ~(run' = Site!Loop("refused", 0))
      <3>1. env' = Site!Fresh(site)
        BY <2>1 DEF SiteInv
      <3> QED BY <1>1, <2>1, <2>3, <3>1, PlanBegins
    <2> QED BY <2>2, <2>3
  <1>5. CASE Site!NewEpisode
    <2>1. /\ run.phase = "over" /\ UNCHANGED <<site, order>> /\ env' = Site!Fresh(site)
          /\ \E n : run' = Site!Loop("decide", n)
      BY <1>5 DEF Site!NewEpisode
    <2>2. PlacesApart(site)
      BY <2>1 DEF PlansInv, Site!Loaded
    <2> QED BY <1>1, <2>1, <2>2, PlanBegins
  \* In a loop.
  <1>6. ASSUME run.phase \in {"decide", "move"}
        PROVE  /\ Site!Loaded /\ OrderOK(order, site) /\ run.active \in 1..Len(order)
               /\ run.active \in 0..Len(order)
               /\ EpisodeOK(env, site, order, run.active) /\ NoneQueued(env, site)
               /\ PlaceOK(env, order, run.active)
               /\ Placed(env.at) /\ env.index < run.active
               /\ env.carrying \in BOOLEAN /\ env.index \in Nat
               /\ PlacesApart(site) /\ env.steps \in Nat /\ env.steps < site.maxSteps
               /\ Site!Part(env) = order[env.index + 1]
    <2>1. /\ Site!Loaded /\ OrderOK(order, site) /\ run.active \in 1..Len(order)
          /\ EpisodeOK(env, site, order, run.active) /\ NoneQueued(env, site) /\ env.index < run.active
      BY <1>6 DEF Site!Loaded, SiteInv
    <2>2. run.active \in 0..Len(order) /\ run.active \in Nat
      BY <2>1 DEF OrderOK, Sorted
    <2>3. PlaceOK(env, order, run.active) /\ Placed(env.at)
      BY <2>1 DEF EpisodeOK, Standing, Placed, Site!Open
    <2>4. env.carrying \in BOOLEAN /\ env.index \in Nat
      BY <2>2, <2>3 DEF PlaceOK
    <2>5. Site!Part(env) = order[env.index + 1]
      BY <2>1, <2>2, <2>4, PartIs
    <2> QED BY <1>6, <2>1, <2>2, <2>3, <2>4, <2>5 DEF PlansInv
  <1>7. ASSUME run.phase \in {"decide", "move"}, NEW a, NEW firm,
               env' = Site!Step(Site!Checked(env, a, firm), a)
        PROVE  /\ env'.steps = env.steps + 1
               /\ Progress(env, env') /\ env'.carrying \in BOOLEAN
               /\ Moving(a) => env'.carrying = env.carrying /\ env'.index = env.index
               /\ /\ Spotless(env) /\ Smooth(env, a)
                  /\ ~env.carrying /\ Site!Both(a, "grab") => Due(env, "grasp")
                  /\ env.carrying /\ Site!Both(a, "install") => Due(env, "install")
                  => Spotless(env')
               /\ Site!Ended(env') \in {"decide", "over"}
               /\ Site!Ended(env') = "decide" \/ ~Site!Done(env') => env'.steps < site.maxSteps
    <2>1. PICK e, m : e = env /\ m = env'
      OBVIOUS
    <2>2. /\ Size \in Nat /\ SiteOK(site) /\ OrderOK(order, site) /\ run.active \in 0..Len(order)
          /\ EpisodeOK(e, site, order, run.active) /\ NoneQueued(e, site) /\ e.index < run.active
      BY <1>1, <1>6, <1>7, <2>1
    <2>3. m = Site!Step(Site!Checked(e, a, firm), a)
      BY <1>7, <2>1
    <2>4. /\ m.steps = e.steps + 1
          /\ Moving(a) => m.carrying = e.carrying
          /\ /\ Spotless(e) /\ Smooth(e, a)
             /\ ~e.carrying /\ Site!Both(a, "grab") => Due(e, "grasp")
             /\ e.carrying /\ Site!Both(a, "install") => Due(e, "install")
             => Spotless(m)
      BY <2>2, <2>3, StepTells
    <2>5. Progress(e, m) /\ EpisodeOK(m, site, order, run.active)
      BY <2>2, <2>3, StepSound
    <2>6. m.carrying \in BOOLEAN /\ (m.carrying = e.carrying => m.index = e.index)
      BY <2>5 DEF EpisodeOK, PlaceOK, Progress
    <2>7. /\ Site!Ended(env') \in {"decide", "over"}
          /\ Site!Ended(env') = "decide" => ~Site!Done(env')
      BY DEF Site!Ended
    <2>8. ~Site!Done(env') => env'.steps < site.maxSteps
      <3>1. env'.steps \in Nat
        BY <1>6, <1>7, <2>1, <2>4
      <3> QED BY <1>1, <3>1 DEF Site!Done
    <2> QED BY <2>1, <2>4, <2>5, <2>6, <2>7, <2>8
  <1>8. CASE Site!Act
    <2>1. /\ run.phase = "decide" /\ site.controller \in {"free", "joint"} /\ UNCHANGED <<site, order>>
          /\ run' = [run EXCEPT !.phase = Site!Ended(env')]
          /\ \E a, firm : env' = Site!Step(Site!Checked(env, a, firm), a)
      BY <1>8 DEF Site!Act, Site!Play
    <2>2. run'.phase = Site!Ended(env')
      BY <1>1, <2>1 DEF LoopFields
    <2>3. /\ env'.steps = env.steps + 1 /\ run'.phase \in {"decide", "over"}
          /\ run'.phase = "decide" => env'.steps < site.maxSteps
      BY <1>7, <2>1, <2>2
    <2>4. PlacesApart(site) /\ env.steps \in Nat
      BY <1>6, <2>1
    <2>5. PICK s : s = site /\ s = site'
      BY <2>1
    <2>6. s.maxSteps \in Nat \ {0} /\ PlacesApart(s)
      BY <1>1, <2>4, <2>5
    <2> QED BY <2>1, <2>3, <2>4, <2>5, <2>6 DEF PlansInv, Site!ByOptions
  <1>9. CASE Site!ChooseAtOnce
    <2>1. PICK option, firm :
            LET x == Site!AtOnce[option] IN
            /\ option \in Site!Chosen \cap DOMAIN Site!AtOnce
            /\ run.phase = "decide" /\ ~Site!Exhausted /\ UNCHANGED <<site, order>>
            /\ env' = Site!Step(Site!Checked(env, <<x, x>>, firm), <<x, x>>)
            /\ run' = [Site!Record(run, option, env, env') EXCEPT !.phase = Site!Ended(env'),
                                                                  !.decisions = Site!Counted]
      BY <1>9 DEF Site!ChooseAtOnce, Site!Play
    <2> DEFINE x == Site!AtOnce[option]
               a == <<x, x>>
               q == Site!Record(run, option, env, env')
    <2>2. /\ run'.phase = Site!Ended(env') /\ run'.decisions = Site!Counted
          /\ run'.milestones = q.milestones
      <3>1. DOMAIN q = LoopFields
        BY <1>1, RecordIs
      <3> HIDE DEF q
      <3> QED BY <2>1, <3>1 DEF LoopFields, q
    <2>3. x \notin Site!Directions /\ (x = "grab" => option = "grab") /\ (x = "install" => option = "install")
      BY <2>1, AtOnceIs DEF Site!Directions
    <2> HIDE DEF x
    <2>4. /\ env'.steps = env.steps + 1 /\ Progress(env, env') /\ env'.carrying \in BOOLEAN
          /\ /\ Spotless(env) /\ Smooth(env, a)
             /\ ~env.carrying /\ Site!Both(a, "grab") => Due(env, "grasp")
             /\ env.carrying /\ Site!Both(a, "install") => Due(env, "install")
             => Spotless(env')
          /\ run'.phase \in {"decide", "over"} /\ (run'.phase = "decide" => env'.steps < site.maxSteps)
      <3>1. env' = Site!Step(Site!Checked(env, a, firm), a)
        BY <2>1 DEF x
      <3> QED BY <1>7, <2>1, <2>2, <3>1
    <2>5. ASSUME site.controller \in {"scripted", "brain"} PROVE Spotless(env')
      <3>1. option = "wait" \/ option = Site!Scripted(env)
        <4>1. Site!Structured(env) = Site!Scripted(env)
          BY <1>6, <2>1, PlannersChooseAlike
        <4> QED BY <2>1, <2>5, <4>1 DEF Site!Chosen, Site!Decided
      <3>2. x = "grab" => ~env.carrying /\ Due(env, "grasp")
        BY <1>6, <2>1, <2>3, <3>1, ScriptTells DEF Due, Site!At, Site!Pickup
      <3>3. x = "install" => env.carrying /\ Due(env, "install")
        BY <1>6, <2>1, <2>3, <3>1, ScriptTells DEF Due, Site!At, Site!Assembly
      <3>4. (Site!Both(a, "grab") => x = "grab") /\ (Site!Both(a, "install") => x = "install")
        BY DEF Site!Both
      <3>5. Spotless(env)
        BY <1>6, <2>1, <2>5 DEF PlansInv
      <3>6. Smooth(env, a)
        BY <1>6, <2>1, <2>3, StandingIsSmooth
      <3> QED BY <2>4, <3>2, <3>3, <3>4, <3>5, <3>6
    <2>6. ASSUME Site!ByOptions PROVE MilestonesOK(run'.milestones, env')
      <3>1. MilestonesOK(run.milestones, env)
        BY <1>6, <2>1, <2>6 DEF PlansInv
      <3> QED BY <1>1, <1>6, <2>1, <2>2, <2>4, <3>1, MilestonesGoOn
    <2>7. ASSUME site.controller = "brain" PROVE run'.decisions \in Nat /\ run'.decisions <= env'.steps
      <3>1. ~Stuck(env)
        <4> SUFFICES ASSUME Stuck(env) PROVE FALSE
          OBVIOUS
        <4>1. \A u : Site!Decided(env, u) = "reposition"
          BY <1>1, <1>6, <2>1, StuckIs
        <4>2. option = "reposition"
          BY <2>1, <2>7, <4>1 DEF Site!Chosen
        <4> QED BY <2>1, <4>2, AtOnceIs
      <3>2. run.decisions \in Nat /\ run.decisions <= env.steps
        BY <1>6, <2>1, <2>7, <3>1 DEF PlansInv
      <3>3. run'.decisions = run.decisions + 1
        BY <2>2, <2>7 DEF Site!Counted
      <3> QED BY <1>6, <2>1, <2>4, <3>2, <3>3
    <2>8. PICK s : s = site /\ s = site'
      BY <2>1
    <2>9. s.maxSteps \in Nat \ {0} /\ PlacesApart(s) /\ env'.steps \in Nat
      BY <1>1, <1>6, <2>1, <2>4, <2>8
    <2> QED BY <2>4, <2>5, <2>6, <2>7, <2>8, <2>9 DEF PlansInv, Site!ByOptions
  <1>10. CASE Site!ChooseMove
    <2>1. PICK option \in Site!Chosen \ DOMAIN Site!AtOnce :
            /\ run.phase = "decide" /\ UNCHANGED <<site, order, env>>
            /\ IF Site!At(env, Site!Target(env, option))
               THEN run' = [Site!Record(run, option, env, env) EXCEPT !.decisions = Site!Counted]
               ELSE run' = [run EXCEPT !.phase = "move", !.option = option, !.decisions = Site!Counted]
      BY <1>10 DEF Site!ChooseMove
    <2> DEFINE there == Site!At(env, Site!Target(env, option))
               q == Site!Record(run, option, env, env)
    <2>2. /\ run'.active = run.active /\ run'.decisions = Site!Counted
          /\ run'.milestones.first = run.milestones.first
          /\ run'.milestones.pickup = run.milestones.pickup
          /\ run'.milestones.second = run.milestones.second
          /\ IF there THEN run'.phase = "decide" ELSE run'.phase = "move" /\ run'.option = option
      <3>1. CASE there
        <4>1. /\ DOMAIN q = LoopFields /\ q.active = run.active /\ q.phase = run.phase
              /\ q.milestones.first = run.milestones.first
              /\ q.milestones.pickup = run.milestones.pickup
              /\ q.milestones.second = run.milestones.second
          <5>1. ~(env.index > env.index)
            BY <1>6, <2>1
          <5> QED BY <1>1, <5>1, RecordIs
        <4> HIDE DEF q
        <4> QED BY <2>1, <3>1, <4>1 DEF LoopFields, q
      <3>2. CASE ~there
        <4>1. run' = [run EXCEPT !.phase = "move", !.option = option, !.decisions = Site!Counted]
          BY <2>1, <3>2
        <4> HIDE DEF there
        <4> QED BY <1>1, <3>2, <4>1 DEF LoopFields
      <3> QED BY <3>1, <3>2
    <2>3. ASSUME Site!ByOptions PROVE MilestonesOK(run'.milestones, env)
      <3>1. MilestonesOK(run.milestones, env)
        BY <1>6, <2>1, <2>3 DEF PlansInv
      <3> QED BY <2>2, <3>1 DEF MilestonesOK
    <2>4. ASSUME site.controller \in {"scripted", "brain"}
          PROVE  /\ option = Site!Scripted(env) /\ Spotless(env) /\ Suits(option, env)
                 /\ there <=> Stuck(env)
      <3>1. option = Site!Scripted(env)
        <4>1. Site!Structured(env) = Site!Scripted(env)
          BY <1>6, <2>1, PlannersChooseAlike
        <4> QED BY <2>1, <2>4, <4>1, AtOnceIs DEF Site!Chosen, Site!Decided
      <3>2. Suits(option, env) /\ (there => Stuck(env))
        BY <1>6, <2>1, <3>1, ScriptTells
      <3>3. Stuck(env) => there
        <4>1. Stuck(env) => Site!Scripted(env) = "reposition" /\ Site!At(env, Site!Target(env, "reposition"))
          BY <1>1, <1>6, <2>1, StuckIs
        <4> QED BY <3>1, <4>1
      <3>4. Spotless(env)
        BY <1>6, <2>1, <2>4 DEF PlansInv
      <3> QED BY <3>1, <3>2, <3>3, <3>4
    <2>5. ASSUME site.controller = "brain"
          PROVE  /\ run'.decisions \in Nat
                 /\ IF there THEN Stuck(env) ELSE run'.decisions <= env.steps + 1
      <3>1. run'.decisions = run.decisions + 1 /\ run.decisions \in Nat
        BY <1>6, <2>1, <2>2, <2>5 DEF Site!Counted, PlansInv
      <3>2. ~there => run.decisions <= env.steps
        BY <1>6, <2>1, <2>4, <2>5 DEF PlansInv
      <3> QED BY <1>6, <2>1, <2>4, <2>5, <3>1, <3>2
    <2>6. Stuck(env) <=> Stuck(env)'
      BY <2>1, <2>2, StuckKeeps
    <2>7. PICK s, e : s = site /\ s = site' /\ e = env /\ e = env'
      BY <2>1
    <2>8. s.maxSteps \in Nat \ {0} /\ PlacesApart(s) /\ e.steps \in Nat /\ e.steps < s.maxSteps
      BY <1>1, <1>6, <2>1, <2>7
    <2> HIDE DEF there
    <2>9. Site!ByOptions => MilestonesOK(run'.milestones, e)
      BY <2>3, <2>7
    <2>10. site.controller \in {"scripted", "brain"} => Spotless(e) /\ Suits(option, e)
      BY <2>4, <2>7
    <2> QED BY <2>2, <2>5, <2>6, <2>7, <2>8, <2>9, <2>10 DEF PlansInv, Site!ByOptions
  <1>11. CASE Site!Primitive
    <2>1. PICK firm :
            LET a == Site!ActionsFor(env, run.option) IN
            /\ run.phase = "move" /\ UNCHANGED <<site, order>>
            /\ env' = Site!Step(Site!Checked(env, a, firm), a)
      BY <1>11 DEF Site!Primitive, Site!Play
    <2>2. \/ run' = [Site!Record(run, run.option, env', env') EXCEPT
                        !.phase = Site!Ended(env'), !.option = "none", !.used = 0]
          \/ ~Site!Done(env') /\ run' = [run EXCEPT !.used = @ + 1]
      BY <1>11 DEF Site!Primitive
    <2> DEFINE a == Site!ActionsFor(env, run.option)
               q == Site!Record(run, run.option, env', env')
    <2>3. Moving(a)
      BY <1>1, OptionMoves
    <2>4. /\ env'.steps = env.steps + 1
          /\ env'.carrying = env.carrying /\ env'.index = env.index
          /\ Spotless(env) /\ Smooth(env, a) => Spotless(env')
          /\ Site!Ended(env') \in {"decide", "over"}
          /\ Site!Ended(env') = "decide" \/ ~Site!Done(env') => env'.steps < site.maxSteps
      <3>1. ~Site!Both(a, "grab") /\ ~Site!Both(a, "install")
        <4> HIDE DEF a
        <4> QED BY <2>3 DEF Moving, Site!Both, Site!Terminal
      <3>2. env' = Site!Step(Site!Checked(env, a, firm), a)
        BY <2>1
      <3> HIDE DEF a
      <3> QED BY <1>7, <2>1, <2>3, <3>1, <3>2
    <2>5. /\ run'.decisions = run.decisions
          /\ run'.milestones.first = run.milestones.first
          /\ run'.milestones.pickup = run.milestones.pickup
          /\ run'.milestones.second = run.milestones.second
          /\ \/ run'.phase = Site!Ended(env')
             \/ ~Site!Done(env') /\ run'.phase = "move" /\ run'.option = run.option
      <3>1. /\ DOMAIN q = LoopFields /\ q.decisions = run.decisions
            /\ q.milestones.first = run.milestones.first
            /\ q.milestones.pickup = run.milestones.pickup
            /\ q.milestones.second = run.milestones.second
        <4>1. ~(env'.index > env'.index)
          BY <1>6, <2>1, <2>4
        <4> QED BY <1>1, <4>1, RecordIs
      <3> HIDE DEF q
      <3>2. CASE run' = [q EXCEPT !.phase = Site!Ended(env'), !.option = "none", !.used = 0]
        BY <3>1, <3>2 DEF LoopFields
      <3>3. CASE ~Site!Done(env') /\ run' = [run EXCEPT !.used = @ + 1]
        BY <1>1, <2>1, <3>3 DEF LoopFields
      <3> QED BY <2>2, <3>2, <3>3 DEF q
    <2>6. ASSUME Site!ByOptions PROVE MilestonesOK(run'.milestones, env')
      <3>1. MilestonesOK(run.milestones, env)
        BY <1>6, <2>1, <2>6 DEF PlansInv
      <3> QED BY <1>6, <2>1, <2>4, <2>5, <3>1 DEF MilestonesOK
    <2>7. ASSUME site.controller \in {"scripted", "brain"}
          PROVE  Spotless(env') /\ Suits(run.option, env')
      <3>1. Spotless(env) /\ Suits(run.option, env)
        BY <1>6, <2>1, <2>7 DEF PlansInv
      <3>2. Smooth(env, a)
        BY <1>1, <1>6, <2>1, <3>1, OptionIsSmooth
      <3>3. Suits(run.option, env')
        BY <2>4, <3>1 DEF Suits
      <3> QED BY <2>4, <3>1, <3>2, <3>3
    <2>8. ASSUME site.controller = "brain" PROVE run'.decisions \in Nat /\ run'.decisions <= env'.steps
      BY <1>6, <2>1, <2>4, <2>5, <2>8 DEF PlansInv
    <2>9. PICK s : s = site /\ s = site'
      BY <2>1
    <2>10. s.maxSteps \in Nat \ {0} /\ PlacesApart(s) /\ env'.steps \in Nat
      BY <1>1, <1>6, <2>1, <2>4, <2>9
    <2>11. /\ run'.phase \in {"decide", "move", "over"}
           /\ run'.phase = "move" => run'.option = run.option
           /\ run'.phase \in {"decide", "move"} => env'.steps < site.maxSteps
      BY <2>4, <2>5
    <2>12. site.controller = "brain" => run'.decisions \in Nat /\ run'.decisions <= env'.steps
                                        /\ run'.decisions <= env'.steps + 1
      BY <2>8, <2>10
    <2> HIDE DEF a
    <2> QED BY <2>6, <2>7, <2>9, <2>10, <2>11, <2>12 DEF PlansInv, Site!ByOptions
  <1>12. CASE Site!GiveUp
    <2>1. /\ run.phase = "decide" /\ Site!Exhausted /\ UNCHANGED <<site, order, env>>
          /\ run' = [run EXCEPT !.phase = "raised"]
      BY <1>12 DEF Site!GiveUp
    <2>2. /\ run'.phase = "raised" /\ run'.active = run.active /\ run'.decisions = run.decisions
          /\ run'.milestones = run.milestones
      BY <1>1, <2>1 DEF LoopFields
    <2>3. Stuck(env)
      BY <1>1, <1>6, <2>1 DEF Site!Exhausted, PlansInv
    <2>4. Stuck(env)'
      BY <2>1, <2>2, <2>3, StuckKeeps
    <2>5. PICK s, e, k : s = site /\ s = site' /\ e = env /\ e = env' /\ k = run.milestones /\ k = run'.milestones
      BY <2>1, <2>2
    <2>6. /\ s.maxSteps \in Nat \ {0} /\ PlacesApart(s) /\ e.steps \in Nat
          /\ s.controller \in {"scripted", "brain"} => Spotless(e)
          /\ s.controller \in {"scripted", "learned", "brain"} => MilestonesOK(k, e)
          /\ s.controller = "brain" => run'.decisions \in Nat
      BY <1>1, <1>6, <2>1, <2>2, <2>5 DEF PlansInv, Site!ByOptions
    <2> QED BY <2>2, <2>4, <2>5, <2>6 DEF PlansInv, Site!ByOptions
  <1>13. CASE UNCHANGED Site!vars
    <2>1. UNCHANGED <<site, order, env, run>>
      BY <1>13 DEF Site!vars
    <2>2. Stuck(env) <=> Stuck(env)'
      BY <2>1, StuckKeeps
    <2>3. PICK s, e, r : s = site /\ s = site' /\ e = env /\ e = env' /\ r = run /\ r = run'
      BY <2>1
    <2> QED BY <2>2, <2>3 DEF PlansInv, Site!Loaded, Site!ByOptions
  <1> QED BY <1>3, <1>4, <1>5, <1>8, <1>9, <1>10, <1>11, <1>12, <1>13 DEF Site!Next

LEMMA PlansBegin == SiteNumbers /\ Site!Init => PlansInv
  <1> SUFFICES ASSUME SiteNumbers, Site!Init PROVE PlansInv
    OBVIOUS
  <1>1. PICK s \in Sites, p \in Physics : site = Site!PlayedBy(s, p)
    BY DEF Site!Init
  <1>2. {"kind", "needs", "assembly", "maxSteps"} \subseteq DOMAIN s
    BY DEF SiteNumbers
  <1>3. /\ site.kind = s.kind /\ site.needs = s.needs /\ site.assembly = s.assembly
        /\ site.maxSteps = s.maxSteps
    BY <1>1, <1>2 DEF Site!PlayedBy
  <1>4. s.maxSteps \in Nat \ {0} /\ (s.kind = "scenario" => PlacesApart(s))
    BY DEF SiteNumbers, PlacesApart, TwoCells, Site!Parts
  <1>5. site.maxSteps \in Nat \ {0} /\ (site.kind = "scenario" => PlacesApart(site))
    BY <1>3, <1>4 DEF PlacesApart, Site!Parts
  <1>6. run.phase = "load"
    BY DEF Site!Init, Site!Loop
  <1> QED BY <1>5, <1>6 DEF PlansInv, Site!Loaded

LEMMA PlansAgree == SiteInv /\ PlansInv => Site!PlannersAgree
  <1> SUFFICES ASSUME SiteInv, PlansInv, Site!Loaded PROVE Site!PlannersAgree
    BY DEF Site!PlannersAgree
  <1>1. /\ SiteOK(site) /\ OrderOK(order, site) /\ run.active \in 1..Len(order)
        /\ PlaceOK(env, order, run.active) /\ PlacesApart(site)
    BY DEF SiteInv, EpisodeOK, PlansInv
  <1>2. env.carrying \in BOOLEAN
    BY <1>1 DEF PlaceOK
  <1>3. Site!Scripted(env) \in Site!Mask(env) /\ Site!Structured(env) = Site!Scripted(env)
    BY <1>2, PlannersChooseAlike
  <1>4. /\ ~Site!Blocked(env)
        /\ Site!Complete(env) <=> \A i \in 1..run.active : Site!SlotCompleted(env, order[i])
    BY <1>1, NothingWaits
  <1>5. site.controller \in {"scripted", "brain"} => env.collisions = 0 /\ env.invalid = 0
    BY DEF PlansInv, Spotless
  <1>6. run.phase = "raised" => Site!Stalled
    <2> SUFFICES ASSUME run.phase = "raised" PROVE Site!Stalled
      OBVIOUS
    <2>1. Stuck(env)
      BY DEF PlansInv
    <2>2. Site!Pickup(env)[1][1] + 1 = site.assembly[Site!Previous(env)][1][1]
      BY <1>1, <2>1, StuckIs
    <2> QED BY <2>1, <2>2 DEF Stuck, Site!Stalled
  <1>7. ASSUME Site!ByOptions
        PROVE  /\ run.milestones.first > 0 <=> env.index > 0
               /\ run.milestones.second > 0 <=> env.index > 1
               /\ run.milestones.pickup > 0 =>
                    run.milestones.first > 0 /\ run.milestones.first < run.milestones.pickup
               /\ run.milestones.second > 0 =>
                    run.milestones.pickup > 0 /\ run.milestones.pickup < run.milestones.second
    BY <1>7 DEF PlansInv, MilestonesOK
  <1> QED BY <1>3, <1>4, <1>5, <1>6, <1>7 DEF Site!PlannersAgree

\* Whoever decides, decides among what is offered, and scripts and brains alike; these run
\* into nothing; no part of a build waits for a later one; a build is complete when its slots
\* are; its milestones come in their order; and a brain gives up only where its script would
\* go on for ever (assembly/env.py, assembly/brain.py).
THEOREM PlannersAlwaysAgree == SiteNumbers => (Site!Spec => []Site!PlannersAgree)
  <1> SUFFICES ASSUME SiteNumbers PROVE Site!Spec => []Site!PlannersAgree
    OBVIOUS
  <1>1. Site!Init => SiteInv /\ PlansInv
    BY SiteBegins, PlansBegin
  <1>2. SiteInv /\ PlansInv /\ [Site!Next]_(Site!vars) => SiteInv' /\ PlansInv'
    BY SiteKeeps, PlansKeep
  <1>3. SiteInv /\ PlansInv => Site!PlannersAgree
    BY PlansAgree
  <1>4. Site!Spec => Site!Init /\ [][Site!Next]_(Site!vars)
    BY DEF Site!Spec
  <1> QED BY <1>1, <1>2, <1>3, <1>4, PTL

-----------------------------------------------------------------------------
(* All of them together.                                                   *)

Worlds == {"house", "floor", "bids", "drive", "scene", "site"}

\* Each component keeps its invariant in its world.
BuildersInv ==
    /\ world \in Worlds
    /\ world = "house" => HouseInv
    /\ IF world = "floor" THEN RouteInv ELSE outcome = "none"
    /\ world = "bids" => BidInv
    /\ world = "drive" => DriveInv
    /\ world = "scene" => SceneInv
    /\ world = "site" => SiteInv /\ PlansInv

LEMMA BuildersBegin == BuildersInit => BuildersInv
  <1> SUFFICES ASSUME BuildersInit PROVE BuildersInv
    OBVIOUS
  <1>1. CASE InitHouse
    BY <1>1, HouseAssumption, HouseInit DEF InitHouse, NoFloor, BuildersInv, Worlds
  <1>2. CASE InitFloor
    BY <1>2, RouteAssumption, RouteStart DEF InitFloor, BuildersInv, Worlds
  <1>3. CASE InitBids
    BY <1>3, BidAssumption, BidStart DEF InitBids, NoFloor, BuildersInv, Worlds
  <1>4. CASE InitDrive
    BY <1>4, DriveInit DEF InitDrive, NoFloor, BuildersInv, Worlds
  <1>5. CASE InitScene
    BY <1>5, SceneInit DEF InitScene, NoFloor, BuildersInv, Worlds
  <1>6. CASE InitSite
    BY <1>6, SiteAssumption, SiteBegins, PlansBegin DEF InitSite, NoFloor, BuildersInv, Worlds
  <1> QED BY <1>1, <1>2, <1>3, <1>4, <1>5, <1>6 DEF BuildersInit

\* A step of all is one of the component whose world it is.
LEMMA BuildersMove ==
    ASSUME [BuildersNext]_allVars
    PROVE  /\ world' = world
           /\ world = "house" => [House!Next]_(House!vars)
           /\ IF world = "floor" THEN [Next]_vars ELSE outcome' = outcome
           /\ world = "bids" => [Bidding!Next]_(Bidding!vars)
           /\ world = "drive" => [Drive!Next]_(Drive!vars)
           /\ world = "scene" => [Mirror!Next]_(Mirror!vars)
           /\ world = "site" => [Site!Next]_(Site!vars)
  <1>1. CASE HouseStep
    BY <1>1 DEF HouseStep, vars
  <1>2. CASE FloorStep
    BY <1>2 DEF FloorStep
  <1>3. CASE BidStep
    BY <1>3 DEF BidStep, vars
  <1>4. CASE DriveStep
    BY <1>4 DEF DriveStep, vars
  <1>5. CASE SceneStep
    BY <1>5 DEF SceneStep, vars
  <1>6. CASE SiteStep
    BY <1>6 DEF SiteStep, vars
  <1>7. CASE UNCHANGED allVars
    BY <1>7 DEF allVars, vars, houseVars, bidVars, driveVars, siteVars, sceneVars, sharedVars,
                House!vars, Bidding!vars, Drive!vars, Mirror!vars, Site!vars
  <1> QED BY <1>1, <1>2, <1>3, <1>4, <1>5, <1>6, <1>7 DEF BuildersNext

LEMMA BuildersKeep == BuildersInv /\ [BuildersNext]_allVars => BuildersInv'
  <1> SUFFICES ASSUME BuildersInv, [BuildersNext]_allVars PROVE BuildersInv'
    OBVIOUS
  <1>1. world' = world /\ world \in Worlds
    BY BuildersMove DEF BuildersInv
  <1>2. world = "house" => HouseInv'
    BY BuildersMove, HouseAssumption, HouseKeeps DEF BuildersInv
  <1>3. IF world = "floor" THEN RouteInv' ELSE outcome' = "none"
    BY BuildersMove, RouteAssumption, RouteStep DEF BuildersInv
  <1>4. world = "bids" => BidInv'
    BY BuildersMove, BidAssumption, BidKeeps DEF BuildersInv
  <1>5. world = "drive" => DriveInv'
    BY BuildersMove, DriveKeeps DEF BuildersInv
  <1>6. world = "scene" => SceneInv'
    BY BuildersMove, SceneKeeps DEF BuildersInv
  <1>7. world = "site" => SiteInv' /\ PlansInv'
    BY BuildersMove, SiteAssumption, SiteKeeps, PlansKeep DEF BuildersInv
  <1> QED BY <1>1, <1>2, <1>3, <1>4, <1>5, <1>6, <1>7 DEF BuildersInv

THEOREM BuildersInvariant == BuildersSpec => []BuildersInv
  <1>1. BuildersSpec => BuildersInit /\ [][BuildersNext]_allVars
    BY DEF BuildersSpec
  <1> QED BY <1>1, BuildersBegin, BuildersKeep, PTL

\* Whatever is scheduled can be carried out, and only what nobody could build is refused;
\* of the controllers only the solver may give up, at its limit (compiler.py, scheduler.py,
\* recovery.py, trace.py).
THEOREM SchedulesSound == BuildersSpec => []ScheduleSound
  <1>1. BuildersInv => ScheduleSound
    BY HouseAssumption, HouseIsSound DEF BuildersInv, ScheduleSound
  <1> QED BY <1>1, BuildersInvariant, PTL

\* Routes of a plan keep apart and lead to their goals (routing.py).
THEOREM RoutesSound == BuildersSpec => []RoutesDisjoint
  <1>1. BuildersInv => RoutesDisjoint
    <2>1. outcome = "none" => RoutesDisjoint
      BY DEF RoutesDisjoint
    <2> QED BY <2>1, RouteAssumption, RoutedApart DEF BuildersInv
  <1> QED BY <1>1, BuildersInvariant, PTL

\* Teams are separate and do what they were sent for, in bids and on the road
\* (marl_env.py, coppelia_dynamic.py).
THEOREM CrewsAreSound == BuildersSpec => []CrewsSound
  <1>1. BuildersInv => CrewsSound
    BY DriveSound DEF BuildersInv, BidInv, CrewsSound
  <1> QED BY <1>1, BuildersInvariant, PTL

\* Two robots build without harm and keep their books (assembly/env.py).
THEOREM BuildingSites == BuildersSpec => []SiteSound
  <1>1. BuildersInv => SiteSound
    BY SiteInvSound DEF BuildersInv, SiteSound
  <1> QED BY <1>1, BuildersInvariant, PTL

\* Whoever decides at a site decides alike, and the scene shows what is built
\* (assembly/env.py, assembly/brain.py, coppelia_backend.py).
THEOREM SitesAgree == BuildersSpec => []SiteAgrees
  <1>1. BuildersInv => SiteAgrees
    BY PlansAgree, SceneShows DEF BuildersInv, SiteAgrees
  <1> QED BY <1>1, BuildersInvariant, PTL

\* Whoever builds, installs nothing before what it rests on (marl_env.py, trace.py,
\* coppelia_dynamic.py, assembly/env.py).
THEOREM BuildersBuildInOrder == BuildersSpec => BuildsInOrder
  <1> DEFINE builtVars == <<PlannedParts, PlannedNeeds, BuiltParts>>
  <1>1. BuildersInit => Order!Init
    <2> SUFFICES ASSUME BuildersInit PROVE BuiltParts = {}
      BY DEF Order!Init
    <2>1. CASE InitHouse
      BY <2>1 DEF InitHouse, House!Init, BuiltParts
    <2>2. CASE InitFloor
      BY <2>2 DEF InitFloor, BuiltParts
    <2>3. CASE InitBids
      BY <2>3 DEF InitBids, Bidding!Init, BuiltParts
    <2>4. CASE InitDrive
      BY <2>4 DEF InitDrive, Drive!Init, BuiltParts
    <2>5. CASE InitScene
      BY <2>5 DEF InitScene, BuiltParts
    <2>6. CASE InitSite
      BY <2>6, NothingAssembled DEF InitSite, Assembled!Init, BuiltParts
    <2> QED BY <2>1, <2>2, <2>3, <2>4, <2>5, <2>6 DEF BuildersInit
  <1>2. BuildersInv /\ [BuildersNext]_allVars => [Order!Next]_builtVars
    <2> SUFFICES ASSUME BuildersInv, [BuildersNext]_allVars PROVE [Order!Next]_builtVars
      OBVIOUS
    <2>0. world' = world /\ world \in Worlds
      BY BuildersMove DEF BuildersInv
    <2>1. CASE world = "house"
      <3>1. [House!Order!Next]_<<House!Mods, plan.deps, installed>>
        BY <2>1, BuildersMove, HouseAssumption, TraceInOrder DEF BuildersInv
      <3>2. /\ PlannedParts = House!Mods /\ PlannedNeeds = plan.deps /\ BuiltParts = installed
            /\ PlannedParts' = House!Mods' /\ PlannedNeeds' = plan'.deps /\ BuiltParts' = installed'
        BY <2>0, <2>1 DEF PlannedParts, PlannedNeeds, BuiltParts
      <3> QED BY <3>1, <3>2 DEF House!Order!Next, House!Order!Begin, House!Order!Install,
                                Order!Next, Order!Begin, Order!Install
    <2>2. CASE world = "bids"
      <3>1. [Raised!Next]_<<Modules, Deps, completed>>
        BY <2>2, BuildersMove, BidsInOrder DEF BuildersInv, BidInv
      <3>2. /\ PlannedParts = Modules /\ PlannedNeeds = Deps /\ BuiltParts = completed
            /\ PlannedParts' = Modules /\ PlannedNeeds' = Deps /\ BuiltParts' = completed'
        BY <2>0, <2>2 DEF PlannedParts, PlannedNeeds, BuiltParts
      <3> QED BY <3>1, <3>2 DEF Raised!Next, Raised!Begin, Raised!Install,
                                Order!Next, Order!Begin, Order!Install
    <2>3. CASE world = "drive"
      <3>1. [Driven!Next]_<<DriveModules, DriveDeps, installed>>
        BY <2>3, BuildersMove, DriveInOrder DEF BuildersInv
      <3>2. /\ PlannedParts = DriveModules /\ PlannedNeeds = DriveDeps /\ BuiltParts = installed
            /\ PlannedParts' = DriveModules /\ PlannedNeeds' = DriveDeps /\ BuiltParts' = installed'
        BY <2>0, <2>3 DEF PlannedParts, PlannedNeeds, BuiltParts
      <3> QED BY <3>1, <3>2 DEF Driven!Next, Driven!Begin, Driven!Install,
                                Order!Next, Order!Begin, Order!Install
    <2>4. CASE world = "site"
      <3>1. [Assembled!Next]_<<Site!Parts(site), site.needs, Site!Built>>
        BY <2>4, BuildersMove, SiteAssumption, SiteInOrder DEF BuildersInv
      <3>2. /\ PlannedParts = Site!Parts(site) /\ PlannedNeeds = site.needs /\ BuiltParts = Site!Built
            /\ PlannedParts' = Site!Parts(site)' /\ PlannedNeeds' = site'.needs
            /\ BuiltParts' = Site!Built'
        BY <2>0, <2>4 DEF PlannedParts, PlannedNeeds, BuiltParts
      <3> QED BY <3>1, <3>2 DEF Assembled!Next, Assembled!Begin, Assembled!Install,
                                Order!Next, Order!Begin, Order!Install
    <2>5. CASE world \in {"floor", "scene"}
      BY <2>0, <2>5 DEF PlannedParts, PlannedNeeds, BuiltParts
    <2> QED BY <2>0, <2>1, <2>2, <2>3, <2>4, <2>5 DEF Worlds
  <1>3. BuildersSpec => BuildersInit /\ [][BuildersNext]_allVars
    BY DEF BuildersSpec
  <1>4. BuildersSpec => Order!Spec
    BY <1>1, <1>2, <1>3, BuildersInvariant, PTL DEF Order!Spec
  <1> QED BY <1>4 DEF BuildsInOrder
=============================================================================
