-------------------------- MODULE CoppeliaBackend ---------------------------
(***************************************************************************)
(* The CoppeliaSim back end of the assembly environment                    *)
(* (coppelia_backend.py): the logical environment decides, and a scene in  *)
(* a simulator is made to look like it by remote calls, each of which may  *)
(* fail and leave the rest undone.  The scene is as it was told, except    *)
(* that a simulator that stops may put it back to where it was when the    *)
(* simulation started, as CoppeliaSim does with what it has simulated.     *)
(*                                                                         *)
(* The environment itself is AssemblyEnv; here it is the frames it can     *)
(* show, the elements being installed in their order.                      *)
(***************************************************************************)
EXTENDS Integers

CONSTANT N    \* elements, at least one

VARIABLES
    frame,    \* the logical state: where the agents are, elements installed, whether
              \* one is held, and how many the curriculum asks for (active)
    ready,    \* is_ready
    objects,  \* kinds of objects that exist and have a handle, in building order
    scene,    \* what the objects look like; turned: those with the target orientation
    atStart,  \* what they looked like when the simulation was started
    sim,      \* "stopped" or "running"
    shown     \* the frame that the last call was to show; none if it raised

vars == <<frame, ready, objects, scene, atStart, sim, shown>>

Elements == 1..N
AllObjects == 4   \* agents, elements, blueprint markers, cameras

FirstFrame(active) == [agents |-> 0, installed |-> 0, held |-> FALSE, active |-> active]
LastFrame == [FirstFrame(N) EXCEPT !.agents = 1, !.installed = N]

\* _sync_from_playback_frame.
Place(f, e) ==
    IF e <= f.installed THEN "target"
    ELSE IF f.held /\ e = f.installed + 1 /\ e <= f.active THEN "agents" ELSE "source"
Shown(f, sc) ==
    [agents |-> f.agents, markers |-> 1..f.installed,
     place |-> [e \in Elements |-> Place(f, e)],
     turned |-> sc.turned \cup 1..f.installed]

\* The same, up to a remote call that fails; what has no handle is passed over.
SyncedUpTo(k, f, sc) ==
    LET new == Shown(f, sc)
        done(rank, kind) == k >= rank /\ objects >= kind
    IN  [agents  |-> IF done(1, 1) THEN new.agents ELSE sc.agents,
         markers |-> IF done(2, 3) THEN new.markers ELSE sc.markers,
         place   |-> IF done(3, 2) THEN new.place ELSE sc.place,
         turned  |-> IF done(3, 2) THEN new.turned ELSE sc.turned]
Synced(f, sc) == SyncedUpTo(3, f, sc)
HalfSynced(f, sc) == {SyncedUpTo(k, f, sc) : k \in 0..2}

Untouched == [agents |-> 0, markers |-> {}, place |-> [e \in Elements |-> "source"], turned |-> {}]

\* rebuild_scene: all kinds of objects, or those made before a call failed.
Built == 1..AllObjects

\* __post_init__: no connection, a scene that is not built yet, or what could be built
\* of it.  A failure is noted, and the back end is ready all the same.
Init ==
    /\ frame = FirstFrame(N)
    /\ ready \in BOOLEAN
    /\ objects \in Built \cup {0} /\ (~ready => objects = 0)
    /\ scene = Untouched /\ atStart = Untouched
    /\ sim = "stopped" /\ shown = {}

-----------------------------------------------------------------------------
(* The simulator.                                                          *)

\* _ensure_stopped.
Stopped == IF sim = "running" THEN {scene, atStart} ELSE {scene}
StopTimesOut == sim = "running" /\ UNCHANGED <<scene, atStart, sim>>

Looks(sc) == scene' = sc /\ UNCHANGED <<atStart, sim>>
Rests(sc) == scene' = sc /\ atStart' = Untouched /\ sim' = "stopped"
RunsOn(sc, before) == scene' = sc /\ atStart' = before /\ sim' = "running"
StartsFrom(sc) == RunsOn(sc, sc)
Returns(f) == shown' = {f}
Raises == shown' = {}

-----------------------------------------------------------------------------
(* The calls.                                                              *)

\* step of the logical environment: the agents move, take or install an element.
Successors(f) ==
    {[f EXCEPT !.agents = 1 - @]} \cup
    (IF f.installed >= f.active THEN {}
     ELSE IF f.held THEN {[f EXCEPT !.held = FALSE, !.installed = @ + 1]}
     ELSE {[f EXCEPT !.held = TRUE]})

Reset ==
    /\ ready
    /\ frame' = FirstFrame(frame.active)
    /\ \/ StopTimesOut /\ Raises
       \/ \E s \in Stopped :
            \/ StartsFrom(Synced(frame', s)) /\ Returns(frame')
            \/ (\E half \in HalfSynced(frame', s) : Rests(half)) /\ Raises
    /\ UNCHANGED <<ready, objects>>

\* The logical step is taken whether or not the scene follows.
Step ==
    /\ ready
    /\ frame' \in Successors(frame)
    /\ \/ Looks(Synced(frame', scene)) /\ Returns(frame')
       \/ (\E half \in HalfSynced(frame', scene) : Looks(half)) /\ Raises
    /\ UNCHANGED <<ready, objects>>

\* An option of no, one or two primitive steps: the scene is shown every frame.
ExecuteOption ==
    /\ ready
    /\ \E first \in {frame} \cup Successors(frame) :
       LET between == Synced(first, scene) IN
        /\ frame' \in {first} \cup Successors(first)
        /\ \/ Looks(Synced(frame', between)) /\ Returns(frame')
           \/ /\ \E half \in HalfSynced(first, scene) \cup HalfSynced(frame', between) : Looks(half)
              /\ Raises
    /\ UNCHANGED <<ready, objects>>

SetCurriculumStage ==
    /\ \E active \in Elements : frame' = [frame EXCEPT !.active = active]
    /\ \/ Looks(IF ready THEN Synced(frame', scene) ELSE scene) /\ Returns(frame')
       \/ ready /\ (\E half \in HalfSynced(frame', scene) : Looks(half)) /\ Raises
    /\ UNCHANGED <<ready, objects>>

\* focus_cameras_on_structure does not ask whether the back end is ready; without
\* cameras it raises, after it has stopped the simulation.
FocusCameras ==
    /\ \/ StopTimesOut /\ Raises
       \/ \E s \in Stopped :
            \/ objects = AllObjects /\ StartsFrom(Synced(frame, s)) /\ Returns(frame)
            \/ (\E half \in HalfSynced(frame, s) \cup {Synced(frame, s)} : Rests(half)) /\ Raises
    /\ UNCHANGED <<frame, ready, objects>>

\* The frames of some diagnostics, of this episode or of an earlier one, are played,
\* and the scene is left at the last of them; then the film is written, which may fail.
\* The simulation is stopped even if playing fails, unless that stop times out too.
RecordEpisode ==
    /\ ready /\ objects = AllObjects
    /\ \/ StopTimesOut /\ Raises
       \/ \E begin \in Stopped, f \in {frame, LastFrame} :
          LET played == HalfSynced(f, begin) \cup {Synced(f, begin)} IN
            \/ (\E end \in {begin, Synced(f, begin)} : Rests(Synced(f, end))) /\ Returns(f)
            \/ (\E end \in played : Rests(end)) /\ Raises
            \/ (\E end \in played : RunsOn(end, begin)) /\ Raises
    /\ UNCHANGED <<frame, ready, objects>>

\* Seeded fault: the scene is brought up to date before the simulation is stopped.
SaveStoppedLast ==
    /\ ready
    /\ \E s \in {Synced(frame, scene)} \cup (IF sim = "running" THEN {atStart} ELSE {}) : Rests(s)
    /\ Returns(frame)
    /\ UNCHANGED <<frame, ready, objects>>

SaveScene ==
    /\ ready
    /\ \/ StopTimesOut /\ Raises
       \/ \E s \in Stopped :
            \/ Rests(Synced(frame, s)) /\ Returns(frame)
            \/ (\E half \in HalfSynced(frame, s) : Rests(half)) /\ Raises
    /\ UNCHANGED <<frame, ready, objects>>

\* A stop that times out is noted and swallowed.
Close ==
    /\ ready
    /\ StopTimesOut \/ \E s \in Stopped : Rests(s)
    /\ shown' = {}
    /\ UNCHANGED <<frame, ready, objects>>

Next ==
    \/ Reset \/ Step \/ ExecuteOption \/ SetCurriculumStage \/ FocusCameras
    \/ RecordEpisode \/ SaveScene \/ Close

Spec == Init /\ [][Next]_vars

-----------------------------------------------------------------------------
\* However calls failed before, one that returns has repaired the scene: what exists
\* of it shows the logical state, or the last recorded frame, whatever the simulator
\* did to it when it stopped.  That holds for places and markers.  Of orientations
\* only that what is installed has been turned: nothing turns an element back.
SceneMirrors ==
    \A f \in shown :
        /\ objects >= 1 => scene.agents = f.agents
        /\ objects >= 2 => /\ scene.place = [e \in Elements |-> Place(f, e)]
                           /\ 1..f.installed \subseteq scene.turned
        /\ objects >= 3 => scene.markers = 1..f.installed
=============================================================================
