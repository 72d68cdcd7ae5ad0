------------------------- MODULE Phase3Verification -------------------------
(***************************************************************************)
(* The driver of the phase-3 verification (phase3_verification.py): it     *)
(* runs a whole unit matrix through a real dispatcher, stops the           *)
(* dispatcher while a worker trains, has that worker fenced, killed and    *)
(* resumed under a second dispatcher, waits for the matrix, freezes the    *)
(* selections, runs the held-out evaluation and checks what it finds.      *)
(* Whatever goes wrong, it cancels what it has started.                    *)
(*                                                                         *)
(* The queue behind it is that of LabQueue as seen by one client of a      *)
(* registry of its own.  Not repeated here: reconciliation by an idle      *)
(* dispatcher, which finds no active run that it does not watch.           *)
(***************************************************************************)
EXTENDS Integers, FiniteSets

CONSTANTS
    Runs,    \* 1..n, the training runs of the matrix
    Steps    \* of each run, the checkpoints of a whole training after the one at the
             \* start, at least one

VARIABLES
    row,         \* of each job: status, attempt, token, and known, whether pid and
                 \* identity of the worker are in it
    disk,        \* of each job: the transitions of latest.pt (file) and of the last
                 \* checkpoint in row and events (logged); -1 where there is none
    log,         \* of each job: the attempts that started and that recorded what they
                 \* resumed, and the transitions the first of them resumed (resumed)
    worker,      \* of each job: how far its process is (at), and the transitions it has
                 \* written or loaded (own)
    stray,       \* the worker that was taken for gone while it lives: its job, and the
                 \* checkpoint it has still to write (-1 if none)
    dispatcher,  \* of the service at hand: at, the job it works on, told to stop
    driver       \* pc, the job it interrupts (picked), the transitions it saw, and
                 \* the jobs it still has to cancel (todo)

vars == <<row, disk, log, worker, stray, dispatcher, driver>>

Held == Cardinality(Runs) + 1     \* the held-out evaluation
Jobs == Runs \cup {Held}
NoJob == 0
NoStray == [job |-> NoJob, next |-> -1]
NoWorker == [at |-> "none", own |-> -1]

Active    == {"running", "cancel_requested"}
Pending   == {"queued", "resuming"}
Quiescent == {"completed", "failed", "cancelled", "interrupted"}

Init ==
    /\ row = [j \in Jobs |-> [status |-> "absent", attempt |-> 0, token |-> "none", known |-> FALSE]]
    /\ disk = [j \in Jobs |-> [file |-> -1, logged |-> -1]]
    /\ log = [j \in Jobs |-> [started |-> {}, linked |-> {}, resumed |-> -1]]
    /\ worker = [j \in Jobs |-> NoWorker]
    /\ stray = NoStray
    /\ dispatcher = [at |-> "idle", job |-> NoJob, stop |-> FALSE]
    /\ driver = [pc |-> "launch", picked |-> NoJob, seen |-> -1, todo |-> {}]

-----------------------------------------------------------------------------
(* A worker process.                                                       *)

Alive(j) == worker[j].at # "none"
Owns(j)  == row[j].status \in Active /\ row[j].token = "worker"
Gone(j)  == worker' = [worker EXCEPT ![j] = NoWorker]
HasCheckpoint(j) == disk[j].logged >= 0

\* finalize_run.
Final(j, status) ==
    row' = [row EXCEPT ![j] = [@ EXCEPT !.status = status, !.token = "none", !.known = FALSE]]

\* main: verify_claim, the provenance of a resumption, pid, and the started event.
Start(j) ==
    /\ worker[j].at = "launched" /\ Owns(j)
    /\ worker' = [worker EXCEPT ![j].at = "started"]
    /\ row' = [row EXCEPT ![j].known = TRUE]
    /\ log' = [log EXCEPT ![j].started = @ \cup {row[j].attempt},
                          ![j].linked = @ \cup (IF HasCheckpoint(j) THEN {row[j].attempt} ELSE {})]
    /\ UNCHANGED <<disk, dispatcher, driver>>

\* train_swarm_policy loads the checkpoint it was given; what it holds may be
\* newer than what was published.
Load(j) ==
    /\ worker[j].at = "started" /\ Owns(j)
    /\ worker' = [worker EXCEPT ![j] =
            [at |-> "working", own |-> IF HasCheckpoint(j) THEN disk[j].file ELSE -1]]
    /\ log' = IF HasCheckpoint(j) /\ log[j].resumed = -1
              THEN [log EXCEPT ![j].resumed = disk[j].file] ELSE log
    /\ UNCHANGED <<row, disk, dispatcher, driver>>

WriteCheckpoint(j) ==
    /\ worker[j].at = "working" /\ j \in Runs
    /\ worker[j].own = disk[j].logged /\ worker[j].own < Steps[j]
    /\ worker' = [worker EXCEPT ![j].own = @ + 1]
    /\ disk' = [disk EXCEPT ![j].file = worker[j].own + 1]
    /\ UNCHANGED <<row, log, dispatcher, driver>>

\* progress: into the row and the events.
Publish(j) ==
    /\ worker[j].at = "working" /\ Owns(j) /\ worker[j].own # disk[j].logged
    /\ disk' = [disk EXCEPT ![j].logged = worker[j].own]
    /\ UNCHANGED <<row, log, worker, dispatcher, driver>>

Finish(j) ==
    /\ worker[j].at = "working" /\ Owns(j)
    /\ j \in Runs => worker[j].own = Steps[j] /\ disk[j].logged = Steps[j]
    /\ Final(j, "completed") /\ Gone(j)
    /\ UNCHANGED <<disk, log, dispatcher, driver>>

\* An exception, the one of a cancellation included.
Raise(j) ==
    /\ worker[j].at \in {"started", "working"} /\ Owns(j)
    /\ Final(j, IF row[j].status = "cancel_requested" THEN "cancelled" ELSE "failed") /\ Gone(j)
    /\ UNCHANGED <<disk, log, dispatcher, driver>>

\* The process dies, or ends itself because the claim is no longer its own.
Die(j) ==
    /\ Alive(j) /\ Gone(j)
    /\ UNCHANGED <<row, disk, log, dispatcher, driver>>

WorkerStep(j) ==
    /\ Start(j) \/ Load(j) \/ WriteCheckpoint(j) \/ Publish(j) \/ Finish(j) \/ Raise(j) \/ Die(j)
    /\ UNCHANGED stray

\* A worker whose claim is lost learns of it when it next turns to the registry, after
\* it has written the checkpoint it trains for.
StrayWrites ==
    /\ stray.next # -1
    /\ disk' = [disk EXCEPT ![stray.job].file = stray.next]
    /\ stray' = [stray EXCEPT !.next = -1]
    /\ UNCHANGED <<row, log, worker, dispatcher, driver>>
StrayEnds ==
    /\ stray # NoStray /\ stray' = NoStray
    /\ UNCHANGED <<row, disk, log, worker, dispatcher, driver>>

StrayStep == StrayWrites \/ StrayEnds

-----------------------------------------------------------------------------
(* The dispatcher.                                                         *)

Claim(j) ==
    /\ dispatcher.at = "idle" /\ ~dispatcher.stop
    /\ \A i \in Jobs : row[i].status \notin Active
    /\ row[j].status \in Pending /\ \A i \in 1..(j - 1) : row[i].status \notin Pending
    /\ row' = [row EXCEPT ![j] =
            [status |-> "running", attempt |-> @.attempt + 1, token |-> "worker", known |-> FALSE]]
    /\ dispatcher' = [dispatcher EXCEPT !.at = "claimed", !.job = j]
    /\ UNCHANGED <<disk, log, worker, driver>>

\* Popen and the pid of the child; or neither.
Launch ==
    /\ dispatcher.at = "claimed"
    /\ LET j == dispatcher.job IN
       \/ /\ worker' = [worker EXCEPT ![j].at = "launched"]
          /\ row' = [row EXCEPT ![j].known = TRUE]
       \/ UNCHANGED <<worker, row>>
    /\ dispatcher' = [dispatcher EXCEPT !.at = "watching"]
    /\ UNCHANGED <<disk, log, driver>>

\* The child is gone; if its run is still active under its claim, it is closed.
Close ==
    /\ dispatcher.at = "watching" /\ ~Alive(dispatcher.job)
    /\ LET j == dispatcher.job
           outcome == IF j = Held \/ HasCheckpoint(j) THEN "interrupted" ELSE "failed"
       IN  IF Owns(j) THEN Final(j, outcome) ELSE UNCHANGED row
    /\ dispatcher' = [dispatcher EXCEPT !.at = "idle", !.job = NoJob]
    /\ UNCHANGED <<disk, log, worker, driver>>

\* A dispatcher told to stop leaves its worker alone.
Leave ==
    /\ dispatcher.stop
    /\ \/ dispatcher.at = "idle"
       \/ dispatcher.at = "watching" /\ Alive(dispatcher.job)
    /\ dispatcher' = [dispatcher EXCEPT !.at = "gone", !.job = NoJob]
    /\ UNCHANGED <<row, disk, log, worker, driver>>

Dispatch == ((\E j \in Jobs : Claim(j)) \/ Launch \/ Close \/ Leave) /\ UNCHANGED stray

-----------------------------------------------------------------------------
(* The driver.                                                             *)

At(pc) == driver.pc = pc
Goto(pc) == driver' = [driver EXCEPT !.pc = pc]
Unmoved == UNCHANGED <<row, disk, log, worker, dispatcher>>
Resume(js) == [j \in Jobs |-> IF j \in js
        THEN [row[j] EXCEPT !.status = "resuming", !.token = "none", !.known = FALSE] ELSE row[j]]

LaunchMatrix ==
    /\ At("launch")
    /\ row' = [j \in Jobs |-> IF j \in Runs THEN [row[j] EXCEPT !.status = "queued"] ELSE row[j]]
    /\ Goto("active")
    /\ UNCHANGED <<disk, log, worker, dispatcher>>

\* _wait_for_active_training_worker.
SeeWorker(j) ==
    /\ At("active") /\ row[j].status = "running" /\ row[j].known
    /\ driver' = [driver EXCEPT !.pc = "stop", !.picked = j]
    /\ Unmoved

\* shutdown, and its join: two seconds are taken to be enough for a dispatcher
\* that no longer waits for anything.  Those that are cancelled have ten seconds at most
\* to settle before that.
Stop(pc, next) ==
    /\ At(pc)
    /\ dispatcher' = [dispatcher EXCEPT !.stop = TRUE]
    /\ Goto(next)
    /\ UNCHANGED <<row, disk, log, worker>>
Join(pc, next) == At(pc) /\ dispatcher.at = "gone" /\ Goto(next) /\ Unmoved

Shutdown ==
    \/ Stop("stop", "join") \/ Join("join", "checkpoint")
    \/ Stop("verified", "leave") \/ Join("leave", "done")
    \/ (driver.todo = {} /\ Stop("cancel", "quit")) \/ Join("quit", "failed")

\* _wait_for_nonzero_checkpoint.
SeeCheckpoint ==
    /\ At("checkpoint")
    /\ LET j == driver.picked IN
       \/ row[j].status = "running" /\ disk[j].logged > 0 /\ Goto("transitions")
       \/ row[j].status \in Quiescent /\ Goto("clean up")
    /\ Unmoved

\* Read once more, after the poll.
ReadTransitions ==
    /\ At("transitions")
    /\ driver' = [driver EXCEPT !.pc = "fence", !.seen = disk[driver.picked].logged]
    /\ Unmoved

\* reconcile_stale_runs with every heartbeat counted as stale.
Fence ==
    /\ At("fence")
    /\ LET j == driver.picked IN
       IF row[j].status \in Active
       THEN row' = [row EXCEPT ![j].token = "reaper"] /\ Goto("release")
       ELSE UNCHANGED row /\ Goto("clean up")
    /\ UNCHANGED <<disk, log, worker, dispatcher>>

\* Seeded fault: the run is released and its worker left alone.
ReleaseRow ==
    /\ At("release")
    /\ Final(driver.picked, "interrupted") /\ Goto("resume")
    /\ UNCHANGED <<disk, log, worker, stray, dispatcher>>

\* What the worker of j will have written before it learns that its claim is lost.
LastCheckpoint(j) ==
    IF worker[j].at = "working" /\ worker[j].own = disk[j].logged /\ worker[j].own < Steps[j]
    THEN worker[j].own + 1 ELSE -1

\* The worker is dead or killed, or is taken for gone because a call about it failed,
\* and its run is released; or it cannot be identified, and the run stays fenced and
\* is not among those returned.
Release ==
    /\ At("release")
    /\ LET j == driver.picked IN
       \/ /\ Final(j, "interrupted") /\ Gone(j) /\ Goto("resume")
          /\ \/ UNCHANGED stray
             \/ Alive(j) /\ stray' = [job |-> j, next |-> LastCheckpoint(j)]
       \/ Alive(j) /\ UNCHANGED <<row, worker, stray>> /\ Goto("clean up")
    /\ UNCHANGED <<disk, log, dispatcher>>

ResumePicked ==
    /\ At("resume")
    /\ row' = Resume({driver.picked}) /\ Goto("restart")
    /\ UNCHANGED <<disk, log, worker, dispatcher>>

Restart ==
    /\ At("restart")
    /\ dispatcher' = [at |-> "idle", job |-> NoJob, stop |-> FALSE]
    /\ Goto("matrix")
    /\ UNCHANGED <<row, disk, log, worker>>

Stopped(j)   == row[j].status = "interrupted" /\ HasCheckpoint(j)
Exhausted(j) == Stopped(j) /\ row[j].attempt >= 3
Lost(j)      == row[j].status \in {"failed", "cancelled"} \/ Exhausted(j)

\* _wait_for_training_matrix, one look: those before the first that is lost are resumed.
PollMatrix ==
    /\ At("matrix")
    /\ LET lost == {j \in Runs : Lost(j)}
           again == {j \in Runs : Stopped(j) /\ \A i \in lost : j < i}
       IN  \/ /\ \A j \in Runs : row[j].status = "completed"
              /\ Goto("evidence") /\ UNCHANGED row
           \/ lost # {} /\ row' = Resume(again) /\ Goto("clean up")
           \/ lost = {} /\ again # {} /\ row' = Resume(again) /\ UNCHANGED driver
    /\ UNCHANGED <<disk, log, worker, dispatcher>>

\* _complete_interruption_evidence.
Proven(j) ==
    /\ row[j].status = "completed"
    /\ {1, 2} \subseteq log[j].started /\ 2 \in log[j].linked
    /\ log[j].resumed >= driver.seen
CompleteEvidence ==
    /\ At("evidence")
    /\ Goto(IF Proven(driver.picked) THEN "select" ELSE "clean up")
    /\ Unmoved

\* The selections are evaluated, frozen and verified, which may raise; then the
\* held-out evaluation is queued.
Select ==
    /\ At("select")
    /\ \/ row' = [row EXCEPT ![Held].status = "queued"] /\ Goto("held-out")
       \/ UNCHANGED row /\ Goto("clean up")
    /\ UNCHANGED <<disk, log, worker, dispatcher>>

\* _wait_for_run, and the verification of what it left, which may raise.
SeeHeldOut ==
    /\ At("held-out")
    /\ \/ row[Held].status = "completed" /\ Goto("verified")
       \/ row[Held].status \in Quiescent /\ Goto("clean up")
    /\ Unmoved

\* The deadline, or a source that changed: looked at in every wait.
TimeOut ==
    /\ driver.pc \in {"active", "checkpoint", "matrix", "held-out"}
    /\ Goto("clean up") /\ Unmoved

\* Seeded fault: only what runs is cancelled.
IncompleteActive(status) == status \in Active

Incomplete(status) == status \notin Quiescent \cup {"absent"}

\* _cancel_incomplete_runs: which those are is read first; what was interrupted is
\* no longer of interest.
CleanUp ==
    /\ At("clean up")
    /\ driver' = [pc |-> "cancel", picked |-> NoJob, seen |-> -1,
                  todo |-> {j \in Jobs : Incomplete(row[j].status)}]
    /\ Unmoved
CancelOne(j) ==
    /\ At("cancel") /\ j \in driver.todo /\ \A i \in driver.todo : j <= i
    /\ row' = [row EXCEPT ![j].status =
            IF @ \in Pending THEN "cancelled" ELSE IF @ \in Active THEN "cancel_requested" ELSE @]
    /\ driver' = [driver EXCEPT !.todo = @ \ {j}]
    /\ UNCHANGED <<disk, log, worker, dispatcher>>

Drive ==
    \/ Release
    \/ /\ \/ LaunchMatrix \/ Shutdown \/ SeeCheckpoint \/ ReadTransitions \/ Fence
          \/ ResumePicked \/ Restart \/ PollMatrix \/ CompleteEvidence \/ Select \/ SeeHeldOut
          \/ TimeOut \/ CleanUp
          \/ \E j \in Jobs : SeeWorker(j) \/ CancelOne(j)
       /\ UNCHANGED stray

Next == Drive \/ Dispatch \/ StrayStep \/ \E j \in Jobs : WorkerStep(j)

\* The driver and the dispatcher are running threads; workers owe nothing.
Fairness == WF_vars(Drive) /\ WF_vars(Dispatch)

Spec == Init /\ [][Next]_vars /\ Fairness

-----------------------------------------------------------------------------
\* The slot is used by one process at a time, across the two dispatchers; a worker that
\* was taken for gone may live beside another, but its attempt never has the slot again.
OneWorker ==
    /\ \A i, j \in Jobs : Alive(i) /\ Alive(j) => i = j
    /\ stray # NoStray /\ row[stray.job].status \in Active => row[stray.job].attempt >= 2

\* A verification that succeeds has trained every run to its end in at most three
\* attempts, and the run it interrupted was started again from no less than what had
\* been seen of it.
VerifiedInFull ==
    driver.pc \in {"verified", "leave", "done"} =>
        /\ \A j \in Runs : disk[j].logged = Steps[j] /\ row[j].attempt \in 1..3
        /\ row[driver.picked].attempt >= 2
        /\ driver.seen > 0 /\ log[driver.picked].resumed >= driver.seen

\* One that fails leaves nothing that a later dispatcher would start, and nothing
\* running that has not been asked to stop.
NothingLeft == At("failed") => \A j \in Jobs : row[j].status \notin Pending \cup {"running"}

Phase3Sound == OneWorker /\ VerifiedInFull /\ NothingLeft

\* The driver ends: every wait has the deadline.
Phase3Ends == <>(driver.pc \in {"done", "failed"})
=============================================================================
