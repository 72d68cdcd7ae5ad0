------------------------------ MODULE LabQueue ------------------------------
(***************************************************************************)
(* The durable single-slot job queue of the construction lab: the run rows *)
(* of the SQLite registry (lab_registry.py), the dispatcher thread of each *)
(* LabService on that registry (lab_service.py), the worker subprocess of  *)
(* each claim (lab_worker.py), and the users who submit, cancel and resume *)
(* runs.  Every registry method is one SQLite transaction, hence one       *)
(* action; everything a thread does between two transactions is a          *)
(* separate step that other services, workers and users interleave with.   *)
(*                                                                         *)
(* A claim token is a fresh uuid per claim, so it is named by the run and  *)
(* the attempt that claim starts: a LEASE is a pair <<run, attempt>>, and  *)
(* the row's token says whether the worker or a reaper holds the current   *)
(* one.  The lease also names the worker process spawned for it.           *)
(*                                                                         *)
(* A definition whose comment starts with "Seeded fault" is not part of    *)
(* the specification: it is the definition after it with a plausible bug,  *)
(* kept to confirm that a property notices (README, "Seeded faults").      *)
(***************************************************************************)
EXTENDS Naturals, FiniteSets

CONSTANTS
    NumRuns,      \* bound: rows created in the registry, in creation order
    MaxAttempts,  \* bound: a run is not resumed after this many attempts
    Services,     \* the LabService objects sharing the registry
    Matrices,     \* experiment matrices an evaluation can be for
    Training,     \* the job of a training run
    LogMayFail,   \* whether writing the JSONL event mirror may raise OSError
    ProbeMayFail  \* whether a call that asks for a process may fail

ASSUME QueueAssumption ==
    /\ NumRuns \in Nat /\ MaxAttempts \in Nat \ {0}
    /\ Training \notin Matrices
    /\ LogMayFail \in BOOLEAN /\ ProbeMayFail \in BOOLEAN

Runs     == 1..NumRuns
Attempts == 1..MaxAttempts
Leases   == Runs \X Attempts
NoLease  == <<0, 0>>
Jobs     == {Training} \cup Matrices

Active    == {"running", "cancel_requested"}
Pending   == {"queued", "resuming"}
Terminal  == {"completed", "failed", "cancelled"}
Quiescent == Terminal \cup {"interrupted"}
\* Seeded fault: every run that has stopped may be resumed.
AnyQuiescent == Quiescent
Resumable == {"interrupted", "failed", "cancelled"}
Statuses  == {"absent"} \cup Active \cup Pending \cup Quiescent

\* Statuses that block a second evaluation of the same matrix.
Deduplicated == {"queued", "running", "cancel_requested", "resuming", "completed"}

VARIABLES
    \* the runs table
    status, job, attempt, token, pid, fresh, cancelFlag, checkpoint, lineage,
    \* the policies and evaluations tables, as the leases that wrote a row
    policies, evaluations,
    \* the worker process of each lease
    proc,
    \* per service: the dispatcher thread and the claim it is working on
    dpc, lease,
    \* per service: the lease its reconciliation is reaping, the pid it read
    \* when it fenced it, and whether it believes that process to be gone
    reap, seen, gone,
    \* history: the leases whose living worker a reaper took for gone
    mistaken

row      == <<status, job, attempt, token, pid, fresh, cancelFlag, checkpoint, lineage>>
tables   == <<policies, evaluations>>
dispatch == <<dpc, lease>>
reaper   == <<reap, seen, gone, mistaken>>
vars     == <<row, tables, proc, dispatch, reaper>>

\* A worker process: launched by Popen, then past verify_claim, past the
\* resume provenance, past the registration of its pid, in the job, past the
\* upsert of the evaluation row, or about to commit an outcome.
Closing    == {"completing", "failing", "cancelling"}
Registered == {"registered", "executing", "evaluated"} \cup Closing
Alive      == {"launched", "verified", "linked"} \cup Registered
ProcStates == {"absent", "exited"} \cup Alive

DispatcherStates ==
    {"down", "dead", "idle", "claimed", "spawned", "recorded", "watching",
     "launchFailed", "exited", "closing"}

Init ==
    /\ status = [r \in Runs |-> "absent"]
    /\ job = [r \in Runs |-> Training]
    /\ attempt = [r \in Runs |-> 0]
    /\ token = [r \in Runs |-> "none"]
    /\ pid = [r \in Runs |-> 0]
    /\ fresh = [r \in Runs |-> FALSE]
    /\ cancelFlag = [r \in Runs |-> FALSE]
    /\ checkpoint = [r \in Runs |-> FALSE]
    /\ lineage = [r \in Runs |-> {}]
    /\ policies = {}
    /\ evaluations = {}
    /\ proc = [l \in Leases |-> "absent"]
    /\ dpc = [s \in Services |-> "idle"]
    /\ lease = [s \in Services |-> NoLease]
    /\ reap = [s \in Services |-> NoLease]
    /\ seen = [s \in Services |-> 0]
    /\ gone = [s \in Services |-> FALSE]
    /\ mistaken = {}

-----------------------------------------------------------------------------
(* Users: the REST API, manage_construction_runs.py and the train script.  *)

\* create_run and create_matrix_evaluation_run.  The second refuses while the
\* matrix has an evaluation that is not interrupted, failed or cancelled.
Submit(r, j) ==
    /\ status[r] = "absent"
    /\ \A q \in Runs : q < r => status[q] # "absent"
    /\ j \in Matrices =>
         \A q \in Runs : job[q] = j => status[q] \notin Deduplicated
    /\ status' = [status EXCEPT ![r] = "queued"]
    /\ job' = [job EXCEPT ![r] = j]
    /\ UNCHANGED <<attempt, token, pid, fresh, cancelFlag, checkpoint, lineage>>
    /\ UNCHANGED <<tables, proc, dispatch, reaper>>

\* A pending run is cancelled at once; an active one is asked to stop.
RequestCancel(r) ==
    /\ status[r] \notin Quiescent \cup {"absent"}
    /\ status' = [status EXCEPT ![r] =
                    IF @ \in Pending THEN "cancelled" ELSE "cancel_requested"]
    /\ cancelFlag' = [cancelFlag EXCEPT ![r] = TRUE]
    /\ UNCHANGED <<job, attempt, token, pid, fresh, checkpoint, lineage>>
    /\ UNCHANGED <<tables, proc, dispatch, reaper>>

\* Only an evaluation restarts from nothing; training needs a checkpoint.
RequestResume(r) ==
    /\ status[r] \in Resumable
    /\ job[r] \in Matrices \/ checkpoint[r]
    /\ attempt[r] < MaxAttempts
    /\ status' = [status EXCEPT ![r] = "resuming"]
    /\ cancelFlag' = [cancelFlag EXCEPT ![r] = FALSE]
    /\ token' = [token EXCEPT ![r] = "none"]
    /\ pid' = [pid EXCEPT ![r] = 0]
    /\ UNCHANGED <<job, attempt, fresh, checkpoint, lineage>>
    /\ UNCHANGED <<tables, proc, dispatch, reaper>>

-----------------------------------------------------------------------------
(* Row updates shared by several callers.                                   *)

\* Seeded fault: the fence compares the attempt and forgets the token.
OwnsAttempt(l) == status[l[1]] \in Active /\ attempt[l[1]] = l[2]
\* Seeded fault: the fence only asks whether the run is active.
OwnsActiveRun(l) == status[l[1]] \in Active

\* The WHERE clause of every claim-bound statement, for a worker's token and
\* for a reaper's token.
Owns(l)  == /\ status[l[1]] \in Active
            /\ token[l[1]] = "worker"
            /\ attempt[l[1]] = l[2]
Fences(l) == /\ status[l[1]] \in Active
             /\ token[l[1]] = "reaper"
             /\ attempt[l[1]] = l[2]

\* Seeded fault: the outcome leaves the pid of the worker in the row.
FinalizeKeepingPid(r, outcome) ==
    /\ status' = [status EXCEPT ![r] = outcome]
    /\ token' = [token EXCEPT ![r] = "none"]
    /\ fresh' = [fresh EXCEPT ![r] = FALSE]
    /\ UNCHANGED <<pid, job, attempt, cancelFlag, checkpoint, lineage>>

\* finalize_run: the outcome releases the slot and forgets the worker.
Finalize(r, outcome) ==
    /\ status' = [status EXCEPT ![r] = outcome]
    /\ token' = [token EXCEPT ![r] = "none"]
    /\ pid' = [pid EXCEPT ![r] = 0]
    /\ fresh' = [fresh EXCEPT ![r] = FALSE]
    /\ UNCHANGED <<job, attempt, cancelFlag, checkpoint, lineage>>

\* update_run(pid=..., heartbeat=True) under the worker's token.
Heartbeat(l) ==
    /\ pid' = [pid EXCEPT ![l[1]] = l[2]]
    /\ fresh' = [fresh EXCEPT ![l[1]] = TRUE]
    /\ UNCHANGED <<status, job, attempt, token, cancelFlag, lineage>>

\* Sixty seconds pass without a heartbeat: the clock, not the code.
LeaseExpires(r) ==
    /\ status[r] \in Active /\ fresh[r]
    /\ fresh' = [fresh EXCEPT ![r] = FALSE]
    /\ UNCHANGED <<status, job, attempt, token, pid, cancelFlag, checkpoint, lineage>>
    /\ UNCHANGED <<tables, proc, dispatch, reaper>>

-----------------------------------------------------------------------------
(* The dispatcher thread of a service, between its reconciliations.        *)

Dispatcher(s, at) == dpc[s] = at /\ reap[s] = NoLease
Goto(s, to) == dpc' = [dpc EXCEPT ![s] = to] /\ UNCHANGED lease
Leave(s, to) == /\ dpc' = [dpc EXCEPT ![s] = to]
                /\ lease' = [lease EXCEPT ![s] = NoLease]

\* Seeded fault: a resumed run is not a candidate.
OldestQueued(r) ==
    /\ status[r] = "queued"
    /\ \A q \in Runs : q < r => status[q] # "queued"

OldestPending(r) ==
    /\ status[r] \in Pending
    /\ \A q \in Runs : q < r => status[q] \notin Pending

\* Seeded fault: a run that was asked to stop no longer counts as active.
NoneRunning == \A q \in Runs : status[q] # "running"
SlotFree == \A q \in Runs : status[q] \notin Active

\* claim_next_durable_job: refused while any run is active.  The event that
\* records the claim is written after the commit; if its mirror cannot be
\* written the exception leaves the thread.
Claim(s, r) ==
    /\ Dispatcher(s, "idle")
    /\ SlotFree
    /\ OldestPending(r)
    /\ status' = [status EXCEPT ![r] = "running"]
    /\ token' = [token EXCEPT ![r] = "worker"]
    /\ attempt' = [attempt EXCEPT ![r] = @ + 1]
    /\ fresh' = [fresh EXCEPT ![r] = TRUE]
    /\ pid' = [pid EXCEPT ![r] = 0]
    /\ \/ /\ dpc' = [dpc EXCEPT ![s] = "claimed"]
          /\ lease' = [lease EXCEPT ![s] = <<r, attempt[r] + 1>>]
       \/ /\ LogMayFail
          /\ Leave(s, "dead")
    /\ UNCHANGED <<job, cancelFlag, checkpoint, lineage, tables, proc, reaper>>

\* Popen, or an OSError from it or from opening the process log.
Launch(s) ==
    /\ Dispatcher(s, "claimed")
    /\ proc' = [proc EXCEPT ![lease[s]] = "launched"]
    /\ Goto(s, "spawned")
    /\ UNCHANGED <<row, tables, reaper>>

LaunchFails(s) ==
    /\ Dispatcher(s, "claimed")
    /\ Goto(s, "launchFailed")
    /\ UNCHANGED <<row, tables, proc, reaper>>

\* Record the child's pid.  A lost claim raises LostRunClaimError, which no
\* handler of the dispatcher thread catches.
RecordPid(s) ==
    /\ Dispatcher(s, "spawned")
    /\ \/ /\ Owns(lease[s])
          /\ Heartbeat(lease[s]) /\ UNCHANGED checkpoint
          /\ Goto(s, "recorded")
       \/ /\ ~Owns(lease[s])
          /\ Leave(s, "dead")
          /\ UNCHANGED row
    /\ UNCHANGED <<tables, proc, reaper>>

\* append_event(worker_started): fenced by the token, then mirrored.  An
\* OSError of the mirror is taken for a failed launch.
AnnounceWorker(s) ==
    /\ Dispatcher(s, "recorded")
    /\ \/ Owns(lease[s]) /\ Goto(s, "watching")
       \/ Owns(lease[s]) /\ LogMayFail /\ Goto(s, "launchFailed")
       \/ ~Owns(lease[s]) /\ Leave(s, "dead")
    /\ UNCHANGED <<row, tables, proc, reaper>>

\* process.poll() reports that the child is gone.
SeeExit(s) ==
    /\ Dispatcher(s, "watching")
    /\ proc[lease[s]] = "exited"
    /\ Goto(s, "exited")
    /\ UNCHANGED <<row, tables, proc, reaper>>

\* append_event(worker_launch_failed), inside the except clause.
AnnounceLaunchFailure(s) ==
    /\ Dispatcher(s, "launchFailed")
    /\ \/ Owns(lease[s]) /\ Goto(s, "exited")
       \/ (LogMayFail \/ ~Owns(lease[s])) /\ Leave(s, "dead")
    /\ UNCHANGED <<row, tables, proc, reaper>>

\* get_run after the worker: is the claim still the one this thread made?
ReadOutcome(s) ==
    /\ Dispatcher(s, "exited")
    /\ \/ Owns(lease[s]) /\ Goto(s, "closing")
       \/ ~Owns(lease[s]) /\ Leave(s, "idle")
    /\ UNCHANGED <<row, tables, proc, reaper>>

\* finalize_run on behalf of a worker that exited without an outcome.  What
\* get_run read (kind, checkpoint) cannot change once the worker is gone.
CloseForWorker(s) ==
    /\ Dispatcher(s, "closing")
    /\ LET r == lease[s][1] IN
       \/ /\ Owns(lease[s])
          /\ Finalize(r, IF job[r] \in Matrices \/ checkpoint[r]
                         THEN "interrupted" ELSE "failed")
          /\ \/ Leave(s, "idle")
             \/ LogMayFail /\ Leave(s, "dead")
       \/ /\ ~Owns(lease[s])
          /\ Leave(s, "dead")
          /\ UNCHANGED row
    /\ UNCHANGED <<tables, proc, reaper>>

\* The process that hosts the service stops or crashes; the worker survives.
StopService(s) ==
    /\ dpc[s] # "down"
    /\ Leave(s, "down")
    /\ reap' = [reap EXCEPT ![s] = NoLease]
    /\ seen' = [seen EXCEPT ![s] = 0]
    /\ gone' = [gone EXCEPT ![s] = FALSE]
    /\ UNCHANGED <<row, tables, proc, mistaken>>

StartService(s) ==
    /\ dpc[s] = "down"
    /\ Goto(s, "idle")
    /\ UNCHANGED <<row, tables, proc, reaper>>

-----------------------------------------------------------------------------
(* reconcile_stale_runs, which a dispatcher runs while it has nothing to    *)
(* claim and while it watches its worker.                                   *)

EndReap(s) ==
    /\ reap' = [reap EXCEPT ![s] = NoLease]
    /\ seen' = [seen EXCEPT ![s] = 0]
    /\ gone' = [gone EXCEPT ![s] = FALSE]
    /\ UNCHANGED mistaken

\* Seeded fault: the age of the heartbeat is not looked at.
ActiveRun(r) == status[r] \in Active
\* Seeded fault: a run fenced earlier is not looked at again.
StaleUnfenced(r) == status[r] \in Active /\ ~fresh[r] /\ token[r] = "worker"
Stale(r) == status[r] \in Active /\ ~fresh[r]

\* _fence_stale_worker: take the token away (or join the reaper that did)
\* while the run keeps its slot.
Fence(s, r) ==
    /\ dpc[s] \in {"idle", "watching"} /\ reap[s] = NoLease
    /\ Stale(r)
    /\ token' = [token EXCEPT ![r] = "reaper"]
    /\ reap' = [reap EXCEPT ![s] = <<r, attempt[r]>>]
    /\ seen' = [seen EXCEPT ![s] = pid[r]]
    /\ UNCHANGED <<status, job, attempt, pid, fresh, cancelFlag, checkpoint, lineage>>
    /\ UNCHANGED <<tables, proc, dispatch, gone, mistaken>>

\* The process whose pid the reaper read in the fenced row.
Suspect(s) == <<reap[s][1], seen[s]>>
SuspectAlive(s) == seen[s] # 0 /\ proc[Suspect(s)] \in Alive
Reaping(s) == reap[s] # NoLease /\ ~gone[s]

\* No pid recorded, or no live process with that pid and identity.
FindGone(s) ==
    /\ Reaping(s)
    /\ ~SuspectAlive(s)
    /\ gone' = [gone EXCEPT ![s] = TRUE]
    /\ UNCHANGED <<row, tables, proc, dispatch, reap, seen, mistaken>>

\* The identity matches: terminate the process and wait for it.
Terminate(s) ==
    /\ Reaping(s)
    /\ SuspectAlive(s)
    /\ proc' = [proc EXCEPT ![Suspect(s)] = "exited"]
    /\ gone' = [gone EXCEPT ![s] = TRUE]
    /\ UNCHANGED <<row, tables, dispatch, reap, seen, mistaken>>

\* A call about the process fails and the failure is read as its absence:
\* _process_alive answers False when a process cannot be opened or signalled,
\* and on POSIX an identity that cannot be read again, or is read without
\* its boot id, differs from the recorded one, which means another process.
TakeForGone(s) ==
    /\ ProbeMayFail
    /\ Reaping(s)
    /\ SuspectAlive(s)
    /\ gone' = [gone EXCEPT ![s] = TRUE]
    /\ mistaken' = mistaken \cup {Suspect(s)}
    /\ UNCHANGED <<row, tables, proc, dispatch, reap, seen>>

\* No identity to compare, a process that may not be stopped, or an exit not
\* verified in time: keep the fence, try again later.
GiveUp(s) ==
    /\ Reaping(s)
    /\ SuspectAlive(s)
    /\ EndReap(s)
    /\ UNCHANGED <<row, tables, proc, dispatch>>

\* finalize_run under the reaper's token; another reaper may have been first.
\* An OSError of the mirror is again taken for a failed launch.
Release(s) ==
    /\ reap[s] # NoLease /\ gone[s]
    /\ EndReap(s)
    /\ \/ /\ Fences(reap[s])
          /\ Finalize(reap[s][1], "interrupted")
          /\ \/ UNCHANGED dispatch
             \/ LogMayFail /\ dpc[s] = "idle" /\ Leave(s, "dead")
             \/ LogMayFail /\ dpc[s] = "watching" /\ Goto(s, "launchFailed")
       \/ ~Fences(reap[s]) /\ UNCHANGED <<row, dispatch>>
    /\ UNCHANGED <<tables, proc>>

-----------------------------------------------------------------------------
(* The worker process of lease l.                                           *)

Worker(l, at) == proc[l] = at
Step(l, to) == proc' = [proc EXCEPT ![l] = to]
Exit(l) == Step(l, "exited")

\* Seeded fault: the wrong kind of run is taken for a continued one.
ContinuesEvaluation(r) == job[r] \in Matrices /\ checkpoint[r]
\* A training attempt that continues from a recorded checkpoint.
Continues(r) == job[r] = Training /\ checkpoint[r]

VerifyClaim(l) ==
    /\ Worker(l, "launched")
    /\ IF Owns(l) THEN Step(l, "verified") ELSE Exit(l)
    /\ UNCHANGED <<row, tables, dispatch, reaper>>

\* record_resume_provenance, only for a training run with a checkpoint.
RecordProvenance(l) ==
    /\ Worker(l, "verified") /\ Continues(l[1])
    /\ \/ /\ Owns(l)
          /\ lineage' = [lineage EXCEPT ![l[1]] = @ \cup {l[2]}]
          /\ Step(l, "linked")
       \/ ~Owns(l) /\ Exit(l) /\ UNCHANGED lineage
    /\ UNCHANGED <<status, job, attempt, token, pid, fresh, cancelFlag, checkpoint>>
    /\ UNCHANGED <<tables, dispatch, reaper>>

\* The worker writes its own pid; without the claim the exception ends it.
Register(l) ==
    /\ Worker(l, IF Continues(l[1]) THEN "linked" ELSE "verified")
    /\ \/ Owns(l) /\ Heartbeat(l) /\ UNCHANGED checkpoint /\ Step(l, "registered")
       \/ ~Owns(l) /\ Exit(l) /\ UNCHANGED row
    /\ UNCHANGED <<tables, dispatch, reaper>>

AnnounceStart(l) ==
    /\ Worker(l, "registered")
    /\ IF Owns(l) THEN Step(l, "executing") ELSE Exit(l)
    /\ UNCHANGED <<row, tables, dispatch, reaper>>

\* The heartbeat thread; when it loses the claim it only stops beating.
Beat(l) ==
    /\ proc[l] \in Registered \ {"registered"} /\ Owns(l)
    /\ Heartbeat(l) /\ UNCHANGED checkpoint
    /\ UNCHANGED <<proc, tables, dispatch, reaper>>

\* progress(): a training job reports the checkpoint it has just saved.
ReportCheckpoint(l) ==
    /\ Worker(l, "executing") /\ job[l[1]] = Training
    /\ \/ /\ Owns(l) /\ Heartbeat(l)
          /\ checkpoint' = [checkpoint EXCEPT ![l[1]] = TRUE]
          /\ UNCHANGED proc
       \/ ~Owns(l) /\ Exit(l) /\ UNCHANGED row
    /\ UNCHANGED <<tables, dispatch, reaper>>

\* Seeded fault: the poll notices a lost claim but not a cancellation.
ClaimCheck(l) ==
    /\ Worker(l, "executing")
    /\ ~Owns(l) /\ Exit(l)
    /\ UNCHANGED <<row, tables, dispatch, reaper>>

\* cancel_requested(), polled by the job: stop if the claim is lost, raise if
\* the user asked to cancel.  LastCheck is the call after the evaluation row
\* was written, whose negative answer leads to the completing commit.
CancelCheck(l) ==
    /\ Worker(l, "executing")
    /\ \/ ~Owns(l) /\ Exit(l)
       \/ Owns(l) /\ cancelFlag[l[1]] /\ Step(l, "cancelling")
    /\ UNCHANGED <<row, tables, dispatch, reaper>>

LastCheck(l) ==
    /\ Worker(l, "evaluated")
    /\ \/ ~Owns(l) /\ Exit(l)
       \/ Owns(l) /\ cancelFlag[l[1]] /\ Step(l, "cancelling")
       \/ Owns(l) /\ ~cancelFlag[l[1]] /\ Step(l, "completing")
    /\ UNCHANGED <<row, tables, dispatch, reaper>>

\* upsert_evaluation is not bound to the claim.
UpsertEvaluation(l) ==
    /\ Worker(l, "executing") /\ job[l[1]] \in Matrices
    /\ evaluations' = evaluations \cup {l}
    /\ Step(l, "evaluated")
    /\ UNCHANGED <<row, policies, dispatch, reaper>>

\* train_swarm_policy returns; it reported a checkpoint before that.
FinishTraining(l) ==
    /\ Worker(l, "executing") /\ Continues(l[1])
    /\ Step(l, "completing")
    /\ UNCHANGED <<row, tables, dispatch, reaper>>

\* The job raises: the handler asks whether a cancellation explains it.
JobRaises(l) ==
    /\ proc[l] \in {"executing", "evaluated"}
    /\ Step(l, IF cancelFlag[l[1]] THEN "cancelling" ELSE "failing")
    /\ UNCHANGED <<row, tables, dispatch, reaper>>

\* Seeded fault: a status that is not one of the public run states.
OutcomeError(pc) == IF pc = "completing" THEN "completed" ELSE "error"
Outcome(pc) == CASE pc = "completing" -> "completed"
                 [] pc = "failing"    -> "failed"
                 [] OTHER             -> "cancelled"

\* finalize_run by the worker: one transaction with the policy row.
Commit(l) ==
    /\ proc[l] \in Closing
    /\ \/ /\ Owns(l)
          /\ Finalize(l[1], Outcome(proc[l]))
          /\ policies' = IF proc[l] = "completing" /\ job[l[1]] = Training
                         THEN policies \cup {l} ELSE policies
       \/ ~Owns(l) /\ UNCHANGED <<row, policies>>
    /\ Exit(l)
    /\ UNCHANGED <<evaluations, dispatch, reaper>>

\* The process is killed or dies at any point.
Die(l) ==
    /\ proc[l] \in Alive
    /\ Exit(l)
    /\ UNCHANGED <<row, tables, dispatch, reaper>>

-----------------------------------------------------------------------------
UserNext == \E r \in Runs :
    \/ \E j \in Jobs : Submit(r, j)
    \/ RequestCancel(r)
    \/ RequestResume(r)

ServiceStep(s) ==
    \/ \E r \in Runs : Claim(s, r)
    \/ Launch(s) \/ LaunchFails(s) \/ RecordPid(s) \/ AnnounceWorker(s)
    \/ SeeExit(s) \/ AnnounceLaunchFailure(s) \/ ReadOutcome(s)
    \/ CloseForWorker(s)

ReaperStep(s) ==
    \/ \E r \in Runs : Fence(s, r)
    \/ FindGone(s) \/ Terminate(s) \/ TakeForGone(s) \/ GiveUp(s) \/ Release(s)

WorkerStep(l) ==
    \/ VerifyClaim(l) \/ RecordProvenance(l) \/ Register(l) \/ AnnounceStart(l)
    \/ Beat(l) \/ ReportCheckpoint(l) \/ CancelCheck(l) \/ LastCheck(l)
    \/ UpsertEvaluation(l) \/ FinishTraining(l) \/ JobRaises(l) \/ Commit(l)
    \/ Die(l)

Next ==
    \/ UserNext
    \/ \E r \in Runs : LeaseExpires(r)
    \/ \E s \in Services : ServiceStep(s) \/ ReaperStep(s) \/ StopService(s) \/ StartService(s)
    \/ \E l \in Leases : WorkerStep(l)

Spec == Init /\ [][Next]_vars

\* What the code's scheduling gives: a live dispatcher thread keeps running
\* its loop; a live worker process keeps executing, although its job may take
\* for ever between two polls' answers; and a lease whose worker is not alive
\* to renew it does expire.  Nothing makes a user act, a process die, a
\* service stop or start, or a job end.
Proceed(l) ==
    \/ VerifyClaim(l) \/ RecordProvenance(l) \/ Register(l) \/ AnnounceStart(l)
    \/ CancelCheck(l) \/ LastCheck(l) \/ Commit(l)

Unattended(r) == attempt[r] # 0 /\ proc[<<r, attempt[r]>>] \notin Alive

Fairness ==
    /\ \A s \in Services : WF_vars(ServiceStep(s)) /\ WF_vars(ReaperStep(s))
    /\ \A l \in Leases : WF_vars(Proceed(l))
    /\ \A r \in Runs : WF_vars(Unattended(r) /\ LeaseExpires(r))

LiveSpec == Spec /\ Fairness

-----------------------------------------------------------------------------
(* The queue seen as a slot that is granted, worked in and given back.     *)

\* Leases with a worker past the registration of its pid, apart from those a
\* reaper took for gone: nobody knows any more that these are running.
AtWork == {l \in Leases : proc[l] \in Registered} \ mistaken

Slot == INSTANCE SlotLease WITH
    Jobs     <- Runs,
    waiting  <- {r \in Runs : status[r] \in Pending},
    holding  <- {r \in Runs : status[r] \in Active},
    ticket   <- attempt,
    working  <- AtWork,
    finished <- {r \in Runs : status[r] = "completed"}

\* With the event mirror always writable, the queue implements the slot, in
\* which a worker that was taken for gone is at work no longer.
ImplementsSlot == Slot!SlotSpec

-----------------------------------------------------------------------------
(* Properties.                                                              *)

\* The value each variable may take.
TypeOK ==
    /\ status \in [Runs -> Statuses]
    /\ job \in [Runs -> Jobs]
    /\ attempt \in [Runs -> 0..MaxAttempts]
    /\ token \in [Runs -> {"none", "worker", "reaper"}]
    /\ pid \in [Runs -> 0..MaxAttempts]
    /\ fresh \in [Runs -> BOOLEAN]
    /\ cancelFlag \in [Runs -> BOOLEAN]
    /\ checkpoint \in [Runs -> BOOLEAN]
    /\ lineage \in [Runs -> SUBSET Attempts]
    /\ policies \subseteq Leases
    /\ evaluations \subseteq Leases
    /\ proc \in [Leases -> ProcStates]
    /\ dpc \in [Services -> DispatcherStates]
    /\ lease \in [Services -> Leases \cup {NoLease}]
    /\ reap \in [Services -> Leases \cup {NoLease}]
    /\ seen \in [Services -> 0..MaxAttempts]
    /\ gone \in [Services -> BOOLEAN]
    /\ mistaken \subseteq Leases

\* At most one durable run is running or being cancelled, whatever services,
\* reapers and users do (claim_next_durable_job, finalize_run).
SingleSlot ==
    \A q, r \in Runs : status[q] \in Active /\ status[r] \in Active => q = r

\* A run that released the slot names no worker, one that holds it names at
\* most the worker of its current attempt, and a run waiting to be claimed
\* does not carry the cancellation of an earlier attempt into the next one.
RowConsistent ==
    \A r \in Runs :
      /\ status[r] \in Active <=> token[r] # "none"
      /\ pid[r] # 0 => status[r] \in Active /\ pid[r] = attempt[r]
      /\ status[r] \in Pending => ~cancelFlag[r] /\ attempt[r] < MaxAttempts

\* A completed run has the policy or evaluation row of its last attempt, and
\* a policy is only ever registered by the attempt that completed its run: a
\* worker that lost its claim registers none (finalize_run's transaction).
CompletionHasProduct ==
    \A r \in Runs :
      /\ status[r] = "completed" =>
           IF job[r] = Training THEN <<r, attempt[r]>> \in policies
                                ELSE <<r, attempt[r]>> \in evaluations
      /\ \A a \in Attempts : <<r, a>> \in policies =>
           status[r] = "completed" /\ a = attempt[r]

\* Every training attempt after the first runs its job only once its
\* continuation is on record, and no other attempt is recorded
\* (record_resume_provenance).
ResumeLineage ==
    \A r \in Runs :
      /\ lineage[r] \subseteq 2..attempt[r]
      /\ \A a \in Attempts :
           a > 1 /\ job[r] = Training /\ proc[<<r, a>>] \in Registered
             => a \in lineage[r]

\* No cancellation, resume, late worker or reaper reopens a completed run.
CompletedIsFinal ==
    [][\A r \in Runs : status[r] = "completed" => status'[r] = "completed"]_vars

\* "Preventing a second GPU job": of two worker processes past the registration
\* of their pid at least one was taken for gone by a reaper to which a call
\* about the process failed, and that one has lost its claim for good, so
\* that whatever it still computes is not recorded as the outcome of the run.
OneExecutor ==
    /\ \A k, l \in AtWork : k = l
    /\ \A l \in mistaken : token[l[1]] = "worker" => attempt[l[1]] > l[2]

\* "A live orphan with a fresh heartbeat retains its claim": only the end of
\* the worker process, or the expiry of its heartbeat, ends its claim.
FreshOrphanKeepsClaim ==
    [][\A l \in Leases :
         Owns(l) /\ fresh[l[1]] /\ proc[l] \in Registered /\ proc'[l] \in Registered
           => Owns(l)']_vars

\* "The only active or completed evaluation for a matrix"
\* (create_matrix_evaluation_run).
OneEvaluationPerMatrix ==
    \A q, r \in Runs :
      /\ job[q] \in Matrices /\ job[q] = job[r]
      /\ status[q] \in Deduplicated /\ status[r] \in Deduplicated
      => q = r

\* Some service stays up and its dispatcher thread does not die.
Served == \E s \in Services : <>[](dpc[s] \notin {"down", "dead"})
\* No job runs for ever.
JobsEnd == \A l \in Leases : []<>(proc[l] # "executing")

\* A run that was asked to stop gives up the slot, even if its job would
\* never end by itself.
CancelHonoured ==
    Served => \A r \in Runs : status[r] = "cancel_requested" ~> status[r] \notin Active

\* A queued or resumed run is claimed or cancelled.
PendingServed ==
    Served /\ JobsEnd => \A r \in Runs : status[r] \in Pending ~> status[r] \notin Pending

\* "A stale worker is marked interrupted": a fenced lease is released, by the
\* reaper that fenced it or by a later one.
FencedReleased ==
    Served => \A r \in Runs : token[r] = "reaper" ~> token[r] # "reaper"

\* The same for a stale run whose worker is gone, as long as a service merely
\* stays up.
StaleInterrupted ==
    (\E s \in Services : <>[](dpc[s] # "down")) =>
       \A r \in Runs :
         status[r] \in Active /\ ~fresh[r] /\ proc[<<r, attempt[r]>>] = "exited"
           ~> status[r] \notin Active

=============================================================================
