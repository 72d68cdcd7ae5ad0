--------------------------- MODULE MatrixExecutor ---------------------------
(***************************************************************************)
(* The executor of an experiment matrix (run_construction_experiment.py    *)
(* execute) next to the API: whoever comes first creates the matrix, the   *)
(* executor polls it, resumes what stopped, and goes on to the selection   *)
(* when every run is completed.  The queue behind the runs is the one of   *)
(* LabQueue, reduced here to what a client of the registry can see.        *)
(***************************************************************************)
EXTENDS Integers, FiniteSets

CONSTANTS
    Runs,          \* 1..n, the ordinals of the runs of the matrix
    MaxAttempts,   \* --max-resume-attempts
    MaxRequests    \* bound: cancellations and resumptions asked for over the API

ASSUME ExecutorAssumption ==
    /\ IsFiniteSet(Runs) /\ Runs # {} /\ Runs = 1..Cardinality(Runs)
    /\ MaxAttempts \in Nat \ {0} /\ MaxRequests \in Nat

VARIABLES
    run,        \* rows of the runs; NoRow before the matrix exists
    executor,   \* pc, the rows it has read (seen), its place in them (todo),
                \* and whether it has resumed any (resumed)
    requests,   \* requests over the API so far
    apiResumes  \* of each run: those that resumed it

vars == <<run, executor, requests, apiResumes>>

NoRow == [status |-> "none", attempt |-> 0, saved |-> FALSE]
Queued == [status |-> "queued", attempt |-> 0, saved |-> FALSE]
Created == run[1] # NoRow

Init ==
    /\ run = [r \in Runs |-> NoRow]
    /\ executor = [pc |-> "start", seen |-> [r \in Runs |-> NoRow], todo |-> 1, resumed |-> FALSE]
    /\ requests = 0 /\ apiResumes = [r \in Runs |-> 0]

\* create_experiment_matrix: one transaction for the matrix and all its runs.
CreateMatrix ==
    /\ ~Created
    /\ run' = [r \in Runs |-> Queued]

-----------------------------------------------------------------------------
(* The queue and its workers.                                              *)

Free == \A r \in Runs : run[r].status \notin {"running", "cancel_requested"}

Claim(r) ==
    /\ Free /\ run[r].status \in {"queued", "resuming"}
    /\ run' = [run EXCEPT ![r].status = "running", ![r].attempt = @ + 1]
    /\ UNCHANGED <<executor, requests, apiResumes>>

SaveCheckpoint(r) ==
    /\ run[r].status = "running" /\ ~run[r].saved
    /\ run' = [run EXCEPT ![r].saved = TRUE]
    /\ UNCHANGED <<executor, requests, apiResumes>>

\* The worker's last word, or that of the reconciliation.
EndRun(r) ==
    /\ \E status \in {"completed", "failed", "interrupted", "cancelled"} :
        /\ run[r].status = "cancel_requested" \/ (run[r].status = "running" /\ status # "cancelled")
        /\ status = "completed" => run[r].saved
        /\ run' = [run EXCEPT ![r].status = status]
    /\ UNCHANGED <<executor, requests, apiResumes>>

Resumed(r) == [run EXCEPT ![r].status = "resuming"]
MayResume(r) == run[r].status \in {"interrupted", "failed", "cancelled"} /\ run[r].saved

-----------------------------------------------------------------------------
(* The API.                                                                *)

\* A second creation is refused and changes nothing.
ApiCreate == CreateMatrix /\ UNCHANGED <<executor, requests, apiResumes>>

ApiCancel(r) ==
    /\ requests < MaxRequests /\ run[r].status \in {"queued", "resuming", "running"}
    /\ run' = [run EXCEPT ![r].status = IF @ = "running" THEN "cancel_requested" ELSE "cancelled"]
    /\ requests' = requests + 1
    /\ UNCHANGED <<executor, apiResumes>>

ApiResume(r) ==
    /\ requests < MaxRequests /\ MayResume(r)
    /\ run' = Resumed(r)
    /\ requests' = requests + 1 /\ apiResumes' = [apiResumes EXCEPT ![r] = @ + 1]
    /\ UNCHANGED executor

-----------------------------------------------------------------------------
(* _execute.                                                               *)

Ends == {"select", "blocked", "refused", "detached"}

\* A matrix that exists is reattached to.
LookUp ==
    /\ executor.pc = "start"
    /\ executor' = [executor EXCEPT !.pc = IF Created THEN "poll" ELSE "launch"]
    /\ UNCHANGED <<run, requests, apiResumes>>

\* The creation fails, and the executor with it, if the API was faster.
Launch ==
    /\ executor.pc = "launch"
    /\ \/ CreateMatrix /\ executor' = [executor EXCEPT !.pc = "poll"]
       \/ Created /\ executor' = [executor EXCEPT !.pc = "refused"] /\ UNCHANGED run
    /\ UNCHANGED <<requests, apiResumes>>

Poll ==
    /\ executor.pc = "poll"
    /\ executor' = [pc |-> "resume", seen |-> run, todo |-> 1, resumed |-> FALSE]
    /\ UNCHANGED <<run, requests, apiResumes>>

\* Seeded fault: one attempt too many.
WantedOnceMore(row) ==
    row.status \in {"interrupted", "failed"} /\ row.saved /\ row.attempt <= MaxAttempts

Wanted(row) ==
    row.status \in {"interrupted", "failed"} /\ row.saved /\ row.attempt < MaxAttempts

\* _resume_interrupted_runs, one run: what was read decides, the row as it is now
\* is resumed.
ResumeOne ==
    /\ executor.pc = "resume" /\ executor.todo \in Runs
    /\ LET r == executor.todo
           goes == Wanted(executor.seen[r]) /\ MayResume(r)
       IN  /\ run' = IF goes THEN Resumed(r) ELSE run
           /\ executor' = [executor EXCEPT !.todo = r + 1, !.resumed = @ \/ goes]
    /\ UNCHANGED <<requests, apiResumes>>

\* Seeded fault: only exhausted runs are reported as blocking.
BlockingExhausted(row) == row.status \in {"failed", "cancelled"} /\ row.attempt >= MaxAttempts

Blocking(row) ==
    row.status \in {"failed", "cancelled"} /\ (~row.saved \/ row.attempt >= MaxAttempts)

EndPoll ==
    /\ executor.pc = "resume" /\ executor.todo \notin Runs
    /\ executor' = [executor EXCEPT !.pc =
            IF executor.resumed THEN "poll"
            ELSE IF \A r \in Runs : executor.seen[r].status = "completed" THEN "select"
            ELSE IF \E r \in Runs : Blocking(executor.seen[r]) THEN "blocked"
            ELSE "poll"]
    /\ UNCHANGED <<run, requests, apiResumes>>

\* Ctrl-C leaves the queue alone.
Detach ==
    /\ executor.pc \in {"launch", "poll", "resume"}
    /\ executor' = [executor EXCEPT !.pc = "detached"]
    /\ UNCHANGED <<run, requests, apiResumes>>

Execute == LookUp \/ Launch \/ Poll \/ ResumeOne \/ EndPoll
Work == \E r \in Runs : Claim(r) \/ SaveCheckpoint(r) \/ EndRun(r)
Api == ApiCreate \/ \E r \in Runs : ApiCancel(r) \/ ApiResume(r)

Next == Execute \/ Detach \/ Work \/ Api

\* The executor is a running process and the queue serves every run (PendingServed
\* of LabQueue); a client of the API owes nothing.
Fairness ==
    /\ WF_vars(Execute)
    /\ \A r \in Runs : SF_vars(Claim(r)) /\ SF_vars(EndRun(r))

Spec == Init /\ [][Next]_vars /\ Fairness

-----------------------------------------------------------------------------
\* Although the executor decides on rows that may have changed since it read them,
\* it adds no attempt beyond its limit: whatever a run has more was resumed over
\* the API.
AttemptsBounded == \A r \in Runs : run[r].attempt <= MaxAttempts + apiResumes[r]

\* What the executor neither resumes nor reports, and so waits for as long as
\* nobody else does something about it: a run that was cancelled although it could
\* go on, and one that was interrupted before its first checkpoint or too often.
Overlooked(row) ==
    \/ row.status = "cancelled" /\ row.saved /\ row.attempt < MaxAttempts
    \/ row.status = "interrupted" /\ (~row.saved \/ row.attempt >= MaxAttempts)

\* The executor ends, except that it polls for ever for a run that it overlooks.
ExecutorEnds == <>(executor.pc \in Ends) \/ <>[](\E r \in Runs : Overlooked(run[r]))
=============================================================================
