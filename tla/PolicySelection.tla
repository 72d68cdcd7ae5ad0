--------------------------- MODULE PolicySelection ---------------------------
(***************************************************************************)
(* The checkpoint selection of a matrix and its held-out evaluation        *)
(* (experiment_execution.py).  A selection is evaluated, written to an     *)
(* evidence file, frozen in the registry and registered as a policy; when  *)
(* all are frozen, the evidence files are checked against the registry and *)
(* collected in matrix_selections.json, which the held-out evaluation      *)
(* reads.  API requests run in parallel threads, next to the script, which *)
(* has an evidence root of its own, and any of them may be cut off.        *)
(*                                                                         *)
(* What an evaluation finds depends on the device and the code that runs   *)
(* it, so that two evaluations of one run may select differently.          *)
(***************************************************************************)
EXTENDS Integers, FiniteSets

CONSTANTS
    Runs,        \* 1..n, the ordinals of the runs of the matrix
    Handlers,    \* API threads and scripts
    Root,        \* of each handler: "api", or "script" for the script
    Picks,       \* what select_validation_checkpoint can return
    None,        \* no row, no file
    Torn,        \* a file that is being written, or never was to its end
    MaxJobs      \* bound: held-out jobs over the API

ASSUME SelectionAssumption ==
    /\ IsFiniteSet(Runs) /\ Runs # {} /\ Runs = 1..Cardinality(Runs)
    /\ Root \in [Handlers -> {"api", "script"}]
    /\ None \notin Picks /\ Torn \notin Picks /\ None # Torn
    /\ "whole" \notin {None, Torn}
    /\ MaxJobs \in Nat

Roots == {"api", "script"}

VARIABLES
    trained,     \* runs whose training is completed
    frozen,      \* policy_selections
    policy,      \* the policy row <matrix>-<run>-selected
    evidence,    \* <root>/<run>/validation_selection.json
    collected,   \* <root>/matrix_selections.json
    handler,     \* pc, run at hand, what was picked, the goal (one selection, all,
                 \* or the held-out evaluation), the evidence that was read
    job,         \* the held-out job of the API
    suites,      \* rows of evaluations: the selections used, the evidence read
    contested    \* history: <<root, run>> whose evidence file was opened while another
                 \* evaluation was writing it, or after the selection was frozen

vars == <<trained, frozen, policy, evidence, collected, handler, job, suites, contested>>

Nothing == [r \in Runs |-> None]
Nobody == [pc |-> "idle", run |-> 1, pick |-> None, goal |-> "one", read |-> Nothing]
NoFile == [state |-> None, read |-> Nothing]
NoJob == [status |-> "none", cancel |-> FALSE, file |-> Nothing, used |-> Nothing, count |-> 0]

Init ==
    /\ trained = {}
    /\ frozen = Nothing /\ policy = Nothing
    /\ evidence = [o \in Roots |-> Nothing]
    /\ collected = [o \in Roots |-> NoFile]
    /\ handler = [h \in Handlers |-> Nobody]
    /\ job = NoJob /\ suites = {} /\ contested = {}

At(h, pc) == handler[h].pc = pc
Go(h, pc) == handler' = [handler EXCEPT ![h].pc = pc]
Quit(h) == handler' = [handler EXCEPT ![h] = Nobody]

AllFrozen == \A r \in Runs : frozen[r] # None

Train(r) ==
    /\ r \notin trained /\ trained' = trained \cup {r}
    /\ UNCHANGED <<frozen, policy, evidence, collected, handler, job, suites, contested>>

-----------------------------------------------------------------------------
(* Selections.                                                             *)

\* A PUT for one run, or the script's select for all of them; a POST for the
\* held-out evaluation goes straight to the collection, and the script's heldout
\* to the evaluation, if it can read a collection.
Begin(h) ==
    /\ At(h, "idle")
    /\ \/ /\ Root[h] = "api"
          /\ \E r \in trained :
                handler' = [handler EXCEPT ![h] = [Nobody EXCEPT !.pc = "evaluate", !.run = r]]
       \/ /\ Root[h] = "script" /\ trained = Runs
          /\ handler' = [handler EXCEPT ![h] = [Nobody EXCEPT !.pc = "evaluate", !.goal = "all"]]
       \/ /\ Root[h] = "api" /\ AllFrozen
          /\ handler' = [handler EXCEPT ![h] = [Nobody EXCEPT !.pc = "check", !.goal = "heldout"]]
       \/ /\ Root[h] = "script" /\ collected["script"].state = "whole"
          /\ handler' = [handler EXCEPT ![h] = [Nobody EXCEPT !.pc = "heldout",
                                                             !.read = collected["script"].read]]
    /\ UNCHANGED <<trained, frozen, policy, evidence, collected, job, suites, contested>>

Evaluate(h) ==
    /\ At(h, "evaluate")
    /\ \E p \in Picks : handler' = [handler EXCEPT ![h].pc = "open", ![h].pick = p]
    /\ UNCHANGED <<trained, frozen, policy, evidence, collected, job, suites, contested>>

\* At work on an evidence file: opened, and not yet frozen.
Writing == {"fill", "reopen", "refill", "freeze"}

Write(h, goes) ==
    LET o == Root[h]
        r == handler[h].run
        opens == handler[h].pc \in {"open", "reopen"}
        another == \E g \in Handlers \ {h} :
                      Root[g] = o /\ handler[g].run = r /\ handler[g].pc \in Writing
    IN
    /\ evidence' = [evidence EXCEPT ![o][r] = IF opens THEN Torn ELSE handler[h].pick]
    /\ contested' = IF At(h, "open") /\ (another \/ frozen[r] # None)
                    THEN contested \cup {<<o, r>>} ELSE contested
    /\ Go(h, goes)
    /\ UNCHANGED <<trained, frozen, policy, collected, job, suites>>

\* Seeded fault: the selection is frozen before its evidence is written.
EvidenceAfterFreeze(h) == At(h, "open") /\ Write(h, "freeze")

\* write_text empties the file and then fills it; the evidence is written by
\* evaluate_run_checkpoint_candidates and once more by its caller.
WriteEvidence(h) ==
    \/ At(h, "open") /\ Write(h, "fill")
    \/ At(h, "fill") /\ Write(h, "reopen")
    \/ At(h, "reopen") /\ Write(h, "refill")
    \/ At(h, "refill") /\ Write(h, "freeze")

\* freeze_policy_selection, one transaction: the same selection again is no
\* error, another one is refused (and has already overwritten the evidence).
Freeze(h) ==
    LET r == handler[h].run IN
    /\ At(h, "freeze")
    /\ \/ /\ frozen[r] = None
          /\ frozen' = [frozen EXCEPT ![r] = handler[h].pick] /\ Go(h, "register")
       \/ frozen[r] = handler[h].pick /\ Go(h, "register") /\ UNCHANGED frozen
       \/ frozen[r] \notin {None, handler[h].pick} /\ Quit(h) /\ UNCHANGED frozen
    /\ UNCHANGED <<trained, policy, evidence, collected, job, suites, contested>>

\* upsert_policy; the script goes on to the next run.
Register(h) ==
    LET r == handler[h].run
        more == handler[h].goal = "all" /\ r + 1 \in Runs
    IN
    /\ At(h, "register")
    /\ policy' = [policy EXCEPT ![r] = handler[h].pick]
    /\ handler' = [handler EXCEPT ![h].pc = IF more THEN "evaluate" ELSE "collect",
                                  ![h].run = IF more THEN r + 1 ELSE 1, ![h].pick = None]
    /\ UNCHANGED <<trained, frozen, evidence, collected, job, suites, contested>>

-----------------------------------------------------------------------------
(* materialize_matrix_selection_evidence.                                  *)

\* Nothing is collected before every selection is frozen.
Collect(h) ==
    /\ At(h, "collect")
    /\ IF AllFrozen THEN Go(h, "check") ELSE Quit(h)
    /\ UNCHANGED <<trained, frozen, policy, evidence, collected, job, suites, contested>>

\* One evidence file: missing, unreadable or of another selection is an error.
CheckFile(h, acceptable) ==
    LET r == handler[h].run IN
    /\ At(h, "check")
    /\ IF acceptable
       THEN handler' = [handler EXCEPT ![h].pc = IF r + 1 \in Runs THEN "check" ELSE "file",
                                       ![h].run = IF r + 1 \in Runs THEN r + 1 ELSE 1,
                                       ![h].read[r] = evidence[Root[h]][r]]
       ELSE Quit(h)
    /\ UNCHANGED <<trained, frozen, policy, evidence, collected, job, suites, contested>>

\* Seeded fault: it is enough that the evidence can be read.
CheckReadable(h) == CheckFile(h, evidence[Root[h]][handler[h].run] \in Picks)

Check(h) == CheckFile(h, evidence[Root[h]][handler[h].run] = frozen[handler[h].run])

\* The collection holds the evidence as it was read.
WriteCollection(h) ==
    /\ handler[h].pc \in {"file", "fileFill"}
    /\ collected' = [collected EXCEPT ![Root[h]] =
                        IF At(h, "file") THEN [state |-> Torn, read |-> Nothing]
                        ELSE [state |-> "whole", read |-> handler[h].read]]
    /\ IF At(h, "file") THEN Go(h, "fileFill")
       ELSE IF handler[h].goal = "one" THEN Quit(h)
       ELSE Go(h, IF handler[h].goal = "all" THEN "heldout" ELSE "launch")
    /\ UNCHANGED <<trained, frozen, policy, evidence, job, suites, contested>>

\* A request cut off by the end of its process.
Crash(h) ==
    /\ ~At(h, "idle") /\ Quit(h)
    /\ UNCHANGED <<trained, frozen, policy, evidence, collected, job, suites, contested>>

-----------------------------------------------------------------------------
(* evaluate_frozen_heldout_matrix, by the script and by a worker.          *)

Suite(used, file) == [used |-> used, file |-> file]

ScriptHeldout(h) ==
    /\ At(h, "heldout") /\ Quit(h)
    /\ suites' = IF AllFrozen THEN suites \cup {Suite(frozen, handler[h].read)} ELSE suites
    /\ UNCHANGED <<trained, frozen, policy, evidence, collected, job, contested>>

Busy == {"queued", "reading", "rows", "storing", "ending"}
Kept == Busy \cup {"completed"}
Fresh == [NoJob EXCEPT !.status = "queued", !.count = job.count + 1]

\* Seeded fault: the job is queued as soon as the selections are frozen.
LaunchAtOnce(h) ==
    /\ handler[h].goal = "heldout" /\ handler[h].pc \in {"check", "launch"} /\ Quit(h)
    /\ job' = IF job.status \in Kept \/ job.count = MaxJobs THEN job ELSE Fresh
    /\ UNCHANGED <<trained, frozen, policy, evidence, collected, suites, contested>>

\* launch_matrix_evaluation refuses a second job, unless the first has been stopped.
Launch(h) ==
    /\ At(h, "launch") /\ Quit(h)
    /\ job' = IF job.status \in Kept \/ job.count = MaxJobs THEN job ELSE Fresh
    /\ UNCHANGED <<trained, frozen, policy, evidence, collected, suites, contested>>

\* A stopped job is resumed from its beginning.
ResumeJob ==
    /\ job.status \in {"failed", "cancelled", "interrupted"} /\ job.count < MaxJobs
    /\ job' = Fresh
    /\ UNCHANGED <<trained, frozen, policy, evidence, collected, handler, suites, contested>>

CancelJob ==
    /\ job.status \in Busy /\ ~job.cancel
    /\ job' = [job EXCEPT !.status = IF @ = "queued" THEN "cancelled" ELSE @, !.cancel = TRUE]
    /\ UNCHANGED <<trained, frozen, policy, evidence, collected, handler, suites, contested>>

WorkerDies ==
    /\ job.status \in Busy \ {"queued"}
    /\ job' = [job EXCEPT !.status = "interrupted"]
    /\ UNCHANGED <<trained, frozen, policy, evidence, collected, handler, suites, contested>>

StartJob ==
    /\ job.status = "queued" /\ job' = [job EXCEPT !.status = "reading"]
    /\ UNCHANGED <<trained, frozen, policy, evidence, collected, handler, suites, contested>>

\* Seeded fault: the evidence of the runs is read in place of the collection.
ReadSelections ==
    /\ job.status = "reading"
    /\ job' = [job EXCEPT !.status = "rows", !.file = evidence["api"]]
    /\ UNCHANGED <<trained, frozen, policy, evidence, collected, handler, suites, contested>>

\* _execute_matrix_evaluation goes on without evidence if there is no file.
ReadCollection ==
    /\ job.status = "reading"
    /\ job' = IF collected["api"].state = Torn THEN [job EXCEPT !.status = "failed"]
              ELSE [job EXCEPT !.status = "rows",
                               !.file = collected["api"].read]
    /\ UNCHANGED <<trained, frozen, policy, evidence, collected, handler, suites, contested>>

\* Seeded fault: the policies registered for the matrix are evaluated.
ReadPolicies ==
    /\ job.status = "rows"
    /\ job' = [job EXCEPT !.status = "storing", !.used = policy]
    /\ UNCHANGED <<trained, frozen, policy, evidence, collected, handler, suites, contested>>

ReadRows ==
    /\ job.status = "rows"
    /\ job' = IF AllFrozen THEN [job EXCEPT !.status = "storing", !.used = frozen]
              ELSE [job EXCEPT !.status = "failed"]
    /\ UNCHANGED <<trained, frozen, policy, evidence, collected, handler, suites, contested>>

\* The row is stored between two looks at the cancellation flag.
StoreSuite ==
    /\ job.status = "storing"
    /\ job' = [job EXCEPT !.status = IF job.cancel THEN "cancelled" ELSE "ending"]
    /\ suites' = IF job.cancel THEN suites ELSE suites \cup {Suite(job.used, job.file)}
    /\ UNCHANGED <<trained, frozen, policy, evidence, collected, handler, contested>>

EndJob ==
    /\ job.status = "ending"
    /\ job' = [job EXCEPT !.status = IF job.cancel THEN "cancelled" ELSE "completed"]
    /\ UNCHANGED <<trained, frozen, policy, evidence, collected, handler, suites, contested>>

Handle(h) ==
    \/ Begin(h) \/ Evaluate(h) \/ WriteEvidence(h) \/ Freeze(h) \/ Register(h)
    \/ Collect(h) \/ Check(h) \/ WriteCollection(h) \/ ScriptHeldout(h) \/ Launch(h)
    \/ Crash(h)

Job ==
    \/ ResumeJob \/ CancelJob \/ WorkerDies \/ StartJob \/ ReadCollection \/ ReadRows
    \/ StoreSuite \/ EndJob

Next == (\E r \in Runs : Train(r)) \/ (\E h \in Handlers : Handle(h)) \/ Job

Spec == Init /\ [][Next]_vars

-----------------------------------------------------------------------------
Table == [Runs -> Picks \cup {None}]

TypeOK ==
    /\ trained \subseteq Runs
    /\ frozen \in Table /\ policy \in Table
    /\ evidence \in [Roots -> [Runs -> Picks \cup {None, Torn}]]
    /\ collected \in [Roots -> [state : {None, Torn, "whole"}, read : Table]]
    /\ \A h \in Handlers : handler[h].run \in Runs /\ handler[h].read \in Table
    /\ contested \subseteq Roots \X Runs
    /\ job.file \in Table /\ job.used \in Table /\ job.count \in 0..MaxJobs

\* A frozen selection has its evidence on file, in the root of the request that froze
\* it, unless another evaluation of the run has opened that file meanwhile or since;
\* and the evidence a request has read is that of the frozen selections until it is
\* used, whatever is written, cut off or frozen between the check and the use.
EvidenceKept ==
    /\ \A r \in Runs : frozen[r] # None =>
          \E o \in Roots : evidence[o][r] = frozen[r] \/ <<o, r>> \in contested
    /\ \A h \in Handlers, r \in Runs : handler[h].read[r] \in {None, frozen[r]}

\* Every copy of a selection is of the frozen one, although the evidence files need
\* not be: the registered policies, a collection that can be read, and what the
\* held-out evaluations used and compared with.
CopiesAgree ==
    /\ TypeOK
    /\ \A r \in Runs : policy[r] \in {None, frozen[r]}
    /\ \A o \in Roots : collected[o].state = "whole" => collected[o].read = frozen
    /\ \A s \in suites : s.used = frozen /\ s.file \in {Nothing, frozen}
    /\ suites # {} => AllFrozen

\* No held-out evaluation takes place without the complete evidence of every
\* selection, even if it is asked for while selections are being repeated.
HeldoutHasEvidence == \A s \in suites : \A r \in Runs : s.file[r] # None
=============================================================================
