---------------------------- MODULE CopilotRunner ----------------------------
(***************************************************************************)
(* One command of the experiment copilot (copilot/runner.py): it is        *)
(* confirmed if it writes checkpoints, registered, run as a subprocess,    *)
(* and its output is filed, summarised and reported.  Rows and files are   *)
(* written one after the other, and an exception or the end of the copilot *)
(* may come between any two.                                               *)
(***************************************************************************)
EXTENDS Integers, SequencesExt

CONSTANTS Kinds   \* subset of {"benchmark", "eval", "training", "sweep"}

VARIABLES
    command,    \* kind and whether --yes was given
    client,     \* pc and the exit code of the process
    directory,  \* files in the run directory; "none" before there is one
    row,        \* status, exit_code and report_path of the run
    artifacts   \* rows of the artifacts, in order

vars == <<command, client, directory, row, artifacts>>

NoRow == [status |-> "none", exit |-> "none", report |-> FALSE]

Init ==
    /\ command \in [kind : Kinds, yes : BOOLEAN]
    /\ client = [pc |-> "confirm", exit |-> "none"]
    /\ directory = {} /\ row = NoRow /\ artifacts = <<>>

Confirmed == command.kind \in {"training", "sweep"}

\* require_confirmation: the answer to the prompt may be anything.
Confirm ==
    /\ client.pc = "confirm"
    /\ \/ client' = [client EXCEPT !.pc = "create"]
       \/ Confirmed /\ ~command.yes /\ client' = [client EXCEPT !.pc = "refused"]
    /\ UNCHANGED <<command, directory, row, artifacts>>

\* create_run: the directory, then the row.
MakeDirectory ==
    /\ client.pc = "create" /\ directory = {}
    /\ directory' = {"."}
    /\ UNCHANGED <<command, client, row, artifacts>>

InsertRow ==
    /\ client.pc = "create" /\ directory # {}
    /\ row' = [row EXCEPT !.status = "running"]
    /\ client' = [client EXCEPT !.pc = "run"]
    /\ UNCHANGED <<command, directory, artifacts>>

\* _run_subprocess: what is run is on disk before it is run.
WriteCommand ==
    /\ client.pc = "run" /\ "command" \notin directory
    /\ directory' = directory \cup {"command"}
    /\ UNCHANGED <<command, client, row, artifacts>>

\* The process may leave any summary; its output is kept when it has ended.
Execute ==
    /\ client.pc = "run" /\ "command" \in directory
    /\ \E exit \in {"zero", "other"}, leaves \in BOOLEAN :
        /\ directory' = directory \cup {"stdout", "stderr"}
            \cup (IF leaves /\ command.kind # "eval" THEN {"summary"} ELSE {})
        /\ client' = [client EXCEPT !.pc = "file", !.exit = exit]
    /\ UNCHANGED <<command, row, artifacts>>

Add(type) == artifacts' = Append(artifacts, type)

FileOutput ==
    /\ client.pc = "file" /\ Len(artifacts) < 3
    /\ Add(<<"stdout", "stderr", "command">>[Len(artifacts) + 1])
    /\ UNCHANGED <<command, client, directory, row>>

\* summarize_json_file, for which a payload that is missing, broken or no object is a
\* note; or _extract_eval_stdout_summary, whose answer is written to the file.
Summarize ==
    /\ client.pc = "file" /\ Len(artifacts) = 3
    /\ directory' = IF command.kind = "eval" THEN directory \cup {"summary"} ELSE directory
    /\ client' = [client EXCEPT !.pc = "summary"]
    /\ UNCHANGED <<command, row, artifacts>>

\* Seeded fault: a summary is filed whether or not there is one.
FileAnySummary ==
    /\ client.pc = "summary"
    /\ Add("summary")
    /\ client' = [client EXCEPT !.pc = "report"]
    /\ UNCHANGED <<command, directory, row>>

FileSummary ==
    /\ client.pc = "summary"
    /\ IF "summary" \in directory THEN Add("summary") ELSE UNCHANGED artifacts
    /\ client' = [client EXCEPT !.pc = "report"]
    /\ UNCHANGED <<command, directory, row>>

\* The metrics of the policies, if the summary has any, and the report.
WriteReport ==
    /\ client.pc = "report" /\ "report" \notin directory
    /\ directory' = directory \cup {"report"}
    /\ UNCHANGED <<command, client, row, artifacts>>

FileReport ==
    /\ client.pc = "report" /\ "report" \in directory
    /\ Add("report")
    /\ client' = [client EXCEPT !.pc = "complete"]
    /\ UNCHANGED <<command, directory, row>>

CompleteRun ==
    /\ client.pc = "complete"
    /\ row' = [status |-> IF client.exit = "zero" THEN "completed" ELSE "failed",
               exit |-> client.exit, report |-> TRUE]
    /\ client' = [client EXCEPT !.pc = "done"]
    /\ UNCHANGED <<command, directory, artifacts>>

\* An exception (a full disk, a locked database, numbers that are none) or a kill.
Stop ==
    /\ client.pc \notin {"refused", "done", "stopped"}
    /\ client' = [client EXCEPT !.pc = "stopped"]
    /\ UNCHANGED <<command, directory, row, artifacts>>

Next ==
    \/ Confirm \/ MakeDirectory \/ InsertRow \/ WriteCommand \/ Execute \/ FileOutput \/ Summarize
    \/ FileSummary \/ WriteReport \/ FileReport \/ CompleteRun \/ Stop

Spec == Init /\ [][Next]_vars

-----------------------------------------------------------------------------
\* What the registry says can be looked up: every artifact has its file, no artifact
\* is there twice, and a run that is over has its report, the output of its process
\* and its exit code.  A command that was refused left nothing.  A run is called
\* running for as long as its client is at work and for ever if that was stopped.
RecordsKept ==
    /\ IsInjective(artifacts) /\ ToSet(artifacts) \subseteq directory
    /\ row.status \in {"completed", "failed"} =>
        /\ {"stdout", "stderr", "command", "report"} \subseteq ToSet(artifacts)
        /\ row.report /\ (row.status = "completed" <=> row.exit = "zero")
        /\ "summary" \in directory => "summary" \in ToSet(artifacts)
    /\ client.pc = "refused" => directory = {} /\ row = NoRow
    /\ row.status = "running" => client.pc \notin {"refused", "done"}
=============================================================================
