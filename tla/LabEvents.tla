------------------------------ MODULE LabEvents ------------------------------
(***************************************************************************)
(* One run of a service that executes jobs in its own thread pool          *)
(* (lab_service.py), its events (lab_registry.py), the JSONL file they are *)
(* mirrored to, and a client that follows them over a websocket (api.py).  *)
(* A status is committed in one transaction and its event often in the     *)
(* next, and the mirror is written after that, so requests of other        *)
(* threads come in between, writing the file may fail, and the process may *)
(* die.  The database is taken to answer.                                  *)
(***************************************************************************)
EXTENDS Integers, SequencesExt

CONSTANTS
    Users,         \* threads of the API, one request each
    MaxProgress,   \* bound: reports of the job
    MaxFaults      \* bound: writes of the file that fail and deaths of the process

VARIABLES
    kind,          \* training, or an evaluation, which nothing asks whether it is cancelled
    status, cancelRequested, saved,    \* columns of the run
    events,        \* run_events: the payloads in the order of their sequence numbers
    mirror,        \* the file: of every sequence number, how often it was written
    cut,           \* the sequence numbers whose record the file has lost for good
    thread,        \* of every writer: pc, payload to be appended, sequence to be mirrored
    stream,        \* pc, cursor, batch of events read, what the client has received
    owed,          \* of every event: how many the committed changes of status call for,
                   \* but for those whose process died before it appended them
    faults

vars == <<kind, status, cancelRequested, saved, events, mirror, cut, thread, stream, owed, faults>>

Active == {"running", "cancel_requested"}
Quiescent == {"completed", "failed", "cancelled", "interrupted"}
Writers == Users \cup {"job"}
Names == {"run_created", "started", "progress", "cancelled", "cancel_requested",
          "resume_requested", "completed", "failed"}

At(pc) == [pc |-> pc, payload |-> "none", sequence |-> 0]

Unread == [pc |-> "read", cursor |-> 0, batch |-> <<>>, received |-> <<>>]

Init ==
    /\ kind \in {"training", "evaluation"}
    /\ status = "queued" /\ cancelRequested = FALSE /\ saved = FALSE
    /\ events = <<"run_created">> /\ mirror = <<1>> /\ cut = {} /\ faults = 0
    /\ thread = [w \in Writers |-> At(IF w = "job" THEN "submitted" ELSE "idle")]
    /\ stream = Unread
    /\ owed = [e \in Names |-> IF e = "run_created" THEN 1 ELSE 0]

-----------------------------------------------------------------------------
(* append_event: a transaction, then the file.                             *)

Owe(event) == owed' = [owed EXCEPT ![event] = @ + 1]

\* The thread has committed a change of status and now appends the event.
Then(w, pc, event) == thread' = [thread EXCEPT ![w] = [At(pc) EXCEPT !.payload = event]]

AppendEvent(w) ==
    /\ thread[w].payload # "none"
    /\ events' = Append(events, thread[w].payload) /\ mirror' = Append(mirror, 0)
    /\ thread' = [thread EXCEPT ![w].payload = "none", ![w].sequence = Len(events) + 1]
    /\ UNCHANGED <<kind, status, cancelRequested, saved, cut, stream, owed, faults>>

\* Another writer may have been faster with a later event.
WriteMirror(w) ==
    /\ thread[w].sequence # 0
    /\ mirror' = [mirror EXCEPT ![thread[w].sequence] = @ + 1]
    /\ thread' = [thread EXCEPT ![w].sequence = 0]
    /\ UNCHANGED <<kind, status, cancelRequested, saved, events, cut, stream, owed, faults>>

InFlight(e) == Cardinality({w \in Writers : thread[w].payload = e})

Fault == faults < MaxFaults /\ faults' = faults + 1

\* Where the writer goes on when the file cannot be written: a request is answered with
\* an error; a job that has just been started is at an end, whatever its row says; one
\* that reports its progress fails.
AfterFault(w) == IF w = "job" /\ owed["progress"] > 0 /\ thread[w].pc = "working"
                 THEN At("failing") ELSE At("over")

\* _write_event_log_record raises OSError.
LoseRecord(w) ==
    /\ thread[w].sequence # 0 /\ Fault
    /\ cut' = cut \cup {thread[w].sequence}
    /\ thread' = [thread EXCEPT ![w] = AfterFault(w)]
    /\ UNCHANGED <<kind, status, cancelRequested, saved, events, mirror, stream, owed>>

\* The process dies, and with it what its threads were about to write.  Another one
\* answers the requests that come later; the client connects to it anew.
Die ==
    /\ Fault
    /\ cut' = cut \cup ({thread[w].sequence : w \in Writers} \ {0})
    /\ owed' = [e \in Names |-> owed[e] - InFlight(e)]
    /\ thread' = [w \in Writers |-> IF thread[w].pc = "idle" THEN thread[w] ELSE At("over")]
    /\ stream' = Unread
    /\ UNCHANGED <<kind, status, cancelRequested, saved, events, mirror>>

Settled(w) == thread[w].payload = "none" /\ thread[w].sequence = 0

-----------------------------------------------------------------------------
(* The job in the pool.                                                    *)

\* update_run(status="running") whatever the status is by now.
StartJob ==
    /\ thread["job"].pc = "submitted"
    /\ status' = "running" /\ Owe("started") /\ Then("job", "working", "started")
    /\ UNCHANGED <<kind, cancelRequested, saved, events, mirror, cut, stream, faults>>

Working == thread["job"].pc = "working" /\ Settled("job")

\* progress of an inline training: an event, and a checkpoint if the report names one.
Progress ==
    /\ Working /\ kind = "training" /\ owed["progress"] < MaxProgress
    /\ saved' \in {saved, TRUE} /\ Owe("progress") /\ Then("job", "working", "progress")
    /\ UNCHANGED <<kind, status, cancelRequested, events, mirror, cut, stream, faults>>

\* finalize_run: the status and the event in one transaction.
Finalize(outcome) ==
    /\ status \in Active
    /\ status' = outcome
    /\ events' = Append(events, outcome) /\ mirror' = Append(mirror, 0) /\ Owe(outcome)
    /\ thread' = [thread EXCEPT !["job"] = [At("over") EXCEPT !.sequence = Len(events) + 1]]
    /\ UNCHANGED <<kind, cancelRequested, saved, cut, stream, faults>>

\* A training asks now and then whether it is cancelled, and ends if so; it is called
\* cancelled too if it fails after the request.
EndJob ==
    \/ Working /\ Finalize("completed")
    \/ /\ Working \/ thread["job"].pc = "failing"
       /\ Finalize(IF kind = "training" /\ cancelRequested THEN "cancelled" ELSE "failed")

-----------------------------------------------------------------------------
(* The API.                                                                *)

\* Which idle thread serves a request makes no difference.
Serves(u) == thread[u].pc = "idle" /\ u = CHOOSE v \in Users : thread[v].pc = "idle"

RequestCancel(u) ==
    /\ Serves(u) /\ status \notin Quiescent
    /\ LET target == IF status \in {"queued", "resuming"} THEN "cancelled" ELSE "cancel_requested" IN
        /\ status' = target /\ cancelRequested' = TRUE
        /\ Owe(target) /\ Then(u, "over", target)
    /\ UNCHANGED <<kind, saved, events, mirror, cut, stream, faults>>

RequestResume(u) ==
    /\ Serves(u) /\ status \in {"cancelled", "failed", "interrupted"} /\ saved
    /\ kind = "training"
    /\ status' = "resuming" /\ cancelRequested' = FALSE
    /\ Owe("resume_requested") /\ Then(u, "over", "resume_requested")
    /\ UNCHANGED <<kind, saved, events, mirror, cut, stream, faults>>

\* stream_run_events: list_event_envelopes(after=sequence).
ReadEvents ==
    /\ stream.pc = "read"
    /\ LET new == SubSeq(events, stream.cursor + 1, Len(events)) IN
        stream' = [stream EXCEPT !.pc = IF new = <<>> THEN "check" ELSE "send", !.batch = new]
    /\ UNCHANGED <<kind, status, cancelRequested, saved, events, mirror, cut, thread, owed, faults>>

\* Seeded fault: the cursor is moved to what the table holds by now.
SendLatest ==
    /\ stream.pc = "send"
    /\ stream' = [pc |-> "read", cursor |-> Len(events), batch |-> <<>>,
                  received |-> stream.received \o stream.batch]
    /\ UNCHANGED <<kind, status, cancelRequested, saved, events, mirror, cut, thread, owed, faults>>

\* After events were sent it reads on, whatever the status.
Send ==
    /\ stream.pc = "send"
    /\ stream' = [pc |-> "read", cursor |-> stream.cursor + Len(stream.batch), batch |-> <<>>,
                  received |-> stream.received \o stream.batch]
    /\ UNCHANGED <<kind, status, cancelRequested, saved, events, mirror, cut, thread, owed, faults>>

\* It closes when the run is quiescent and the last read brought nothing.
CheckStatus ==
    /\ stream.pc = "check"
    /\ stream' = [stream EXCEPT !.pc = IF status \in Quiescent THEN "closed" ELSE "read"]
    /\ UNCHANGED <<kind, status, cancelRequested, saved, events, mirror, cut, thread, owed, faults>>

Next ==
    \/ StartJob \/ Progress \/ EndJob
    \/ \E w \in Writers : AppendEvent(w) \/ WriteMirror(w) \/ LoseRecord(w)
    \/ Die
    \/ \E u \in Users : RequestCancel(u) \/ RequestResume(u)
    \/ ReadEvents \/ Send \/ CheckStatus

Spec == Init /\ [][Next]_vars

-----------------------------------------------------------------------------
Count(e) == Cardinality({i \in DOMAIN events : events[i] = e})

\* Every change of status has one event, whichever thread made it and however the
\* threads interleave, unless the process died in between.  The file holds no event
\* twice and lacks only those a thread is about to write and those whose one attempt
\* at it failed or was cut off; and a client has received the first events of the
\* table, each once and in order, even while they are appended.
EventsFaithful ==
    /\ \A e \in Names : Count(e) + InFlight(e) = owed[e]
    /\ \A n \in DOMAIN events :
        mirror[n] = IF n \in cut \cup {thread[w].sequence : w \in Writers} THEN 0 ELSE 1
    /\ stream.received = SubSeq(events, 1, stream.cursor)
=============================================================================
