---------------------------- MODULE WorkerReaper ----------------------------
(***************************************************************************)
(* What reconcile_stale_runs does about the process of a run it has fenced *)
(* (lab_registry.py): is it alive, is it still the worker, and if so, stop *)
(* it.  The process may exit, be reaped and its pid be given to a stranger *)
(* between any two system calls, and most calls may fail.  There are three *)
(* ways to stop a process: by pidfd, by plain kill, and by a Windows       *)
(* handle.                                                                 *)
(***************************************************************************)
EXTENDS Naturals

CONSTANTS Platforms   \* a subset of "pidfd", "plain" and "windows"

VARIABLES
    platform,
    process,   \* what the pid names: the worker, its zombie, a stranger or nothing
    handle,    \* what the open pidfd or handle names
    pc, verdict,
    mistaken,  \* the call whose wrong answer about the running worker was believed:
               \* that of its liveness, that of its identity, or none
    harmed     \* a stranger was sent a signal

vars == <<platform, process, handle, pc, verdict, mistaken, harmed>>

Init ==
    /\ platform \in Platforms
    /\ process \in {"worker", "zombie", "stranger", "none"}
    /\ handle = "none" /\ pc = "alive" /\ verdict = "open"
    /\ mistaken = "none" /\ harmed = FALSE

-----------------------------------------------------------------------------
(* The operating system.                                                   *)

\* The worker ends, by itself or because it was told to.
Exit == process = "worker" /\ process' = "zombie"

\* A pid is free once its process is reaped, but Windows keeps it while a handle is open.
Reap ==
    /\ process = "zombie"
    /\ platform = "windows" => handle # "worker"
    /\ process' = "none"
Reuse == process = "none" /\ process' = "stranger"
StrangerExits == process = "stranger" /\ (platform = "windows" => handle = "none") /\ process' = "none"

Environment == (Exit \/ Reap \/ Reuse \/ StrangerExits)
    /\ UNCHANGED <<platform, handle, pc, verdict, mistaken, harmed>>

\* What _process_alive may return.  A call that fails counts as a dead process, and
\* a zombie looks alive where /proc cannot be read.
Liveness ==
    {FALSE} \cup (IF process \in {"worker", "stranger"} \/ (process = "zombie" /\ platform # "windows")
                 THEN {TRUE} ELSE {})

\* What _process_identity may return.  Reading it can fail for a living process: no
\* file descriptor is left for /proc, ps takes too long, access is denied.  On POSIX
\* it may also come out as another one, without the boot id or by ps and not /proc.
Identities ==
    {"unknown"} \cup (IF process = "none" THEN {}
                      ELSE {IF process = "stranger" THEN "other" ELSE "expected"})
                \cup (IF process = "none" \/ platform = "windows" THEN {} ELSE {"other"})

-----------------------------------------------------------------------------
(* The reaper.                                                             *)

GoTo(next) == pc' = next /\ UNCHANGED <<verdict, mistaken>>
Answer(gone) ==
    /\ pc' = "done" /\ verdict' = IF gone THEN "release" ELSE "keep"
    /\ UNCHANGED mistaken
\* The worker is gone, if what the call returned is right.
Believe(call) ==
    /\ pc' = "done" /\ verdict' = "release"
    /\ mistaken' = IF process = "worker" THEN call ELSE "none"
Same == UNCHANGED <<platform, process, handle, harmed>>

\* reconcile_stale_runs: a dead process and a pid that was reused are no obstacle.
CheckAlive ==
    /\ pc = "alive"
    /\ \E alive \in Liveness : IF alive THEN GoTo("compare") ELSE Believe("liveness")
    /\ Same

Compare ==
    /\ pc = "compare"
    /\ \E read \in Identities :
        CASE read = "unknown" -> Answer(FALSE)
          [] read = "other" -> Believe("identity")
          [] OTHER -> GoTo("owned")
    /\ Same

\* _terminate_owned_process reads the identity again.
Owned ==
    /\ pc = "owned"
    /\ \E read \in Identities :
        CASE read = "unknown" -> GoTo("verify dead")
          [] read = "other" -> Believe("identity")
          [] OTHER -> GoTo(IF platform = "plain" THEN "verify" ELSE "open")
    /\ Same

\* return not _process_alive(pid)
VerifyDead ==
    /\ pc = "verify dead"
    /\ \E alive \in Liveness : IF alive THEN Answer(FALSE) ELSE Believe("liveness")
    /\ Same

\* pidfd_open or OpenProcess; what is opened stays the same process.
Open ==
    /\ pc = "open"
    /\ \/ GoTo("verify dead") /\ UNCHANGED handle    \* it may be denied
       \/ /\ process # "none" /\ GoTo("verify")
          /\ handle' = IF process = "stranger" THEN "stranger" ELSE "worker"
    /\ UNCHANGED <<platform, process, harmed>>

\* The last look before the signal.  On POSIX an identity that cannot be read counts
\* as another one.
VerifyPosix ==
    /\ pc = "verify" /\ platform # "windows"
    /\ \E read \in Identities :
        IF read = "expected" THEN GoTo("terminate") ELSE Believe("identity")
    /\ Same

\* Windows asks the handle: it may get no answer, and learns of an exit code.
VerifyWindows ==
    /\ pc = "verify" /\ platform = "windows"
    /\ \/ Answer(FALSE)
       \/ IF handle = "stranger" \/ process = "zombie" THEN Answer(TRUE) ELSE GoTo("kill")
    /\ Same

\* Seeded fault: the identity is not compared again after the process was opened.
VerifyNothing == pc = "verify" /\ GoTo("terminate") /\ Same

Verify == VerifyPosix \/ VerifyWindows

\* Where a signal goes: a pidfd and a handle know their process, kill has only the pid.
Target == IF platform = "plain" THEN process
          ELSE IF handle = "worker" /\ process \notin {"worker", "zombie"} THEN "none" ELSE handle

\* SIGTERM may be slow or ignored.  Without permission kill fails with OSError.
Terminate ==
    /\ pc = "terminate"
    /\ \/ Target = "none" /\ Answer(TRUE)
       \/ Target # "none" /\ GoTo("wait term")
       \/ Target = "stranger" /\ platform = "plain" /\ Answer(FALSE)
    /\ harmed' = (harmed \/ (Target = "stranger" /\ pc' = "wait term"))
    /\ UNCHANGED <<platform, process, handle>>

\* _wait_for_owned_process_exit: a pid that is dead or somebody else's ends the
\* wait; an unreadable identity does not.
Wait(here, next) ==
    /\ pc = here
    /\ \/ FALSE \in Liveness /\ Believe("liveness")
       \/ "other" \in Identities /\ Believe("identity")
       \/ TRUE \in Liveness /\ IF next = "done" THEN Answer(FALSE) ELSE GoTo(next)
    /\ Same

\* Windows waits for the handle.
WaitWindows ==
    /\ pc = "wait kill"
    /\ (process # "worker" /\ Answer(TRUE)) \/ Answer(FALSE)
    /\ Same

WaitTerm == Wait("wait term", IF platform = "plain" THEN "verify again" ELSE "kill")
WaitKill == IF platform = "windows" THEN WaitWindows ELSE Wait("wait kill", "done")

\* Only plain kill looks again before SIGKILL.
VerifyAgain ==
    /\ pc = "verify again"
    /\ \E read \in Identities :
        IF read = "expected" THEN GoTo("kill") ELSE Believe("identity")
    /\ Same

\* SIGKILL or TerminateProcess, which may be refused.
Kill ==
    /\ pc = "kill"
    /\ \/ Target = "none" /\ Answer(TRUE)
       \/ Target # "none" /\ GoTo("wait kill")
       \/ platform # "pidfd" /\ Answer(FALSE)
    /\ harmed' = (harmed \/ (Target = "stranger" /\ pc' = "wait kill"))
    /\ UNCHANGED <<platform, process, handle>>

Reaper == CheckAlive \/ Compare \/ Owned \/ VerifyDead \/ Open \/ Verify \/ Terminate
            \/ WaitTerm \/ VerifyAgain \/ Kill \/ WaitKill

Next == Reaper \/ Environment

Spec == Init /\ [][Next]_vars

-----------------------------------------------------------------------------
\* The reaper releases a run only when its worker is gone, unless a call that failed,
\* or was answered in another form, is taken for its absence: that of its liveness
\* anywhere, that of its identity on POSIX.  And only a platform without pidfd and
\* handles can send a stranger the signal, whose pid was reused between the look and
\* the call.
ReaperSound ==
    /\ verdict = "release" /\ process = "worker" =>
        mistaken = "liveness" \/ (mistaken = "identity" /\ platform # "windows")
    /\ harmed => platform = "plain"
=============================================================================
