--------------------------- MODULE LabQueueProofs ---------------------------
(***************************************************************************)
(* Proofs about LabQueue for every number of runs, attempts, services and  *)
(* matrices.  With and without a reliable event mirror: types, the single  *)
(* slot, the consistency of the rows, and the finality of completion.      *)
(*                                                                         *)
(* When the event mirror can always be written (MCLabQueueOrphan.cfg shows *)
(* what happens when it cannot), and whether or not calls about processes  *)
(* fail: two workers are at work at once only if a reaper took one of them *)
(* for gone, and that one never gets its claim back; only its              *)
(* own exit or an expired heartbeat takes the claim from a worker; and     *)
(* LabQueue implements SlotLease: every step of a user, a service, a       *)
(* reaper, a worker or the clock is one step of the slot or leaves it as   *)
(* it is.  That invariant follows a lease through the dispatcher, the      *)
(* process and the reapers that know of it.                                *)
(***************************************************************************)
EXTENDS LabQueue, TLAPS

\* A row that was not created yet is blank.
Blank == \A r \in Runs : status[r] = "absent" => attempt[r] = 0 /\ ~cancelFlag[r]

\* An active run was claimed at least once.
ActiveHasAttempt == \A r \in Runs : status[r] \in Active => attempt[r] # 0

\* A dispatcher that follows a claim knows its lease.
Following == DispatcherStates \ {"down", "dead", "idle"}
LeaseKnown == \A s \in Services : dpc[s] \in Following => lease[s] \in Leases

RowInv == TypeOK /\ SingleSlot /\ RowConsistent /\ Blank /\ ActiveHasAttempt /\ LeaseKnown

USE QueueAssumption

LEMMA LeaseParts == \A l \in Leases : l[1] \in Runs /\ l[2] \in Attempts
  BY DEF Leases

LEMMA LeaseNumbers ==
    TypeOK => \A s \in Services : /\ lease[s][2] \in 0..MaxAttempts
                                  /\ reap[s][2] \in 0..MaxAttempts
  BY LeaseParts DEF TypeOK, NoLease, Attempts

\* The process a reaper read of is that of a lease.
LEMMA SuspectLease ==
    ASSUME TypeOK, NEW s \in Services, reap[s] # NoLease, seen[s] # 0
    PROVE  Suspect(s) \in Leases
  <1>1. reap[s][1] \in Runs /\ seen[s] \in Attempts
    BY LeaseParts DEF TypeOK, Attempts
  <1> QED BY <1>1 DEF Suspect, Leases

\* The types of the runs table, and how the shared row updates keep them.
RowTypes ==
    /\ status \in [Runs -> Statuses] /\ job \in [Runs -> Jobs]
    /\ attempt \in [Runs -> 0..MaxAttempts]
    /\ token \in [Runs -> {"none", "worker", "reaper"}]
    /\ pid \in [Runs -> 0..MaxAttempts] /\ fresh \in [Runs -> BOOLEAN]
    /\ cancelFlag \in [Runs -> BOOLEAN] /\ checkpoint \in [Runs -> BOOLEAN]
    /\ lineage \in [Runs -> SUBSET Attempts]

LEMMA FinalizeTypes ==
    ASSUME TypeOK, NEW r, NEW o \in Quiescent, Finalize(r, o)
    PROVE  RowTypes'
  <1>1. o \in Statuses
    BY DEF Statuses
  <1>2. status' \in [Runs -> Statuses]
    BY <1>1 DEF TypeOK, Finalize
  <1>3. token' \in [Runs -> {"none", "worker", "reaper"}] /\ fresh' \in [Runs -> BOOLEAN]
    BY DEF TypeOK, Finalize
  <1>4. pid' \in [Runs -> 0..MaxAttempts]
    <2>1. 0 \in 0..MaxAttempts
      OBVIOUS
    <2>2. pid' = [pid EXCEPT ![r] = 0] /\ pid \in [Runs -> 0..MaxAttempts]
      BY DEF TypeOK, Finalize
    <2> QED BY <2>1, <2>2
  <1> QED BY <1>2, <1>3, <1>4 DEF TypeOK, RowTypes, Finalize

LEMMA HeartbeatTypes ==
    ASSUME TypeOK, NEW l, l[2] \in 0..MaxAttempts, Heartbeat(l),
           checkpoint' \in [Runs -> BOOLEAN]
    PROVE  RowTypes'
  BY DEF TypeOK, RowTypes, Heartbeat

LEMMA SameRowTypes == TypeOK /\ UNCHANGED row => RowTypes'
  BY DEF TypeOK, RowTypes, row

LEMMA TypeInit == Init => TypeOK
  BY DEF Init, TypeOK, Statuses, Jobs, ProcStates, DispatcherStates, Runs,
     Attempts, NoLease

\* The sets of statuses are apart.
LEMMA StatusSets ==
    /\ Active \cap Pending = {} /\ Active \cap Quiescent = {}
    /\ Pending \cap Quiescent = {} /\ "absent" \notin Active \cup Pending \cup Quiescent
    /\ Resumable \subseteq Quiescent
    /\ Statuses = {"absent"} \cup Active \cup Pending \cup Quiescent
  BY DEF Active, Pending, Quiescent, Terminal, Resumable, Statuses

LEMMA TypeStep == RowInv /\ [Next]_vars => TypeOK'
  <1> SUFFICES ASSUME RowInv, [Next]_vars PROVE TypeOK'
    OBVIOUS
  <1> USE LeaseParts DEF RowInv, TypeOK
  <1>1. CASE UserNext
    <2>1. ASSUME NEW r \in Runs, NEW j \in Jobs, Submit(r, j) PROVE TypeOK'
      BY <2>1 DEF Submit, tables, dispatch, reaper, Statuses, Pending
    <2>2. ASSUME NEW r \in Runs, RequestCancel(r) PROVE TypeOK'
      BY <2>2 DEF RequestCancel, tables, dispatch, reaper, Statuses, Active,
         Quiescent, Terminal
    <2>3. ASSUME NEW r \in Runs, RequestResume(r) PROVE TypeOK'
      BY <2>3 DEF RequestResume, tables, dispatch, reaper, Statuses, Pending
    <2> QED BY <1>1, <2>1, <2>2, <2>3 DEF UserNext
  <1>2. ASSUME NEW r \in Runs, LeaseExpires(r) PROVE TypeOK'
    BY <1>2 DEF LeaseExpires, tables, dispatch, reaper
  <1>3. ASSUME NEW s \in Services, ServiceStep(s) PROVE TypeOK'
    <2> USE DEF Dispatcher, Goto, Leave, DispatcherStates
    <2>1. ASSUME NEW r \in Runs, Claim(s, r) PROVE TypeOK'
      <3>1. attempt[r] < MaxAttempts
        BY <2>1 DEF Claim, OldestPending, RowConsistent
      <3>2. attempt[r] + 1 \in Attempts /\ attempt[r] + 1 \in 0..MaxAttempts
        BY <3>1 DEF Attempts
      <3>3. <<r, attempt[r] + 1>> \in Leases
        BY <3>2 DEF Leases
      <3> QED BY <2>1, <3>2, <3>3 DEF Claim, tables, reaper, Statuses, Active
    <2>2. CASE Launch(s)
      BY <2>2 DEF Launch, row, tables, reaper, ProcStates, Alive, Registered, Closing
    <2>3. CASE LaunchFails(s)
      BY <2>3 DEF LaunchFails, row, tables, reaper
    <2>4. CASE RecordPid(s)
      BY <2>4, LeaseNumbers DEF RecordPid, Heartbeat, row, tables, reaper
    <2>5. CASE AnnounceWorker(s)
      BY <2>5 DEF AnnounceWorker, row, tables, reaper
    <2>6. CASE SeeExit(s)
      BY <2>6 DEF SeeExit, row, tables, reaper
    <2>7. CASE AnnounceLaunchFailure(s)
      BY <2>7 DEF AnnounceLaunchFailure, row, tables, reaper
    <2>8. CASE ReadOutcome(s)
      BY <2>8 DEF ReadOutcome, row, tables, reaper
    <2>9. CASE CloseForWorker(s)
      <3>1. RowTypes'
        <4>1. {"interrupted", "failed"} \subseteq Quiescent
          BY DEF Quiescent, Terminal
        <4> QED BY <2>9, <4>1, FinalizeTypes, SameRowTypes DEF CloseForWorker
      <3>2. UNCHANGED <<tables, proc, reaper>>
        BY <2>9 DEF CloseForWorker
      <3>3. (dpc \in [Services -> DispatcherStates])'
        BY <2>9 DEF CloseForWorker
      <3>4. (lease \in [Services -> Leases \cup {NoLease}])'
        BY <2>9 DEF CloseForWorker
      <3> QED BY <3>1, <3>2, <3>3, <3>4 DEF RowTypes, tables, reaper
    <2> QED BY <1>3, <2>1, <2>2, <2>3, <2>4, <2>5, <2>6, <2>7, <2>8, <2>9 DEF ServiceStep
  <1>4. ASSUME NEW s \in Services, ReaperStep(s) PROVE TypeOK'
    <2> USE DEF EndReap, Goto, Leave, DispatcherStates
    <2>1. ASSUME NEW r \in Runs, Fence(s, r) PROVE TypeOK'
      <3>1. attempt[r] \in Attempts
        BY <2>1 DEF Fence, Stale, Blank, ActiveHasAttempt, Attempts
      <3>2. <<r, attempt[r]>> \in Leases
        BY <3>1 DEF Leases
      <3> QED BY <2>1, <3>2 DEF Fence, tables, dispatch
    <2>2. CASE FindGone(s)
      BY <2>2 DEF FindGone, row, tables, dispatch
    <2>3. CASE Terminate(s)
      BY <2>3 DEF Terminate, row, tables, dispatch, ProcStates
    <2>4. CASE GiveUp(s)
      BY <2>4 DEF GiveUp, row, tables, dispatch
    <2>6. CASE TakeForGone(s)
      <3>1. Suspect(s) \in Leases
        BY <2>6, SuspectLease DEF TakeForGone, Reaping, SuspectAlive
      <3> QED BY <2>6, <3>1 DEF TakeForGone, row, tables, dispatch
    <2>5. CASE Release(s)
      <3>1. RowTypes'
        <4>1. "interrupted" \in Quiescent
          BY DEF Quiescent
        <4> QED BY <2>5, <4>1, FinalizeTypes, SameRowTypes DEF Release
      <3>2. UNCHANGED <<tables, proc>>
        BY <2>5 DEF Release
      <3>3. (dpc \in [Services -> DispatcherStates])'
        BY <2>5 DEF Release, dispatch
      <3>4. (lease \in [Services -> Leases \cup {NoLease}])'
        BY <2>5 DEF Release, dispatch
      <3>5. (reap \in [Services -> Leases \cup {NoLease}] /\
             seen \in [Services -> 0..MaxAttempts] /\ gone \in [Services -> BOOLEAN]
             /\ mistaken \subseteq Leases)'
        BY <2>5 DEF Release
      <3> QED BY <3>1, <3>2, <3>3, <3>4, <3>5 DEF RowTypes, tables
    <2> QED BY <1>4, <2>1, <2>2, <2>3, <2>4, <2>5, <2>6 DEF ReaperStep
  <1>5. ASSUME NEW s \in Services, StopService(s) \/ StartService(s) PROVE TypeOK'
    <2>1. CASE StopService(s)
      BY <2>1 DEF StopService, Leave, row, tables, DispatcherStates
    <2>2. CASE StartService(s)
      BY <2>2 DEF StartService, Goto, row, tables, reaper, DispatcherStates
    <2> QED BY <1>5, <2>1, <2>2
  <1>6. ASSUME NEW l \in Leases, WorkerStep(l) PROVE TypeOK'
    <2> USE DEF Step, Exit, ProcStates, Alive, Registered, Closing
    <2>1. CASE VerifyClaim(l)
      BY <2>1 DEF VerifyClaim, row, tables, dispatch, reaper
    <2>2. CASE RecordProvenance(l)
      BY <2>2 DEF RecordProvenance, tables, dispatch, reaper
    <2>3. CASE Register(l)
      <3>1. RowTypes'
        BY <2>3, HeartbeatTypes, SameRowTypes DEF Register, Attempts
      <3>2. (proc \in [Leases -> ProcStates])' /\ UNCHANGED <<tables, dispatch, reaper>>
        BY <2>3 DEF Register
      <3> QED BY <3>1, <3>2 DEF RowTypes, tables, dispatch, reaper
    <2>4. CASE AnnounceStart(l)
      BY <2>4 DEF AnnounceStart, row, tables, dispatch, reaper
    <2>5. CASE Beat(l)
      BY <2>5 DEF Beat, Heartbeat, tables, dispatch, reaper, Attempts
    <2>6. CASE ReportCheckpoint(l)
      <3>1. RowTypes'
        <4>1. CASE UNCHANGED row
          BY <4>1, SameRowTypes
        <4>2. CASE Heartbeat(l) /\ checkpoint' = [checkpoint EXCEPT ![l[1]] = TRUE]
          BY <4>2, HeartbeatTypes DEF Attempts
        <4> QED BY <2>6, <4>1, <4>2 DEF ReportCheckpoint
      <3>2. (proc \in [Leases -> ProcStates])' /\ UNCHANGED <<tables, dispatch, reaper>>
        BY <2>6 DEF ReportCheckpoint
      <3> QED BY <3>1, <3>2 DEF RowTypes, tables, dispatch, reaper
    <2>7. CASE CancelCheck(l)
      BY <2>7 DEF CancelCheck, row, tables, dispatch, reaper
    <2>8. CASE LastCheck(l)
      BY <2>8 DEF LastCheck, row, tables, dispatch, reaper
    <2>9. CASE UpsertEvaluation(l)
      BY <2>9 DEF UpsertEvaluation, row, dispatch, reaper
    <2>10. CASE FinishTraining(l)
      BY <2>10 DEF FinishTraining, row, tables, dispatch, reaper
    <2>11. CASE JobRaises(l)
      BY <2>11 DEF JobRaises, row, tables, dispatch, reaper
    <2>12. CASE Commit(l)
      <3>1. Outcome(proc[l]) \in Quiescent
        BY DEF Outcome, Quiescent, Terminal
      <3>2. RowTypes'
        BY <2>12, <3>1, FinalizeTypes, SameRowTypes DEF Commit, row
      <3>3. UNCHANGED <<evaluations, dispatch, reaper>>
        BY <2>12 DEF Commit
      <3>4. (policies \subseteq Leases)' /\ (proc \in [Leases -> ProcStates])'
        BY <2>12 DEF Commit
      <3> QED BY <3>2, <3>3, <3>4 DEF RowTypes, dispatch, reaper
    <2>13. CASE Die(l)
      BY <2>13 DEF Die, row, tables, dispatch, reaper
    <2> QED BY <1>6, <2>1, <2>2, <2>3, <2>4, <2>5, <2>6, <2>7, <2>8, <2>9,
               <2>10, <2>11, <2>12, <2>13 DEF WorkerStep
  <1>7. CASE UNCHANGED vars
    BY <1>7 DEF vars, row, tables, dispatch, reaper
  <1> QED BY <1>1, <1>2, <1>3, <1>4, <1>5, <1>6, <1>7 DEF Next

-----------------------------------------------------------------------------
(* Every step does one of six things to the columns the slot depends on.    *)

SameSlot == UNCHANGED <<status, attempt, token, pid, cancelFlag>>
Renewed == \E l \in Leases : Owns(l) /\ Heartbeat(l)
Finalized == \E r \in Runs, o \in Quiescent : status[r] \in Active /\ Finalize(r, o)
Claimed == \E s \in Services, r \in Runs : Claim(s, r)
Fenced == \E s \in Services, r \in Runs : Fence(s, r)

LEMMA RowCases ==
    ASSUME RowInv, [Next]_vars
    PROVE  SameSlot \/ UserNext \/ Renewed \/ Finalized \/ Claimed \/ Fenced
  <1> USE LeaseParts DEF RowInv, TypeOK
  <1>1. ASSUME NEW r \in Runs, LeaseExpires(r) PROVE SameSlot
    BY <1>1 DEF LeaseExpires, SameSlot
  <1>2. ASSUME NEW s \in Services, ServiceStep(s)
        PROVE  SameSlot \/ Renewed \/ Finalized \/ Claimed
    <2>1. ASSUME NEW r \in Runs, Claim(s, r) PROVE Claimed
      BY <2>1 DEF Claimed
    <2>2. CASE Launch(s) \/ LaunchFails(s)
      BY <2>2 DEF Launch, LaunchFails, row, SameSlot
    <2>3. CASE RecordPid(s)
      <3>1. CASE Owns(lease[s]) /\ Heartbeat(lease[s])
        <4>1. lease[s] \in Leases
          BY <2>3 DEF RecordPid, Dispatcher, LeaseKnown, Following, DispatcherStates
        <4> QED BY <3>1, <4>1 DEF Renewed
      <3>2. CASE UNCHANGED row
        BY <3>2 DEF row, SameSlot
      <3> QED BY <2>3, <3>1, <3>2 DEF RecordPid
    <2>4. CASE AnnounceWorker(s) \/ SeeExit(s) \/ AnnounceLaunchFailure(s) \/ ReadOutcome(s)
      BY <2>4 DEF AnnounceWorker, SeeExit, AnnounceLaunchFailure, ReadOutcome, row, SameSlot
    <2>5. CASE CloseForWorker(s)
      <3>1. lease[s] \in Leases
        BY <2>5 DEF CloseForWorker, Dispatcher, LeaseKnown, Following, DispatcherStates
      <3>2. CASE UNCHANGED row
        BY <3>2 DEF row, SameSlot
      <3>3. CASE Owns(lease[s]) /\ \E o \in {"interrupted", "failed"} : Finalize(lease[s][1], o)
        BY <3>1, <3>3 DEF Finalized, Owns, Quiescent, Terminal
      <3> QED BY <2>5, <3>2, <3>3 DEF CloseForWorker
    <2> QED BY <1>2, <2>1, <2>2, <2>3, <2>4, <2>5 DEF ServiceStep
  <1>3. ASSUME NEW s \in Services, ReaperStep(s) PROVE SameSlot \/ Finalized \/ Fenced
    <2>1. ASSUME NEW r \in Runs, Fence(s, r) PROVE Fenced
      BY <2>1 DEF Fenced
    <2>2. CASE FindGone(s) \/ Terminate(s) \/ TakeForGone(s) \/ GiveUp(s)
      BY <2>2 DEF FindGone, Terminate, TakeForGone, GiveUp, row, SameSlot
    <2>3. CASE Release(s)
      <3>1. reap[s] \in Leases
        BY <2>3 DEF Release
      <3>2. CASE UNCHANGED row
        BY <3>2 DEF row, SameSlot
      <3>3. CASE Fences(reap[s]) /\ Finalize(reap[s][1], "interrupted")
        BY <3>1, <3>3 DEF Finalized, Fences, Quiescent
      <3> QED BY <2>3, <3>2, <3>3 DEF Release
    <2> QED BY <1>3, <2>1, <2>2, <2>3 DEF ReaperStep
  <1>4. ASSUME NEW s \in Services, StopService(s) \/ StartService(s) PROVE SameSlot
    BY <1>4 DEF StopService, StartService, row, SameSlot
  <1>5. ASSUME NEW l \in Leases, WorkerStep(l) PROVE SameSlot \/ Renewed \/ Finalized
    <2>1. CASE VerifyClaim(l) \/ AnnounceStart(l) \/ CancelCheck(l) \/ LastCheck(l)
      BY <2>1 DEF VerifyClaim, AnnounceStart, CancelCheck, LastCheck, row, SameSlot
    <2>2. CASE UpsertEvaluation(l) \/ FinishTraining(l) \/ JobRaises(l) \/ Die(l)
      BY <2>2 DEF UpsertEvaluation, FinishTraining, JobRaises, Die, row, SameSlot
    <2>3. CASE RecordProvenance(l)
      BY <2>3 DEF RecordProvenance, SameSlot
    <2>4. CASE Register(l) \/ Beat(l) \/ ReportCheckpoint(l)
      BY <2>4 DEF Register, Beat, ReportCheckpoint, row, SameSlot, Renewed
    <2>5. CASE Commit(l)
      <3>1. Outcome(proc[l]) \in Quiescent
        BY DEF Outcome, Quiescent, Terminal
      <3> QED BY <2>5, <3>1 DEF Commit, Owns, row, SameSlot, Finalized
    <2> QED BY <1>5, <2>1, <2>2, <2>3, <2>4, <2>5 DEF WorkerStep
  <1>6. CASE UNCHANGED vars
    BY <1>6 DEF vars, row, SameSlot
  <1> QED BY <1>1, <1>2, <1>3, <1>4, <1>5, <1>6 DEF Next

LEMMA LeaseKnownStep == RowInv /\ [Next]_vars => LeaseKnown'
  <1> SUFFICES ASSUME RowInv, [Next]_vars PROVE LeaseKnown'
    OBVIOUS
  <1> USE DEF RowInv, TypeOK, LeaseKnown, Following
  <1>1. CASE UNCHANGED dispatch
    BY <1>1 DEF dispatch
  <1>2. ASSUME NEW s \in Services, ServiceStep(s) PROVE LeaseKnown'
    <2> USE DEF Dispatcher, Goto, Leave, DispatcherStates
    <2>1. ASSUME NEW r \in Runs, Claim(s, r) PROVE LeaseKnown'
      <3>1. attempt[r] < MaxAttempts
        BY <2>1 DEF Claim, OldestPending, RowConsistent
      <3>2. <<r, attempt[r] + 1>> \in Leases
        BY <3>1 DEF Leases, Attempts
      <3> QED BY <2>1, <3>2 DEF Claim
    <2>2. CASE Launch(s) \/ LaunchFails(s) \/ RecordPid(s) \/ AnnounceWorker(s)
      BY <2>2 DEF Launch, LaunchFails, RecordPid, AnnounceWorker
    <2>3. CASE SeeExit(s) \/ AnnounceLaunchFailure(s) \/ ReadOutcome(s) \/ CloseForWorker(s)
      BY <2>3 DEF SeeExit, AnnounceLaunchFailure, ReadOutcome, CloseForWorker
    <2> QED BY <1>2, <2>1, <2>2, <2>3 DEF ServiceStep
  <1>3. ASSUME NEW s \in Services, ReaperStep(s) PROVE LeaseKnown'
    <2>1. CASE Release(s)
      BY <2>1, <1>1 DEF Release, Goto, Leave, DispatcherStates
    <2>2. CASE UNCHANGED dispatch
      BY <2>2, <1>1
    <2> QED BY <1>3, <2>1, <2>2 DEF ReaperStep, Fence, FindGone, Terminate, TakeForGone, GiveUp
  <1>4. ASSUME NEW s \in Services, StopService(s) \/ StartService(s) PROVE LeaseKnown'
    BY <1>4 DEF StopService, StartService, Goto, Leave, DispatcherStates
  <1>5. CASE UserNext
    BY <1>1, <1>5 DEF UserNext, Submit, RequestCancel, RequestResume
  <1>6. ASSUME NEW r \in Runs, LeaseExpires(r) PROVE LeaseKnown'
    BY <1>1, <1>6 DEF LeaseExpires
  <1>7. ASSUME NEW l \in Leases, WorkerStep(l) PROVE LeaseKnown'
    BY <1>1, <1>7 DEF WorkerStep, VerifyClaim, RecordProvenance, Register, AnnounceStart,
       Beat, ReportCheckpoint, CancelCheck, LastCheck, UpsertEvaluation, FinishTraining,
       JobRaises, Commit, Die
  <1>8. CASE UNCHANGED vars
    BY <1>1, <1>8 DEF vars
  <1> QED BY <1>2, <1>3, <1>4, <1>5, <1>6, <1>7, <1>8 DEF Next

-----------------------------------------------------------------------------
(* The slot and the rows, move by move.                                     *)

RowPart == SingleSlot /\ RowConsistent /\ Blank /\ ActiveHasAttempt

LEMMA RowPartStep == RowInv /\ [Next]_vars => RowPart'
  <1> SUFFICES ASSUME RowInv, [Next]_vars PROVE RowPart'
    OBVIOUS
  <1> USE StatusSets DEF RowInv, RowPart, TypeOK
  <1>1. CASE SameSlot
    BY <1>1 DEF SameSlot, SingleSlot, RowConsistent, Blank, ActiveHasAttempt
  <1>2. CASE UserNext
    <2>1. ASSUME NEW r \in Runs, NEW j \in Jobs, Submit(r, j) PROVE RowPart'
      <3>1. /\ status[r] = "absent" /\ status' = [status EXCEPT ![r] = "queued"]
            /\ UNCHANGED <<attempt, token, pid, cancelFlag>>
        BY <2>1 DEF Submit
      <3>2. "queued" \in Pending /\ "queued" # "absent"
        BY DEF Pending
      <3> QED BY <3>1, <3>2 DEF SingleSlot, RowConsistent, Blank, ActiveHasAttempt
    <2>2. ASSUME NEW r \in Runs, RequestCancel(r) PROVE RowPart'
      <3>1. /\ status[r] \in Active \cup Pending
            /\ status' = [status EXCEPT ![r] = IF status[r] \in Pending THEN "cancelled"
                                                 ELSE "cancel_requested"]
            /\ cancelFlag' = [cancelFlag EXCEPT ![r] = TRUE]
            /\ UNCHANGED <<attempt, token, pid>>
        BY <2>2 DEF RequestCancel
      <3>2. "cancelled" \in Quiescent /\ "cancel_requested" \in Active
        BY DEF Quiescent, Terminal, Active
      <3>3. \A q \in Runs : status'[q] \in Active <=> status[q] \in Active
        BY <3>1, <3>2
      <3> QED BY <3>1, <3>2, <3>3 DEF SingleSlot, RowConsistent, Blank, ActiveHasAttempt
    <2>3. ASSUME NEW r \in Runs, RequestResume(r) PROVE RowPart'
      <3>1. /\ status[r] \in Quiescent /\ attempt[r] < MaxAttempts
            /\ status' = [status EXCEPT ![r] = "resuming"]
            /\ cancelFlag' = [cancelFlag EXCEPT ![r] = FALSE]
            /\ token' = [token EXCEPT ![r] = "none"] /\ pid' = [pid EXCEPT ![r] = 0]
            /\ UNCHANGED attempt
        BY <2>3 DEF RequestResume
      <3>2. "resuming" \in Pending
        BY DEF Pending
      <3>3. \A q \in Runs : status'[q] \in Active <=> status[q] \in Active
        BY <3>1, <3>2
      <3> QED BY <3>1, <3>2, <3>3 DEF SingleSlot, RowConsistent, Blank, ActiveHasAttempt
    <2> QED BY <1>2, <2>1, <2>2, <2>3 DEF UserNext
  <1>3. CASE Renewed
    <2>1. PICK l \in Leases : Owns(l) /\ Heartbeat(l)
      BY <1>3 DEF Renewed
    <2>2. l[1] \in Runs /\ status[l[1]] \in Active /\ attempt[l[1]] = l[2]
      BY <2>1, LeaseParts DEF Owns
    <2>3. pid' = [pid EXCEPT ![l[1]] = l[2]] /\ UNCHANGED <<status, attempt, token, cancelFlag>>
      BY <2>1 DEF Heartbeat
    <2> QED BY <2>2, <2>3 DEF SingleSlot, RowConsistent, Blank, ActiveHasAttempt
  <1>4. CASE Finalized
    <2>1. PICK r \in Runs, o \in Quiescent : status[r] \in Active /\ Finalize(r, o)
      BY <1>4 DEF Finalized
    <2>2. /\ status' = [status EXCEPT ![r] = o]
          /\ token' = [token EXCEPT ![r] = "none"] /\ pid' = [pid EXCEPT ![r] = 0]
          /\ UNCHANGED <<attempt, cancelFlag>>
      BY <2>1 DEF Finalize
    <2> QED BY <2>1, <2>2 DEF SingleSlot, RowConsistent, Blank, ActiveHasAttempt
  <1>5. CASE Claimed
    <2>1. PICK s \in Services, r \in Runs : Claim(s, r)
      BY <1>5 DEF Claimed
    <2>2. /\ \A q \in Runs : status[q] \notin Active
          /\ status[r] \in Pending
          /\ status' = [status EXCEPT ![r] = "running"]
          /\ token' = [token EXCEPT ![r] = "worker"]
          /\ attempt' = [attempt EXCEPT ![r] = @ + 1]
          /\ pid' = [pid EXCEPT ![r] = 0]
          /\ UNCHANGED cancelFlag
      BY <2>1 DEF Claim, SlotFree, OldestPending
    <2>3. "running" \in Active
      BY DEF Active
    <2>4. \A q \in Runs : status'[q] \in Active <=> q = r
      BY <2>2, <2>3
    <2> QED BY <2>2, <2>3, <2>4 DEF SingleSlot, RowConsistent, Blank, ActiveHasAttempt
  <1>6. CASE Fenced
    <2>1. PICK s \in Services, r \in Runs : Fence(s, r)
      BY <1>6 DEF Fenced
    <2>2. /\ status[r] \in Active /\ token' = [token EXCEPT ![r] = "reaper"]
          /\ UNCHANGED <<status, attempt, pid, cancelFlag>>
      BY <2>1 DEF Fence, Stale
    <2> QED BY <2>2 DEF SingleSlot, RowConsistent, Blank, ActiveHasAttempt
  <1> QED BY <1>1, <1>2, <1>3, <1>4, <1>5, <1>6, RowCases

LEMMA RowInvInit == Init => RowInv
  <1> SUFFICES ASSUME Init PROVE RowInv
    OBVIOUS
  <1>1. TypeOK
    BY TypeInit
  <1>2. RowPart
    BY StatusSets DEF Init, RowPart, SingleSlot, RowConsistent, Blank, ActiveHasAttempt
  <1>3. LeaseKnown
    BY DEF Init, LeaseKnown, Following
  <1> QED BY <1>1, <1>2, <1>3 DEF RowInv, RowPart

LEMMA RowInvStep == RowInv /\ [Next]_vars => RowInv'
  BY TypeStep, LeaseKnownStep, RowPartStep DEF RowInv, RowPart

THEOREM RowInvariant == Spec => []RowInv
  BY RowInvInit, RowInvStep, PTL DEF Spec

\* Every variable keeps its type, for any number of runs and services.
THEOREM TypeCorrect == Spec => []TypeOK
  BY RowInvariant, PTL DEF RowInv

\* At most one run holds the slot, however many services, workers, reapers
\* and users interleave, and whether or not the event mirror can be written.
THEOREM SlotIsSingle == Spec => []SingleSlot
  BY RowInvariant, PTL DEF RowInv

\* Tokens, pids and cancellation flags agree with the status of their row.
THEOREM RowsAreConsistent == Spec => []RowConsistent
  BY RowInvariant, PTL DEF RowInv

\* No step changes the status of a completed run.
THEOREM CompletionIsFinal == Spec => CompletedIsFinal
  <1>1. ASSUME RowInv, [Next]_vars, NEW r \in Runs, status[r] = "completed"
        PROVE  status'[r] = "completed"
    <2>1. status[r] \in Quiescent /\ status[r] \notin Resumable
      BY <1>1 DEF Quiescent, Terminal, Resumable
    <2> QED BY <1>1, <2>1, RowCases, StatusSets DEF RowInv, TypeOK, SameSlot, UserNext, Submit,
       RequestCancel, RequestResume, Renewed, Heartbeat, Finalized, Finalize, Claimed, Claim,
       SlotFree, OldestPending, Fenced, Fence
  <1>2. RowInv /\ [Next]_vars =>
          [\A r \in Runs : status[r] = "completed" => status'[r] = "completed"]_vars
    BY <1>1
  <1> QED BY <1>2, RowInvariant, PTL DEF Spec, CompletedIsFinal

-----------------------------------------------------------------------------
(* Exclusion.                                                              *)

LogReliable == LogMayFail = FALSE

\* Leases are handed out in order, each to one dispatcher, which launches at
\* most one process for it.
LeaseOrder ==
    /\ \A l \in Leases : l[2] > attempt[l[1]] => proc[l] = "absent"
    /\ \A s \in Services : dpc[s] \in Following =>
         /\ lease[s][2] <= attempt[lease[s][1]]
         /\ dpc[s] = "claimed" => proc[lease[s]] = "absent"
    /\ \A s, t \in Services :
         dpc[s] \in Following /\ dpc[t] \in Following /\ lease[s] = lease[t] => s = t

\* A dispatcher closes a lease only when its process is gone or never was.
WorkerGone ==
    \A s \in Services : dpc[s] \in {"launchFailed", "exited", "closing"} =>
       proc[lease[s]] \notin Alive

\* A worker at work holds the current lease of an active run that names it.
WorkerCurrent ==
    \A l \in Leases : l \in AtWork =>
       /\ status[l[1]] \in Active
       /\ attempt[l[1]] = l[2]
       /\ pid[l[1]] = l[2]

\* A lease that no worker will hold again.
Lost(l) ==
    /\ l[2] <= attempt[l[1]]
    /\ attempt[l[1]] = l[2] => token[l[1]] # "worker"

\* A fenced lease is never the worker's again, and once the reaper believes
\* the worker to be gone, or read that none had registered, none is at work
\* that was not taken for gone.
ReaperKnows ==
    \A s \in Services :
      /\ reap[s] = NoLease => ~gone[s]
      /\ reap[s] # NoLease =>
       /\ Lost(reap[s])
       /\ seen[s] \in {0, reap[s][2]}
       /\ seen[s] = 0 \/ gone[s] => reap[s] \notin AtWork

\* A worker was taken for gone only after it had lost its claim.
MistakenLost == \A l \in mistaken : Lost(l)

ProcInv ==
    /\ LogReliable /\ LeaseOrder /\ WorkerGone /\ WorkerCurrent
    /\ ReaperKnows /\ MistakenLost

ExclusionInv == RowInv /\ ProcInv

LEMMA SameLease ==
    \A k, l \in Leases : k[1] = l[1] /\ k[2] = l[2] => k = l
  BY DEF Leases

LEMMA ProcSets ==
    /\ Registered \subseteq Alive /\ "absent" \notin Alive /\ "exited" \notin Alive
    /\ "launched" \in Alive /\ "launched" \notin Registered
  BY DEF Alive, Registered, Closing

LEMMA ProcInit == LogReliable /\ Init => ProcInv
  <1> SUFFICES ASSUME LogReliable, Init PROVE ProcInv
    OBVIOUS
  <1> USE ProcSets DEF Init, Following
  <1>1. LeaseOrder
    BY DEF LeaseOrder
  <1>2. WorkerGone
    BY DEF WorkerGone
  <1>3. WorkerCurrent
    BY DEF WorkerCurrent, AtWork
  <1>4. ReaperKnows /\ MistakenLost
    BY DEF ReaperKnows, MistakenLost
  <1> QED BY <1>1, <1>2, <1>3, <1>4 DEF ProcInv

-----------------------------------------------------------------------------
(* What the steps of each actor do to processes, attempts and dispatchers.  *)

\* A live process moves on, and is newly registered only by Register.
Moves(l) ==
    \E x \in Alive \cup {"exited"} :
      /\ proc[l] \in Alive /\ proc' = [proc EXCEPT ![l] = x]
      /\ x \in Registered => proc[l] \in Registered \/ (Register(l) /\ Owns(l))

LEMMA WorkerMoves ==
    ASSUME NEW l \in Leases, WorkerStep(l)
    PROVE  (UNCHANGED proc \/ Moves(l)) /\ UNCHANGED <<attempt, job, dispatch, reaper>>
  <1> USE DEF Step, Exit, Worker, Registered, Closing, Alive, Moves
  <1>1. CASE VerifyClaim(l) \/ RecordProvenance(l) \/ AnnounceStart(l)
    BY <1>1 DEF VerifyClaim, RecordProvenance, AnnounceStart, row
  <1>2. CASE Register(l)
    <2>1. proc[l] \in Alive /\ UNCHANGED <<attempt, job, dispatch, reaper>>
      BY <1>2 DEF Register, Heartbeat, row
    <2>2. CASE Owns(l) /\ Step(l, "registered")
      BY <1>2, <2>1, <2>2
    <2>3. CASE Exit(l)
      BY <2>1, <2>3
    <2> QED BY <1>2, <2>1, <2>2, <2>3 DEF Register
  <1>3. CASE Beat(l) \/ ReportCheckpoint(l)
    BY <1>3 DEF Beat, ReportCheckpoint, Heartbeat, row
  <1>4. CASE CancelCheck(l) \/ LastCheck(l)
    BY <1>4 DEF CancelCheck, LastCheck, row
  <1>5. CASE UpsertEvaluation(l) \/ FinishTraining(l) \/ JobRaises(l) \/ Die(l)
    BY <1>5 DEF UpsertEvaluation, FinishTraining, JobRaises, Die, row
  <1>6. CASE Commit(l)
    BY <1>6 DEF Commit, Finalize, row
  <1> QED BY <1>1, <1>2, <1>3, <1>4, <1>5, <1>6 DEF WorkerStep

\* Dispatcher s goes on with its claim, or drops it.
Turns(s) ==
    \E x \in DispatcherStates :
      /\ dpc' = [dpc EXCEPT ![s] = x]
      /\ \/ x \notin Following /\ lease' \in {lease, [lease EXCEPT ![s] = NoLease]}
         \/ x \in Following \ {"claimed"} /\ dpc[s] \in Following /\ UNCHANGED lease

\* What it turns to a state that closes the lease for: its worker is gone.
TurnsToClose(s) ==
    dpc'[s] \in {"launchFailed", "exited", "closing"} =>
      \/ dpc[s] \in {"launchFailed", "exited", "closing"}
      \/ dpc[s] = "claimed" /\ UNCHANGED proc
      \/ proc[lease[s]] = "exited"

LEMMA ServiceTurns ==
    ASSUME RowInv, NEW s \in Services, ServiceStep(s)
    PROVE  \/ \E r \in Runs : Claim(s, r)
           \/ Launch(s)
           \/ Turns(s) /\ UNCHANGED <<attempt, proc, reaper>>
  <1> USE DEF Dispatcher, Goto, Leave, DispatcherStates, Turns, Following, RowInv, TypeOK
  <1>1. CASE LaunchFails(s) \/ SeeExit(s)
    BY <1>1 DEF LaunchFails, SeeExit, row
  <1>2. CASE RecordPid(s)
    BY <1>2 DEF RecordPid, Heartbeat, row
  <1>3. CASE AnnounceWorker(s)
    BY <1>3 DEF AnnounceWorker, row
  <1>4. CASE AnnounceLaunchFailure(s) \/ ReadOutcome(s)
    BY <1>4 DEF AnnounceLaunchFailure, ReadOutcome, row
  <1>5. CASE CloseForWorker(s)
    BY <1>5 DEF CloseForWorker, Finalize, row
  <1> QED BY <1>1, <1>2, <1>3, <1>4, <1>5 DEF ServiceStep

\* With a reliable mirror it closes no lease before its worker is gone.
LEMMA ServiceMoves ==
    ASSUME RowInv, LogReliable, NEW s \in Services, ServiceStep(s)
    PROVE  \/ \E r \in Runs : Claim(s, r)
           \/ Launch(s)
           \/ Turns(s) /\ TurnsToClose(s) /\ UNCHANGED <<attempt, proc, reaper>>
  <1> USE DEF Dispatcher, Goto, Leave, DispatcherStates, Turns, TurnsToClose, Following,
              LogReliable, RowInv, TypeOK
  <1>1. CASE LaunchFails(s) \/ SeeExit(s)
    BY <1>1 DEF LaunchFails, SeeExit, row
  <1>2. CASE RecordPid(s)
    BY <1>2 DEF RecordPid, Heartbeat, row
  <1>3. CASE AnnounceWorker(s)
    BY <1>3 DEF AnnounceWorker, row
  <1>4. CASE AnnounceLaunchFailure(s) \/ ReadOutcome(s)
    BY <1>4 DEF AnnounceLaunchFailure, ReadOutcome, row
  <1>5. CASE CloseForWorker(s)
    BY <1>5 DEF CloseForWorker, Finalize, row
  <1> QED BY <1>1, <1>2, <1>3, <1>4, <1>5 DEF ServiceStep

LEMMA ReaperTurns ==
    ASSUME TypeOK, NEW s \in Services, ReaperStep(s)
    PROVE  /\ UNCHANGED <<attempt, job>>
           /\ \/ UNCHANGED proc
              \/ /\ proc[Suspect(s)] \in Alive /\ UNCHANGED dispatch
                 /\ proc' = [proc EXCEPT ![Suspect(s)] = "exited"]
           /\ UNCHANGED dispatch \/ Turns(s)
  <1>1. CASE \/ \E r \in Runs : Fence(s, r)
             \/ FindGone(s) \/ Terminate(s) \/ TakeForGone(s) \/ GiveUp(s)
    BY <1>1 DEF Fence, FindGone, Terminate, TakeForGone, GiveUp, SuspectAlive, row
  <1>2. CASE Release(s)
    <2>1. UNCHANGED <<attempt, job, proc>>
      BY <1>2 DEF Release, Finalize, row
    <2>2. UNCHANGED dispatch \/ Turns(s)
      BY <1>2 DEF Release, Goto, Leave, Turns, Following, DispatcherStates, TypeOK
    <2> QED BY <2>1, <2>2
  <1> QED BY <1>1, <1>2 DEF ReaperStep

LEMMA ReaperMoves ==
    ASSUME LogReliable, NEW s \in Services, ReaperStep(s)
    PROVE  /\ UNCHANGED <<attempt, dispatch>>
           /\ \/ UNCHANGED proc
              \/ Terminate(s) /\ proc' = [proc EXCEPT ![Suspect(s)] = "exited"]
           /\ UNCHANGED mistaken \/ TakeForGone(s)
  BY DEF ReaperStep, Fence, FindGone, Terminate, TakeForGone, GiveUp, Release, EndReap,
     Finalize, row, LogReliable

LEMMA OtherMoves ==
    ASSUME RowInv, NEW s \in Services, StopService(s) \/ StartService(s)
    PROVE  Turns(s) /\ TurnsToClose(s) /\ UNCHANGED <<row, attempt, proc, mistaken>>
  <1> USE DEF Goto, Leave, Turns, Following, DispatcherStates, row, reaper
  <1>1. CASE StopService(s)
    <2>1. Turns(s) /\ UNCHANGED <<row, attempt, proc, mistaken>>
      BY <1>1 DEF StopService
    <2>2. TurnsToClose(s)
      BY <1>1 DEF StopService, TurnsToClose, RowInv, TypeOK
    <2> QED BY <2>1, <2>2
  <1>2. CASE StartService(s)
    <2>1. Turns(s) /\ UNCHANGED <<row, attempt, proc, mistaken>>
      BY <1>2 DEF StartService
    <2>2. TurnsToClose(s)
      BY <1>2 DEF StartService, TurnsToClose, RowInv, TypeOK
    <2> QED BY <2>1, <2>2
  <1> QED BY <1>1, <1>2

LEMMA UserMoves ==
    ASSUME UserNext \/ \E r \in Runs : LeaseExpires(r)
    PROVE  UNCHANGED <<attempt, proc, dispatch, reaper>>
  BY DEF UserNext, Submit, RequestCancel, RequestResume, LeaseExpires

-----------------------------------------------------------------------------

\* This part of the invariant does not need a reliable mirror.
LEMMA LeaseOrderStep == RowInv /\ LeaseOrder /\ [Next]_vars => LeaseOrder'
  <1> SUFFICES ASSUME RowInv, LeaseOrder, [Next]_vars PROVE LeaseOrder'
    OBVIOUS
  <1> USE LeaseParts, ProcSets DEF RowInv, TypeOK, LeaseKnown
  <1>1. ASSUME UNCHANGED <<attempt, proc, dispatch>> PROVE LeaseOrder'
    BY <1>1 DEF LeaseOrder, dispatch
  <1>2. ASSUME NEW s \in Services, Turns(s), UNCHANGED <<attempt, proc>> PROVE LeaseOrder'
    BY <1>2 DEF LeaseOrder, Turns
  <1>3. ASSUME NEW s \in Services, NEW r \in Runs, Claim(s, r) PROVE LeaseOrder'
    <2>1. attempt' = [attempt EXCEPT ![r] = @ + 1] /\ UNCHANGED proc
      BY <1>3 DEF Claim
    <2>2. <<r, attempt[r] + 1>> \in Leases
      <3>1. attempt[r] < MaxAttempts
        BY <1>3 DEF Claim, OldestPending, RowConsistent
      <3>2. attempt[r] + 1 \in Attempts
        BY <3>1, QueueAssumption DEF Attempts
      <3> QED BY <3>2 DEF Leases
    <2>3. \A t \in Services : dpc[t] \in Following => lease[t] # <<r, attempt[r] + 1>>
      BY DEF LeaseOrder
    <2>4. CASE /\ dpc' = [dpc EXCEPT ![s] = "claimed"]
               /\ lease' = [lease EXCEPT ![s] = <<r, attempt[r] + 1>>]
      BY <2>1, <2>2, <2>3, <2>4 DEF LeaseOrder, Attempts
    <2>5. CASE Leave(s, "dead")
      <3>1. dpc'[s] \notin Following /\ \A t \in Services \ {s} : dpc'[t] = dpc[t] /\ lease'[t] = lease[t]
        BY <2>5 DEF Leave, Following
      <3> QED BY <2>1, <3>1 DEF LeaseOrder, Attempts
    <2> QED BY <1>3, <2>4, <2>5 DEF Claim
  <1>4. ASSUME NEW s \in Services, Launch(s) PROVE LeaseOrder'
    <2>1. /\ dpc[s] = "claimed" /\ proc' = [proc EXCEPT ![lease[s]] = "launched"]
          /\ dpc' = [dpc EXCEPT ![s] = "spawned"] /\ UNCHANGED <<lease, attempt>>
      BY <1>4 DEF Launch, Dispatcher, Goto, row
    <2>2. "claimed" \in Following
      BY DEF Following, DispatcherStates
    <2> QED BY <2>1, <2>2 DEF LeaseOrder, Attempts
  <1>5. ASSUME NEW l \in Leases, Moves(l), UNCHANGED <<attempt, dispatch>> PROVE LeaseOrder'
    BY <1>5 DEF LeaseOrder, Moves, dispatch
  <1>6. ASSUME NEW s \in Services, ReaperStep(s) PROVE LeaseOrder'
    <2>1. CASE UNCHANGED proc
      BY <1>1, <1>2, <1>6, <2>1, ReaperTurns
    <2>2. CASE /\ proc[Suspect(s)] \in Alive /\ UNCHANGED dispatch
               /\ proc' = [proc EXCEPT ![Suspect(s)] = "exited"]
      <3>1. \A l \in Leases : proc[l] = "absent" => proc'[l] = "absent"
        BY <2>2
      <3> QED BY <1>6, <2>2, <3>1, ReaperTurns DEF LeaseOrder, dispatch
    <2> QED BY <1>6, <2>1, <2>2, ReaperTurns
  <1>7. CASE UNCHANGED vars
    BY <1>1, <1>7 DEF vars, row
  <1> QED BY <1>1, <1>2, <1>3, <1>4, <1>5, <1>6, <1>7, ServiceTurns, OtherMoves, UserMoves,
             WorkerMoves DEF Next

LEMMA WorkerGoneStep == ExclusionInv /\ [Next]_vars => WorkerGone'
  <1> SUFFICES ASSUME ExclusionInv, [Next]_vars PROVE WorkerGone'
    OBVIOUS
  <1> USE LeaseParts, ProcSets DEF ExclusionInv, ProcInv, RowInv, TypeOK, LeaseKnown
  <1>0. {"launchFailed", "exited", "closing", "claimed"} \subseteq Following
    BY DEF Following, DispatcherStates
  <1>1. ASSUME UNCHANGED <<proc, dispatch>> PROVE WorkerGone'
    BY <1>1 DEF WorkerGone, dispatch
  <1>2. ASSUME NEW s \in Services, Turns(s), TurnsToClose(s), UNCHANGED proc PROVE WorkerGone'
    BY <1>0, <1>2 DEF WorkerGone, Turns, TurnsToClose, LeaseOrder
  <1>3. ASSUME NEW s \in Services, NEW r \in Runs, Claim(s, r) PROVE WorkerGone'
    BY <1>3 DEF Claim, LogReliable, WorkerGone
  <1>4. ASSUME NEW s \in Services, Launch(s) PROVE WorkerGone'
    <2>1. /\ dpc[s] = "claimed" /\ proc' = [proc EXCEPT ![lease[s]] = "launched"]
          /\ dpc' = [dpc EXCEPT ![s] = "spawned"] /\ UNCHANGED lease
      BY <1>4 DEF Launch, Dispatcher, Goto
    <2> QED BY <1>0, <2>1 DEF WorkerGone, LeaseOrder
  <1>5. ASSUME NEW l \in Leases, Moves(l), UNCHANGED dispatch PROVE WorkerGone'
    BY <1>0, <1>5 DEF WorkerGone, Moves, dispatch
  <1>6. ASSUME NEW s \in Services, ReaperStep(s) PROVE WorkerGone'
    BY <1>0, <1>1, <1>6, ReaperMoves DEF WorkerGone, dispatch
  <1>7. CASE UNCHANGED vars
    BY <1>1, <1>7 DEF vars
  <1> QED BY <1>1, <1>2, <1>3, <1>4, <1>5, <1>6, <1>7, ServiceMoves, OtherMoves, UserMoves,
             WorkerMoves DEF Next

-----------------------------------------------------------------------------
(* What the steps of each actor do to the columns of the slot.              *)

LEMMA WorkerRow ==
    ASSUME NEW l \in Leases, WorkerStep(l)
    PROVE  \/ SameSlot
           \/ Owns(l) /\ Heartbeat(l)
           \/ /\ Owns(l) /\ \E o \in Quiescent : Finalize(l[1], o)
              /\ proc' = [proc EXCEPT ![l] = "exited"]
  <1>1. CASE VerifyClaim(l) \/ AnnounceStart(l) \/ CancelCheck(l) \/ LastCheck(l)
    BY <1>1 DEF VerifyClaim, AnnounceStart, CancelCheck, LastCheck, row, SameSlot
  <1>2. CASE UpsertEvaluation(l) \/ FinishTraining(l) \/ JobRaises(l) \/ Die(l)
    BY <1>2 DEF UpsertEvaluation, FinishTraining, JobRaises, Die, row, SameSlot
  <1>3. CASE RecordProvenance(l)
    BY <1>3 DEF RecordProvenance, SameSlot
  <1>4. CASE Register(l) \/ Beat(l) \/ ReportCheckpoint(l)
    BY <1>4 DEF Register, Beat, ReportCheckpoint, row, SameSlot
  <1>5. CASE Commit(l)
    <2>1. Outcome(proc[l]) \in Quiescent
      BY DEF Outcome, Quiescent, Terminal
    <2> QED BY <1>5, <2>1 DEF Commit, row, SameSlot, Exit, Step
  <1> QED BY <1>1, <1>2, <1>3, <1>4, <1>5 DEF WorkerStep

LEMMA ServiceRow ==
    ASSUME RowInv, NEW s \in Services, ServiceStep(s)
    PROVE  \/ \E r \in Runs : Claim(s, r)
           \/ SameSlot
           \/ lease[s] \in Leases /\ Owns(lease[s]) /\ Heartbeat(lease[s])
           \/ /\ lease[s] \in Leases /\ Owns(lease[s]) /\ dpc[s] = "closing"
              /\ \E o \in Quiescent : Finalize(lease[s][1], o)
  <1> USE DEF Dispatcher
  <1>1. CASE Launch(s) \/ LaunchFails(s)
    BY <1>1 DEF Launch, LaunchFails, row, SameSlot
  <1>2. CASE AnnounceWorker(s) \/ SeeExit(s) \/ AnnounceLaunchFailure(s) \/ ReadOutcome(s)
    BY <1>2 DEF AnnounceWorker, SeeExit, AnnounceLaunchFailure, ReadOutcome, row, SameSlot
  <1>3. CASE RecordPid(s)
    <2>1. lease[s] \in Leases
      BY <1>3 DEF RecordPid, RowInv, LeaseKnown, Following, DispatcherStates
    <2> QED BY <1>3, <2>1 DEF RecordPid, row, SameSlot
  <1>4. CASE CloseForWorker(s)
    <2>1. lease[s] \in Leases
      BY <1>4 DEF CloseForWorker, RowInv, LeaseKnown, Following, DispatcherStates
    <2>2. {"interrupted", "failed"} \subseteq Quiescent
      BY DEF Quiescent, Terminal
    <2> QED BY <1>4, <2>1, <2>2 DEF CloseForWorker, row, SameSlot
  <1> QED BY <1>1, <1>2, <1>3, <1>4 DEF ServiceStep

LEMMA ReaperRow ==
    ASSUME RowInv, NEW s \in Services, ReaperStep(s)
    PROVE  \/ SameSlot
           \/ \E r \in Runs : Fence(s, r)
           \/ /\ reap[s] \in Leases /\ gone[s] /\ Fences(reap[s]) /\ UNCHANGED proc
              /\ \E o \in Quiescent : Finalize(reap[s][1], o)
  <1>1. CASE FindGone(s) \/ Terminate(s) \/ TakeForGone(s) \/ GiveUp(s)
    BY <1>1 DEF FindGone, Terminate, TakeForGone, GiveUp, row, SameSlot
  <1>2. CASE Release(s)
    <2>1. reap[s] \in Leases /\ "interrupted" \in Quiescent
      BY <1>2 DEF Release, RowInv, TypeOK, Quiescent
    <2> QED BY <1>2, <2>1 DEF Release, row, SameSlot
  <1> QED BY <1>1, <1>2 DEF ReaperStep

\* Nobody is at work after the step that was not before it.
NoneNew == \A l \in Leases : l \in AtWork' => l \in AtWork

LEMMA NoneNewByProc ==
    ASSUME \A l \in Leases : proc'[l] \in Registered => proc[l] \in Registered,
           mistaken \subseteq mistaken'
    PROVE  NoneNew
  BY DEF NoneNew, AtWork

LEMMA SameAtWork == UNCHANGED <<proc, mistaken>> => AtWork' = AtWork
  BY DEF AtWork

LEMMA AtWorkLease ==
    \A l : l \in AtWork => l \in Leases /\ proc[l] \in Registered /\ l \notin mistaken
  BY DEF AtWork

LEMMA NoneNewCurrent ==
    ASSUME ExclusionInv, NoneNew, SameSlot \/ \E m \in Leases : Owns(m) /\ Heartbeat(m)
    PROVE  WorkerCurrent'
  BY LeaseParts DEF ExclusionInv, ProcInv, RowInv, TypeOK, WorkerCurrent, NoneNew, SameSlot,
     Owns, Heartbeat

\* Finalizing the run of a current lease whose worker is not at work.
LEMMA FinalizeCurrent ==
    ASSUME ExclusionInv, NoneNew, NEW m \in Leases, NEW o \in Quiescent,
           attempt[m[1]] = m[2], m \notin AtWork', Finalize(m[1], o)
    PROVE  WorkerCurrent'
  <1> SUFFICES ASSUME NEW l \in Leases, l \in AtWork'
               PROVE  /\ status'[l[1]] \in Active /\ attempt'[l[1]] = l[2] /\ pid'[l[1]] = l[2]
    BY DEF WorkerCurrent
  <1>1. /\ l[1] \in Runs /\ status[l[1]] \in Active /\ attempt[l[1]] = l[2]
        /\ pid[l[1]] = l[2]
    BY LeaseParts DEF ExclusionInv, ProcInv, WorkerCurrent, NoneNew
  <1>2. l[1] # m[1]
    BY <1>1, SameLease
  <1> QED BY <1>1, <1>2 DEF Finalize, ExclusionInv, RowInv, TypeOK

LEMMA WorkerNoneNew ==
    ASSUME TypeOK, NEW l \in Leases, WorkerStep(l)
    PROVE  NoneNew \/ (Register(l) /\ Owns(l) /\ proc' = [proc EXCEPT ![l] = "registered"])
  <1>1. UNCHANGED mistaken
    BY WorkerMoves DEF reaper
  <1>2. CASE UNCHANGED proc
    BY <1>1, <1>2, NoneNewByProc
  <1>3. CASE Moves(l) /\ ~(Register(l) /\ Owns(l) /\ proc' = [proc EXCEPT ![l] = "registered"])
    <2>1. \A k \in Leases : proc'[k] \in Registered => proc[k] \in Registered
      BY <1>3, ProcSets DEF Moves, TypeOK, Register, Step, Exit
    <2> QED BY <1>1, <2>1, NoneNewByProc
  <1> QED BY <1>2, <1>3, WorkerMoves

LEMMA WorkerCurrentStep == ExclusionInv /\ [Next]_vars => WorkerCurrent'
  <1> SUFFICES ASSUME ExclusionInv, [Next]_vars PROVE WorkerCurrent'
    OBVIOUS
  <1> USE LeaseParts, ProcSets, StatusSets DEF ExclusionInv, ProcInv
  <1>1. CASE UserNext
    <2>1. UNCHANGED <<attempt, proc, mistaken>>
      BY <1>1, UserMoves DEF reaper
    <2>2. \A r \in Runs : status[r] \in Active =>
             status'[r] \in Active /\ pid'[r] = pid[r]
      BY <1>1 DEF UserNext, Submit, RequestCancel, RequestResume, RowInv, TypeOK, Active
    <2> QED BY <2>1, <2>2, SameAtWork DEF WorkerCurrent
  <1>2. ASSUME NEW r \in Runs, LeaseExpires(r) PROVE WorkerCurrent'
    BY <1>2, SameAtWork DEF LeaseExpires, WorkerCurrent, reaper
  <1>3. ASSUME NEW s \in Services, NEW r \in Runs, Claim(s, r) PROVE WorkerCurrent'
    BY <1>3, SameAtWork DEF Claim, SlotFree, WorkerCurrent, reaper
  <1>4. ASSUME NEW s \in Services, ServiceStep(s), ~ \E r \in Runs : Claim(s, r)
        PROVE  WorkerCurrent'
    <2>1. NoneNew
      <3>1. CASE UNCHANGED <<proc, reaper>>
        BY <3>1, NoneNewByProc DEF reaper
      <3>2. CASE Launch(s)
        <4>1. \A l \in Leases : proc'[l] \in Registered => proc[l] \in Registered
          BY <3>2 DEF Launch, RowInv, TypeOK
        <4>2. UNCHANGED mistaken
          BY <3>2 DEF Launch, reaper
        <4> QED BY <4>1, <4>2, NoneNewByProc
      <3> QED BY <1>4, <3>1, <3>2, ServiceMoves
    <2>2. CASE /\ lease[s] \in Leases /\ Owns(lease[s]) /\ dpc[s] = "closing"
               /\ \E o \in Quiescent : Finalize(lease[s][1], o)
      <3>1. lease[s] \notin AtWork
        BY <2>2, AtWorkLease DEF WorkerGone
      <3> QED BY <2>1, <2>2, <3>1, FinalizeCurrent DEF Owns, NoneNew
    <2> QED BY <1>4, <2>1, <2>2, ServiceRow, NoneNewCurrent
  <1>5. ASSUME NEW s \in Services, ReaperStep(s) PROVE WorkerCurrent'
    <2>1. NoneNew
      <3>1. \A l \in Leases : proc'[l] \in Registered => proc[l] \in Registered
        BY <1>5, ReaperMoves DEF RowInv, TypeOK
      <3>2. mistaken \subseteq mistaken'
        BY <1>5, ReaperMoves DEF TakeForGone
      <3> QED BY <3>1, <3>2, NoneNewByProc
    <2>2. ASSUME NEW r \in Runs, Fence(s, r) PROVE WorkerCurrent'
      BY <2>2, SameAtWork DEF Fence, WorkerCurrent
    <2>3. CASE /\ reap[s] \in Leases /\ gone[s] /\ Fences(reap[s]) /\ UNCHANGED proc
               /\ \E o \in Quiescent : Finalize(reap[s][1], o)
      <3>1. NoLease \notin Leases
        BY DEF NoLease, Leases, Runs
      <3>2. reap[s] \notin AtWork
        BY <2>3, <3>1 DEF ReaperKnows
      <3> QED BY <2>1, <2>3, <3>2, FinalizeCurrent DEF Fences, NoneNew
    <2> QED BY <1>5, <2>1, <2>2, <2>3, ReaperRow, NoneNewCurrent
  <1>6. ASSUME NEW s \in Services, StopService(s) \/ StartService(s) PROVE WorkerCurrent'
    BY <1>6, OtherMoves, SameAtWork DEF WorkerCurrent, row
  <1>7. ASSUME NEW l \in Leases, WorkerStep(l) PROVE WorkerCurrent'
    <2>0. UNCHANGED mistaken
      BY <1>7, WorkerMoves DEF reaper
    <2>1. CASE Register(l) /\ Owns(l) /\ proc' = [proc EXCEPT ![l] = "registered"]
      <3>1. Heartbeat(l)
        BY <2>1 DEF Register
      <3>2. \A k \in Leases \ {l} : k \in AtWork' => k \in AtWork
        BY <2>0, <2>1 DEF AtWork
      <3>3. status[l[1]] \in Active /\ attempt[l[1]] = l[2]
        BY <2>1 DEF Owns
      <3> QED BY <3>1, <3>2, <3>3 DEF Heartbeat, WorkerCurrent, RowInv, TypeOK
    <2>2. CASE NoneNew
      <3>1. CASE /\ Owns(l) /\ \E o \in Quiescent : Finalize(l[1], o)
                 /\ proc' = [proc EXCEPT ![l] = "exited"]
        <4>1. l \notin AtWork'
          BY <3>1 DEF RowInv, TypeOK, AtWork
        <4> QED BY <2>2, <3>1, <4>1, FinalizeCurrent DEF Owns
      <3> QED BY <1>7, <2>2, <3>1, WorkerRow, NoneNewCurrent
    <2>3. NoneNew \/ (Register(l) /\ Owns(l) /\ proc' = [proc EXCEPT ![l] = "registered"])
      BY <1>7, WorkerNoneNew DEF RowInv
    <2> QED BY <2>1, <2>2, <2>3
  <1>8. CASE UNCHANGED vars
    BY <1>8, SameAtWork DEF vars, row, reaper, WorkerCurrent
  <1> QED BY <1>1, <1>2, <1>3, <1>4, <1>5, <1>6, <1>7, <1>8 DEF Next

-----------------------------------------------------------------------------
(* The reapers.                                                             *)

\* What a step may do without disturbing the knowledge of reaper s: attempts
\* only grow, a token is the worker's only if it was or the attempt is new,
\* and no process starts to work except under a worker's token.
Harmless ==
    /\ \A r \in Runs : attempt'[r] >= attempt[r]
    /\ \A r \in Runs : token'[r] = "worker" => token[r] = "worker" \/ attempt'[r] > attempt[r]
    /\ \A l \in Leases : l \in AtWork' => l \in AtWork \/ Owns(l)

LEMMA HarmlessStep == ExclusionInv /\ [Next]_vars => Harmless
  <1> SUFFICES ASSUME ExclusionInv, [Next]_vars PROVE Harmless
    OBVIOUS
  <1> USE ProcSets DEF ExclusionInv, RowInv, TypeOK
  <1>1. \A r \in Runs : attempt'[r] >= attempt[r] /\
          (token'[r] = "worker" => token[r] = "worker" \/ attempt'[r] > attempt[r])
    <2>1. CASE UserNext
      BY <2>1 DEF UserNext, Submit, RequestCancel, RequestResume
    <2>2. CASE Finalized
      BY <2>2 DEF Finalized, Finalize
    <2>3. CASE Claimed
      BY <2>3 DEF Claimed, Claim
    <2>4. CASE SameSlot \/ Renewed \/ Fenced
      BY <2>4 DEF SameSlot, Renewed, Heartbeat, Fenced, Fence
    <2> QED BY <2>1, <2>2, <2>3, <2>4, RowCases DEF RowInv
  <1>2. ASSUME NEW l \in Leases, proc'[l] \in Registered
        PROVE  proc[l] \in Registered \/ Owns(l)
    <2>1. CASE UNCHANGED proc
      BY <1>2, <2>1
    <2>2. ASSUME NEW s \in Services, Launch(s) PROVE proc[l] \in Registered
      BY <1>2, <2>2 DEF Launch
    <2>3. ASSUME NEW s \in Services, Terminate(s) PROVE proc[l] \in Registered
      BY <1>2, <2>3 DEF Terminate
    <2>4. ASSUME NEW k \in Leases, Moves(k) PROVE proc[l] \in Registered \/ Owns(l)
      BY <1>2, <2>4 DEF Moves
    <2>5. ASSUME NEW s \in Services, NEW r \in Runs, Claim(s, r) PROVE UNCHANGED proc
      BY <2>5 DEF Claim
    <2> QED BY <2>1, <2>2, <2>3, <2>4, <2>5, ServiceMoves, ReaperMoves, OtherMoves, UserMoves,
               WorkerMoves DEF Next, vars, ProcInv, RowInv
  <1>3. mistaken \subseteq mistaken'
    <2>1. ASSUME NEW s \in Services, ReaperStep(s) PROVE mistaken \subseteq mistaken'
      BY <2>1, ReaperMoves DEF TakeForGone, ProcInv
    <2>2. ASSUME NEW s \in Services, ServiceStep(s) PROVE UNCHANGED mistaken
      BY <2>2, ServiceMoves DEF ProcInv, Claim, Launch, reaper
    <2> QED BY <2>1, <2>2, OtherMoves, UserMoves, WorkerMoves DEF Next, vars, reaper
  <1>4. \A l \in Leases : l \in AtWork' => l \in AtWork \/ Owns(l)
    BY <1>2, <1>3 DEF AtWork
  <1> QED BY <1>1, <1>4 DEF Harmless

LEMMA LostStep ==
    ASSUME ExclusionInv, [Next]_vars, NEW m \in Leases, Lost(m)
    PROVE  Lost(m)'
  <1>1. Harmless /\ TypeOK /\ TypeOK'
    BY HarmlessStep, TypeStep DEF ExclusionInv, RowInv
  <1>2. m[1] \in Runs /\ m[2] \in Attempts
    BY LeaseParts
  <1>3. /\ attempt[m[1]] \in Nat /\ attempt'[m[1]] \in Nat /\ m[2] \in Nat
    BY <1>1, <1>2 DEF TypeOK, Attempts
  <1> QED BY <1>1, <1>2, <1>3 DEF Lost, Harmless

\* What reaper s knows of lease m, when it read pid p and believes g.
Knows(m, p, g) ==
    /\ Lost(m)
    /\ p \in {0, m[2]}
    /\ p = 0 \/ g => m \notin AtWork

LEMMA KnowsStep ==
    ASSUME ExclusionInv, [Next]_vars, NEW m \in Leases, NEW p, NEW g \in BOOLEAN,
           Knows(m, p, g)
    PROVE  Knows(m, p, g)'
  <1>1. Harmless /\ Lost(m)' /\ ~Owns(m)
    BY HarmlessStep, LostStep DEF Knows, Lost, Owns
  <1> QED BY <1>1 DEF Knows, Harmless

LEMMA ReaperKnowsStep == ExclusionInv /\ [Next]_vars => ReaperKnows'
  <1> SUFFICES ASSUME ExclusionInv, [Next]_vars, NEW t \in Services
               PROVE  /\ reap'[t] = NoLease => ~gone'[t]
                      /\ reap'[t] # NoLease => Knows(reap[t], seen[t], gone[t])'
    BY DEF ReaperKnows, Knows
  <1>1. /\ TypeOK
        /\ reap[t] = NoLease => ~gone[t]
        /\ reap[t] # NoLease => reap[t] \in Leases /\ Knows(reap[t], seen[t], gone[t])
    BY DEF ExclusionInv, ProcInv, RowInv, ReaperKnows, Knows, TypeOK
  <1>2. CASE UNCHANGED <<reap[t], seen[t], gone[t]>>
    BY <1>1, <1>2, KnowsStep DEF TypeOK, Knows
  <1>3. CASE reap'[t] = NoLease /\ gone'[t] = FALSE
    BY <1>3
  <1>4. ASSUME NEW r \in Runs, Fence(t, r)
        PROVE  reap'[t] # NoLease /\ Knows(reap[t], seen[t], gone[t])'
    <2> DEFINE m == <<r, attempt[r]>>
    <2>1. /\ status[r] \in Active /\ pid[r] \in {0, attempt[r]} /\ attempt[r] # 0
      BY <1>4 DEF Fence, Stale, ExclusionInv, RowInv, RowConsistent, ActiveHasAttempt
    <2>2. attempt[r] \in Attempts
      BY <1>1, <2>1 DEF TypeOK, Attempts
    <2>3. m \in Leases
      BY <2>2 DEF Leases
    <2>4. pid[r] = 0 => m \notin AtWork
      BY <2>1, <2>3 DEF ExclusionInv, ProcInv, WorkerCurrent
    <2>5. /\ reap'[t] = m /\ seen'[t] = pid[r] /\ gone'[t] = FALSE
          /\ token'[r] = "reaper" /\ UNCHANGED <<attempt, proc, mistaken>>
      BY <1>1, <1>4 DEF Fence, TypeOK
    <2>6. m # NoLease
      BY DEF NoLease, Runs
    <2>7. AtWork' = AtWork
      BY <2>5, SameAtWork
    <2> QED BY <1>1, <2>1, <2>2, <2>4, <2>5, <2>6, <2>7 DEF Knows, Lost, Attempts
  <1>5. ASSUME FindGone(t) \/ Terminate(t) \/ TakeForGone(t)
        PROVE  reap'[t] # NoLease /\ Knows(reap[t], seen[t], gone[t])'
    <2>1. /\ reap[t] # NoLease /\ reap'[t] = reap[t] /\ seen'[t] = seen[t] /\ gone'[t] = TRUE
          /\ UNCHANGED <<attempt, token>>
      BY <1>1, <1>5 DEF FindGone, Terminate, TakeForGone, Reaping, row, TypeOK
    <2>2. seen[t] # 0 => Suspect(t) = reap[t]
      <3>1. \A k \in Leases : k = <<k[1], k[2]>>
        BY DEF Leases
      <3> QED BY <1>1, <2>1, <3>1 DEF Suspect, Knows
    <2>3. reap[t] \notin AtWork'
      <3>1. CASE FindGone(t)
        <4>1. AtWork' = AtWork
          BY <3>1, SameAtWork DEF FindGone
        <4> QED BY <1>1, <2>1, <2>2, <3>1, <4>1, ProcSets, AtWorkLease DEF FindGone, SuspectAlive,
             Knows
      <3>2. CASE Terminate(t)
        BY <1>1, <2>1, <2>2, <3>2, ProcSets DEF Terminate, SuspectAlive, TypeOK, AtWork
      <3>3. CASE TakeForGone(t)
        BY <2>2, <3>3 DEF TakeForGone, SuspectAlive, AtWork
      <3> QED BY <1>5, <3>1, <3>2, <3>3
    <2> QED BY <1>1, <2>1, <2>3 DEF Knows, Lost
  <1>6. ASSUME NEW s \in Services, ReaperStep(s)
        PROVE  \/ UNCHANGED <<reap[t], seen[t], gone[t]>>
               \/ reap'[t] = NoLease /\ gone'[t] = FALSE
               \/ \E r \in Runs : Fence(t, r)
               \/ FindGone(t) \/ Terminate(t) \/ TakeForGone(t)
    BY <1>1, <1>6 DEF ReaperStep, Fence, FindGone, Terminate, TakeForGone, GiveUp, Release, EndReap, TypeOK
  <1>7. ASSUME NEW s \in Services, ServiceStep(s) PROVE UNCHANGED reaper
    BY <1>7, ServiceMoves DEF ExclusionInv, ProcInv, Claim, Launch
  <1>8. ASSUME NEW s \in Services, StopService(s) \/ StartService(s)
        PROVE  \/ UNCHANGED <<reap[t], seen[t], gone[t]>>
               \/ reap'[t] = NoLease /\ gone'[t] = FALSE
    BY <1>1, <1>8 DEF StopService, StartService, reaper, TypeOK
  <1>9. UNCHANGED reaper => UNCHANGED <<reap[t], seen[t], gone[t]>>
    BY DEF reaper
  <1>10. \/ UNCHANGED <<reap[t], seen[t], gone[t]>>
         \/ reap'[t] = NoLease /\ gone'[t] = FALSE
         \/ \E r \in Runs : Fence(t, r)
         \/ FindGone(t) \/ Terminate(t) \/ TakeForGone(t)
    <2>1. CASE UserNext \/ \E r \in Runs : LeaseExpires(r)
      BY <1>9, <2>1, UserMoves
    <2>2. CASE \E l \in Leases : WorkerStep(l)
      BY <1>9, <2>2, WorkerMoves
    <2>3. CASE UNCHANGED vars
      BY <1>9, <2>3 DEF vars
    <2> QED BY <1>6, <1>7, <1>8, <1>9, <2>1, <2>2, <2>3 DEF Next
  <1> QED BY <1>2, <1>3, <1>4, <1>5, <1>10

\* Who is taken for gone has lost its claim before that step.
LEMMA MistakenLostBefore ==
    ASSUME ExclusionInv, [Next]_vars, NEW l \in mistaken'
    PROVE  l \in Leases /\ Lost(l)
  <1>1. CASE l \in mistaken
    BY <1>1 DEF ExclusionInv, RowInv, TypeOK, ProcInv, MistakenLost
  <1>2. CASE l \notin mistaken
    <2>1. PICK s \in Services : ReaperStep(s)
      <3>1. ASSUME NEW s \in Services, ServiceStep(s) PROVE UNCHANGED mistaken
        BY <3>1, ServiceMoves DEF ExclusionInv, ProcInv, Claim, Launch, reaper
      <3> QED BY <1>2, <3>1, OtherMoves, UserMoves, WorkerMoves
           DEF Next, vars, reaper, ExclusionInv
    <2>2. TakeForGone(s) /\ l = Suspect(s)
      BY <1>2, <2>1, ReaperMoves DEF ExclusionInv, ProcInv, TakeForGone
    <2>3. l \in Leases
      BY <2>2, SuspectLease DEF TakeForGone, Reaping, SuspectAlive, ExclusionInv, RowInv
    <2>4. l = reap[s] /\ Lost(reap[s])
      <3>1. reap[s] \in Leases /\ seen[s] = reap[s][2]
        BY <2>2 DEF TakeForGone, Reaping, SuspectAlive, ExclusionInv, ProcInv, ReaperKnows,
           RowInv, TypeOK
      <3>2. reap[s] = <<reap[s][1], reap[s][2]>>
        BY <3>1 DEF Leases
      <3> QED BY <2>2, <3>1, <3>2 DEF Suspect, TakeForGone, Reaping, ExclusionInv, ProcInv,
           ReaperKnows
    <2> QED BY <2>3, <2>4
  <1> QED BY <1>1, <1>2

LEMMA MistakenLostStep == ExclusionInv /\ [Next]_vars => MistakenLost'
  BY MistakenLostBefore, LostStep DEF MistakenLost

LEMMA ExclusionStep == ExclusionInv /\ [Next]_vars => ExclusionInv'
  BY RowInvStep, LeaseOrderStep, WorkerGoneStep, WorkerCurrentStep, ReaperKnowsStep,
     MistakenLostStep DEF ExclusionInv, ProcInv, LogReliable

LEMMA ExclusionInvariant == LogReliable /\ Spec => []ExclusionInv
  <1>1. LogReliable /\ Init => ExclusionInv
    BY RowInvInit, ProcInit DEF ExclusionInv
  <1> QED BY <1>1, ExclusionStep, PTL DEF Spec

\* Whatever services, users, crashes, expiring leases and failing calls about
\* processes do, if the event mirror can always be written: of two worker
\* processes at work at the same time at least one was taken for gone by a
\* reaper, and a worker that was taken for gone never holds its claim again.
THEOREM MutualExclusion == LogReliable /\ Spec => []OneExecutor
  <1>1. ExclusionInv => OneExecutor
    <2> SUFFICES ASSUME ExclusionInv PROVE OneExecutor
      OBVIOUS
    <2>1. \A k, l \in AtWork : k = l
      BY LeaseParts, SameLease, AtWorkLease
         DEF ExclusionInv, ProcInv, RowInv, WorkerCurrent, SingleSlot
    <2>2. ASSUME NEW l \in mistaken, token[l[1]] = "worker" PROVE attempt[l[1]] > l[2]
      <3>1. l[1] \in Runs /\ l[2] \in Nat /\ attempt[l[1]] \in Nat
        BY LeaseParts DEF ExclusionInv, RowInv, TypeOK, Attempts
      <3> QED BY <2>2, <3>1 DEF ExclusionInv, ProcInv, MistakenLost, Lost
    <2> QED BY <2>1, <2>2 DEF OneExecutor
  <1> QED BY <1>1, ExclusionInvariant, PTL

\* Under the same assumption a worker that is alive and whose heartbeat is
\* fresh loses its claim in no step of any other actor.
THEOREM OrphanKeepsClaim == LogReliable /\ Spec => FreshOrphanKeepsClaim
  <1>1. ASSUME ExclusionInv, [Next]_vars, NEW l \in Leases, Owns(l), fresh[l[1]],
               proc[l] \in Registered, proc'[l] \in Registered
        PROVE  Owns(l)'
    <2>1. /\ WorkerCurrent' /\ RowInv /\ RowInv' /\ l[1] \in Runs
      BY <1>1, ExclusionStep, LeaseParts DEF ExclusionInv, ProcInv
    <2>2. status'[l[1]] \in Active /\ attempt'[l[1]] = l[2]
      <3>1. l \notin mistaken'
        BY <1>1, MistakenLostBefore DEF Lost, Owns
      <3>2. l \in AtWork'
        BY <1>1, <3>1 DEF AtWork
      <3> QED BY <2>1, <3>2 DEF WorkerCurrent
    <2>3. token'[l[1]] # "reaper"
      <3>1. CASE Fenced
        BY <1>1, <2>1, <3>1 DEF Fenced, Fence, Stale, Owns, RowInv, TypeOK
      <3>2. CASE UserNext
        BY <1>1, <2>1, <3>2 DEF UserNext, Submit, RequestCancel, RequestResume, Owns, RowInv, TypeOK
      <3>3. CASE SameSlot \/ Renewed \/ Finalized \/ Claimed
        BY <1>1, <2>1, <3>3 DEF SameSlot, Renewed, Heartbeat, Finalized, Finalize, Claimed,
           Claim, Owns, RowInv, TypeOK
      <3> QED BY <1>1, <2>1, <3>1, <3>2, <3>3, RowCases
    <2>4. token'[l[1]] # "none" /\ token'[l[1]] \in {"none", "worker", "reaper"}
      BY <2>1, <2>2 DEF RowInv, RowConsistent, TypeOK
    <2> QED BY <2>2, <2>3, <2>4 DEF Owns
  <1>2. ExclusionInv /\ [Next]_vars =>
          [\A l \in Leases : Owns(l) /\ fresh[l[1]] /\ proc[l] \in Registered
                               /\ proc'[l] \in Registered => Owns(l)']_vars
    BY <1>1
  <1> QED BY <1>2, ExclusionInvariant, PTL DEF Spec, FreshOrphanKeepsClaim

-----------------------------------------------------------------------------
(* Refinement.                                                             *)

SlotStep == Slot!SlotNext \/ UNCHANGED Slot!slotVars

\* Nobody is at work.
Vacant == AtWork = {}

LEMMA CompletedApart == "completed" \in Quiescent /\ "completed" \notin Resumable
  BY DEF Quiescent, Terminal, Resumable

\* At most one worker is at work, in the run that has the slot.
LEMMA OneWorker ==
    ASSUME ExclusionInv, NEW l \in AtWork
    PROVE  AtWork = {l}
  BY LeaseParts, SameLease, AtWorkLease DEF ExclusionInv, ProcInv, RowInv, WorkerCurrent, SingleSlot

\* Steps that change neither the status of a run nor who is at work.
LEMMA SlotSame ==
    ASSUME UNCHANGED <<status, attempt>>, AtWork' = AtWork
    PROVE  UNCHANGED Slot!slotVars
  BY DEF Slot!slotVars

\* Steps that at most end the work.
LEMMA SlotEnd ==
    ASSUME ExclusionInv, UNCHANGED <<status, attempt>>, NoneNew
    PROVE  SlotStep
  <1>1. AtWork' \subseteq AtWork
    BY DEF NoneNew, AtWork
  <1>2. CASE AtWork' = AtWork
    BY <1>2, SlotSame DEF SlotStep
  <1>3. CASE AtWork' # AtWork
    <2>1. PICK l \in AtWork : l \notin AtWork'
      BY <1>1, <1>3
    <2>2. AtWork' = {} /\ AtWork # {}
      BY <1>1, <2>1, OneWorker
    <2>3. Slot!End
      BY <2>2 DEF Slot!End
    <2> QED BY <2>3 DEF SlotStep, Slot!SlotNext
  <1> QED BY <1>2, <1>3

LEMMA UserSlot == ASSUME ExclusionInv, UserNext PROVE SlotStep
  <1> USE StatusSets, CompletedApart DEF ExclusionInv, RowInv, TypeOK
  <1> PICK r \in Runs : (\E j \in Jobs : Submit(r, j)) \/ RequestCancel(r) \/ RequestResume(r)
    BY DEF UserNext
  <1>1. UNCHANGED <<attempt, proc>> /\ AtWork' = AtWork
    BY UserMoves, SameAtWork DEF reaper
  <1>2. ASSUME status[r] \in {"absent"} \cup Resumable, NEW x \in Pending,
               status' = [status EXCEPT ![r] = x]
        PROVE  Slot!Ask(r)
    <2>1. status[r] \notin Active \cup Pending /\ status[r] # "completed"
      BY <1>2
    <2>2. /\ status'[r] \in Pending /\ status'[r] \notin Active /\ status'[r] # "completed"
          /\ \A q \in Runs \ {r} : status'[q] = status[q]
      BY <1>2
    <2> QED BY <1>1, <2>1, <2>2 DEF Slot!Ask
  <1>3. CASE \E j \in Jobs : Submit(r, j)
    <2>1. "queued" \in Pending
      BY DEF Pending
    <2> QED BY <1>2, <1>3, <2>1 DEF Submit, SlotStep, Slot!SlotNext
  <1>4. CASE RequestResume(r)
    <2>1. "resuming" \in Pending
      BY DEF Pending
    <2> QED BY <1>2, <1>4, <2>1 DEF RequestResume, SlotStep, Slot!SlotNext
  <1>5. CASE RequestCancel(r) /\ status[r] \in Pending
    <2>1. status' = [status EXCEPT ![r] = "cancelled"]
      BY <1>5 DEF RequestCancel
    <2>2. /\ status[r] \notin Active /\ status[r] # "completed" /\ "cancelled" \in Quiescent
      BY <1>5 DEF Quiescent, Terminal
    <2>3. /\ status'[r] \notin Pending /\ status'[r] \notin Active /\ status'[r] # "completed"
          /\ \A q \in Runs \ {r} : status'[q] = status[q]
      BY <2>1, <2>2
    <2>4. Slot!Withdraw(r)
      BY <1>1, <1>5, <2>2, <2>3 DEF Slot!Withdraw
    <2> QED BY <2>4 DEF SlotStep, Slot!SlotNext
  <1>6. CASE RequestCancel(r) /\ status[r] \notin Pending
    <2>1. status[r] \in Active /\ status' = [status EXCEPT ![r] = "cancel_requested"]
      BY <1>6 DEF RequestCancel
    <2>2. "cancel_requested" \in Active
      BY DEF Active
    <2>3. \A q \in Runs : /\ status'[q] \in Active <=> status[q] \in Active
                          /\ status'[q] \in Pending <=> status[q] \in Pending
                          /\ status'[q] = "completed" <=> status[q] = "completed"
      BY <2>1, <2>2
    <2>4. UNCHANGED Slot!slotVars
      BY <1>1, <2>3 DEF Slot!slotVars
    <2> QED BY <2>4 DEF SlotStep
  <1> QED BY <1>3, <1>4, <1>5, <1>6

LEMMA ClaimSlot ==
    ASSUME ExclusionInv, NEW s \in Services, NEW r \in Runs, Claim(s, r)
    PROVE  Slot!Grant(r)
  <1> USE StatusSets, CompletedApart DEF ExclusionInv, RowInv, TypeOK
  <1>1. /\ status[r] \in Pending /\ \A q \in Runs : status[q] \notin Active
        /\ status' = [status EXCEPT ![r] = "running"]
        /\ attempt' = [attempt EXCEPT ![r] = @ + 1] /\ AtWork' = AtWork
    BY SameAtWork DEF Claim, OldestPending, SlotFree, reaper
  <1>2. Vacant
    BY <1>1, LeaseParts, AtWorkLease DEF Vacant, ProcInv, WorkerCurrent
  <1>3. "running" \in Active
    BY DEF Active
  <1>4. /\ status'[r] \in Active /\ status'[r] \notin Pending /\ status'[r] # "completed"
        /\ status[r] # "completed" /\ \A q \in Runs \ {r} : status'[q] = status[q]
    BY <1>1, <1>3
  <1> QED BY <1>1, <1>2, <1>4 DEF Slot!Grant, Vacant

\* The slot after a run that had it is finalized.
LEMMA FinalizedSlot ==
    ASSUME ExclusionInv, NEW r \in Runs, NEW o \in Quiescent, status[r] \in Active,
           Finalize(r, o)
    PROVE  /\ UNCHANGED attempt
           /\ {q \in Runs : status'[q] \in Active} = {}
           /\ {q \in Runs : status'[q] \in Pending} = {q \in Runs : status[q] \in Pending}
           /\ {q \in Runs : status'[q] = "completed"} =
                IF o = "completed" THEN {q \in Runs : status[q] = "completed"} \cup {r}
                                   ELSE {q \in Runs : status[q] = "completed"}
  <1>1. /\ status'[r] = o /\ \A q \in Runs \ {r} : status'[q] = status[q]
        /\ UNCHANGED attempt
    BY DEF Finalize, ExclusionInv, RowInv, TypeOK
  <1>2. o \notin Active /\ o \notin Pending /\ status[r] \notin Pending /\ status[r] # "completed"
    BY StatusSets, CompletedApart
  <1>3. \A q \in Runs \ {r} : status[q] \notin Active
    BY DEF ExclusionInv, RowInv, SingleSlot
  <1> QED BY <1>1, <1>2, <1>3

LEMMA GiveBackSlot ==
    ASSUME ExclusionInv, NEW m \in Leases, NEW o \in Quiescent, o # "completed",
           status[m[1]] \in Active, attempt[m[1]] = m[2], m \notin AtWork,
           Finalize(m[1], o), AtWork' = AtWork
    PROVE  Slot!GiveBack(m[1])
  <1>1. Vacant
    <2> SUFFICES ASSUME NEW l \in AtWork PROVE FALSE
      BY DEF Vacant
    <2>1. l[1] = m[1] /\ l[2] = m[2]
      BY LeaseParts, AtWorkLease DEF ExclusionInv, ProcInv, RowInv, WorkerCurrent, SingleSlot
    <2> QED BY <2>1, SameLease, AtWorkLease
  <1> QED BY <1>1, FinalizedSlot, LeaseParts DEF Vacant, Slot!GiveBack

LEMMA ServiceSlot ==
    ASSUME ExclusionInv, NEW s \in Services, ServiceStep(s)
    PROVE  SlotStep
  <1> USE DEF ExclusionInv, Dispatcher
  <1>1. ASSUME NEW r \in Runs, Claim(s, r) PROVE SlotStep
    BY <1>1, ClaimSlot DEF SlotStep, Slot!SlotNext
  <1>2. CASE Launch(s)
    <2>1. /\ lease[s] \in Leases /\ proc[lease[s]] = "absent"
      BY <1>2 DEF Launch, Following, DispatcherStates, RowInv, LeaseKnown, ProcInv, LeaseOrder
    <2>2. /\ proc' = [proc EXCEPT ![lease[s]] = "launched"]
          /\ UNCHANGED <<status, attempt, mistaken>>
      BY <1>2 DEF Launch, row, reaper
    <2>3. AtWork' = AtWork
      BY <2>1, <2>2, ProcSets DEF RowInv, TypeOK, AtWork
    <2> QED BY <2>2, <2>3, SlotSame DEF SlotStep
  <1>3. CASE LaunchFails(s) \/ AnnounceWorker(s) \/ SeeExit(s) \/ AnnounceLaunchFailure(s)
             \/ ReadOutcome(s)
    <2>1. UNCHANGED <<status, attempt, proc, mistaken>>
      BY <1>3 DEF LaunchFails, AnnounceWorker, SeeExit, AnnounceLaunchFailure, ReadOutcome, row,
         reaper
    <2> QED BY <2>1, SlotSame, SameAtWork DEF SlotStep
  <1>4. CASE RecordPid(s)
    <2>1. UNCHANGED <<status, attempt, proc, mistaken>>
      BY <1>4 DEF RecordPid, Heartbeat, row, reaper
    <2> QED BY <2>1, SlotSame, SameAtWork DEF SlotStep
  <1>5. CASE CloseForWorker(s)
    <2>0. AtWork' = AtWork
      BY <1>5, SameAtWork DEF CloseForWorker, reaper
    <2>1. CASE UNCHANGED row
      BY <2>0, <2>1, SlotSame DEF row, SlotStep
    <2>2. ASSUME NEW o \in {"interrupted", "failed"}, Owns(lease[s]), Finalize(lease[s][1], o)
          PROVE  SlotStep
      <3>1. /\ o \in Quiescent /\ o # "completed" /\ lease[s] \in Leases
            /\ lease[s] \notin AtWork
        BY <1>5, ProcSets, AtWorkLease DEF Quiescent, Terminal, CloseForWorker, Following, DispatcherStates,
           RowInv, LeaseKnown, ProcInv, WorkerGone
      <3>2. PICK m \in Leases : m = lease[s]
        BY <3>1
      <3>3. Finalize(m[1], o)
        BY <2>2, <3>2 DEF Finalize
      <3>4. Slot!GiveBack(m[1])
        BY <2>0, <2>2, <3>1, <3>2, <3>3, GiveBackSlot DEF Owns
      <3> QED BY <3>4, LeaseParts DEF SlotStep, Slot!SlotNext
    <2> QED BY <1>5, <2>1, <2>2 DEF CloseForWorker
  <1> QED BY <1>1, <1>2, <1>3, <1>4, <1>5 DEF ServiceStep

LEMMA ReaperSlot ==
    ASSUME ExclusionInv, NEW s \in Services, ReaperStep(s)
    PROVE  SlotStep
  <1>1. CASE FindGone(s) \/ GiveUp(s) \/ \E r \in Runs : Fence(s, r)
    <2>1. UNCHANGED <<status, attempt, proc, mistaken>>
      BY <1>1 DEF FindGone, GiveUp, EndReap, Fence, row
    <2> QED BY <2>1, SlotSame, SameAtWork DEF SlotStep
  <1>2. CASE Terminate(s)
    <2>1. /\ UNCHANGED <<status, attempt, mistaken>>
          /\ proc' = [proc EXCEPT ![Suspect(s)] = "exited"]
      BY <1>2 DEF Terminate, row
    <2>2. NoneNew
      BY <2>1, ProcSets DEF NoneNew, AtWork, ExclusionInv, RowInv, TypeOK
    <2> QED BY <2>1, <2>2, SlotEnd
  <1>4. CASE TakeForGone(s)
    <2>1. UNCHANGED <<status, attempt, proc>> /\ mistaken \subseteq mistaken'
      BY <1>4 DEF TakeForGone, row
    <2>2. NoneNew
      BY <2>1, NoneNewByProc
    <2> QED BY <2>1, <2>2, SlotEnd
  <1>3. CASE Release(s)
    <2>0. AtWork' = AtWork
      BY <1>3, SameAtWork DEF Release, EndReap
    <2>1. CASE UNCHANGED row
      BY <2>0, <2>1, SlotSame DEF row, SlotStep
    <2>2. CASE Fences(reap[s]) /\ Finalize(reap[s][1], "interrupted")
      <3>1. /\ "interrupted" \in Quiescent /\ reap[s] \in Leases
            /\ reap[s] \notin AtWork
        BY <1>3 DEF Quiescent, Release, ExclusionInv, RowInv, TypeOK, ProcInv, ReaperKnows
      <3>2. PICK m \in Leases : m = reap[s]
        BY <3>1
      <3>3. Finalize(m[1], "interrupted")
        BY <2>2, <3>2 DEF Finalize
      <3>4. Slot!GiveBack(m[1])
        BY <2>0, <2>2, <3>1, <3>2, <3>3, GiveBackSlot DEF Fences
      <3> QED BY <3>4, LeaseParts DEF SlotStep, Slot!SlotNext
    <2> QED BY <1>3, <2>1, <2>2 DEF Release
  <1> QED BY <1>1, <1>2, <1>3, <1>4 DEF ReaperStep

LEMMA WorkerSlot ==
    ASSUME ExclusionInv, NEW l \in Leases, WorkerStep(l)
    PROVE  SlotStep
  <1> USE DEF ExclusionInv
  <1>1. l[1] \in Runs /\ l = <<l[1], l[2]>>
    BY LeaseParts DEF Leases
  <1>0. UNCHANGED mistaken /\ (Owns(l) => l \notin mistaken)
    BY WorkerMoves DEF reaper, ProcInv, MistakenLost, Lost, Owns
  <1>2. CASE Register(l) /\ Owns(l) /\ proc' = [proc EXCEPT ![l] = "registered"]
    <2>1. /\ status[l[1]] \in Active /\ attempt[l[1]] = l[2] /\ proc[l] \notin Registered
          /\ UNCHANGED <<status, attempt>>
      BY <1>2 DEF Register, Owns, Heartbeat, Worker, Registered, Closing
    <2>2. Vacant
      <3> SUFFICES ASSUME NEW k \in AtWork PROVE FALSE
        BY DEF Vacant
      <3>1. k[1] = l[1] /\ k[2] = l[2]
        BY <2>1, LeaseParts, AtWorkLease DEF ProcInv, RowInv, WorkerCurrent, SingleSlot
      <3> QED BY <2>1, <3>1, SameLease, AtWorkLease
    <2>3. AtWork' = {l}
      BY <1>0, <1>2, <2>2 DEF Vacant, RowInv, TypeOK, Registered, AtWork
    <2>4. AtWork' = {<<l[1], attempt[l[1]]>>}
      BY <1>1, <2>1, <2>3
    <2>5. Slot!Begin(l[1])
      BY <1>1, <2>1, <2>2, <2>4 DEF Slot!Begin, Vacant
    <2> QED BY <1>1, <2>5 DEF SlotStep, Slot!SlotNext
  <1>3. CASE Commit(l) /\ Owns(l)
    <2>1. /\ Outcome(proc[l]) \in Quiescent /\ Finalize(l[1], Outcome(proc[l]))
          /\ proc[l] \in Registered /\ proc' = [proc EXCEPT ![l] = "exited"]
      BY <1>3 DEF Commit, Exit, Step, Outcome, Quiescent, Terminal, Registered, Owns
    <2>2. /\ status[l[1]] \in Active /\ attempt[l[1]] = l[2]
      BY <1>3 DEF Owns
    <2>0. AtWork = {l}
      BY <1>0, <1>3, <2>1, OneWorker DEF AtWork
    <2>3. AtWork' = {}
      BY <1>0, <2>0, <2>1, ProcSets DEF RowInv, TypeOK, AtWork
    <2>4. AtWork = {<<l[1], attempt[l[1]]>>}
      BY <1>1, <2>0, <2>2
    <2>5. Slot!Deliver(l[1])
      BY <1>1, <2>1, <2>2, <2>3, <2>4, FinalizedSlot DEF Slot!Deliver
    <2> QED BY <1>1, <2>5 DEF SlotStep, Slot!SlotNext
  <1>4. CASE /\ ~(Commit(l) /\ Owns(l))
             /\ ~(Register(l) /\ Owns(l) /\ proc' = [proc EXCEPT ![l] = "registered"])
    <2>1. UNCHANGED <<status, attempt>>
      <3>1. CASE Commit(l)
        BY <1>4, <3>1 DEF Commit, row
      <3>2. CASE Register(l) \/ Beat(l) \/ ReportCheckpoint(l) \/ RecordProvenance(l)
        BY <3>2 DEF Register, Beat, ReportCheckpoint, RecordProvenance, Heartbeat, row
      <3>3. CASE VerifyClaim(l) \/ AnnounceStart(l) \/ CancelCheck(l) \/ LastCheck(l)
        BY <3>3 DEF VerifyClaim, AnnounceStart, CancelCheck, LastCheck, row
      <3>4. CASE UpsertEvaluation(l) \/ FinishTraining(l) \/ JobRaises(l) \/ Die(l)
        BY <3>4 DEF UpsertEvaluation, FinishTraining, JobRaises, Die, row
      <3> QED BY <3>1, <3>2, <3>3, <3>4 DEF WorkerStep
    <2>2. NoneNew
      BY <1>4, WorkerNoneNew DEF RowInv
    <2> QED BY <2>1, <2>2, SlotEnd
  <1> QED BY <1>2, <1>3, <1>4

LEMMA SlotSteps == ExclusionInv /\ [Next]_vars => [Slot!SlotNext]_Slot!slotVars
  <1> SUFFICES ASSUME ExclusionInv, [Next]_vars PROVE SlotStep
    BY DEF SlotStep
  <1>1. ASSUME NEW r \in Runs, LeaseExpires(r) PROVE SlotStep
    BY <1>1, SlotSame, SameAtWork DEF LeaseExpires, SlotStep, reaper
  <1>2. ASSUME NEW s \in Services, StopService(s) \/ StartService(s) PROVE SlotStep
    BY <1>2, SlotSame, SameAtWork, OtherMoves DEF row, SlotStep, ExclusionInv
  <1>3. CASE UNCHANGED vars
    BY <1>3, SlotSame, SameAtWork DEF vars, row, reaper, SlotStep
  <1> QED BY <1>1, <1>2, <1>3, UserSlot, ServiceSlot, ReaperSlot, WorkerSlot DEF Next

LEMMA SlotStart == Init => Slot!SlotInit
  <1> SUFFICES ASSUME Init PROVE Slot!SlotInit
    OBVIOUS
  <1>1. \A r \in Runs : status[r] = "absent" /\ attempt = [q \in Runs |-> 0]
    BY DEF Init
  <1>2. AtWork = {}
    BY ProcSets DEF Init, AtWork
  <1> QED BY <1>1, <1>2, StatusSets DEF Slot!SlotInit, Init

\* The queue keeps the promise of the slot: with a reliable event mirror,
\* whatever users, services, reapers, workers, the clock and failing calls
\* about processes do, jobs get the slot one at a time, ticket by ticket, it
\* is never granted or given back while a worker is at work that nobody took
\* for gone, and a finished job never asks for it again.
THEOREM SlotImplemented == LogReliable /\ Spec => ImplementsSlot
  BY ExclusionInvariant, SlotSteps, SlotStart, PTL DEF Spec, ImplementsSlot, Slot!SlotSpec

-----------------------------------------------------------------------------
(* A completed run has its product, and every training attempt after the   *)
(* first is linked to the one it continues, with and without a reliable    *)
(* event mirror.  The invariant says what a worker has left in the tables  *)
(* at each point of its job.                                               *)

\* A worker past its last check, or on its way there, has stored its row, and
\* nothing but an evaluation has such a row to store.
RowStored ==
    \A l \in Leases :
      /\ proc[l] = "evaluated" => l \in evaluations
      /\ proc[l] = "completing" /\ job[l[1]] # Training => l \in evaluations

\* A run is queued once, and resumed for training only from a checkpoint.
NewIsQueued == \A r \in Runs : status[r] = "queued" => attempt[r] = 0
ResumedFromCheckpoint ==
    \A r \in Runs : job[r] = Training /\ (status[r] = "resuming" \/ attempt[r] > 1)
                      => checkpoint[r]

\* The points of a worker before it has registered.
Starting == {"absent", "launched", "verified", "linked"}

\* The first checkpoint is reported by a worker that has long started.
CheckpointAfterStart ==
    \A r \in Runs : checkpoint[r] =>
      /\ attempt[r] # 0
      /\ attempt[r] = 1 => proc[<<r, 1>>] \notin Starting

\* A worker that is about to register as a continuation is on record as one.
LinkRecorded == \A l \in Leases : proc[l] = "linked" => l[2] \in lineage[l[1]]

ProductPart ==
    /\ CompletionHasProduct /\ RowStored
    /\ ResumeLineage /\ LinkRecorded
    /\ NewIsQueued /\ ResumedFromCheckpoint /\ CheckpointAfterStart

ProductInv == RowInv /\ LeaseOrder /\ ProductPart

-----------------------------------------------------------------------------
(* Steps that leave products and links alone: most of them.                 *)

\* Runs end without a product or are asked to stop, and workers start, are
\* started, give up or end.
MildRow == \A r \in Runs : status'[r] # status[r] =>
              status'[r] \notin {"queued", "resuming", "completed"} /\ status[r] # "completed"
MildMove(l) ==
    /\ proc'[l] \notin {"evaluated", "completing", "linked"}
    /\ proc'[l] \in Starting => proc[l] \in Starting
    /\ proc'[l] \in Registered => proc[l] \in Registered
MildProc == \A l \in Leases : proc'[l] # proc[l] => MildMove(l)
SameRecords == UNCHANGED <<job, attempt, checkpoint, lineage, policies, evaluations>>
Mild == SameRecords /\ MildRow /\ MildProc

LEMMA StartingSets ==
    /\ Starting \cap Registered = {} /\ Starting \cap Closing = {}
    /\ "exited" \notin Starting \cup Registered
    /\ {"registered", "executing", "evaluated", "completing", "failing", "cancelling"} = Registered
    /\ Closing = {"completing", "failing", "cancelling"}
    /\ Starting = {"absent", "launched", "verified", "linked"}
    /\ Alive = {"launched", "verified", "linked"} \cup Registered
  BY DEF Starting, Registered, Closing, Alive

LEMMA FirstLease == \A r \in Runs : <<r, 1>> \in Leases
  BY QueueAssumption DEF Leases, Attempts

LEMMA MildStep ==
    ASSUME ProductInv, Mild
    PROVE  ProductPart'
  <1> USE DEF ProductInv, ProductPart, Mild, SameRecords, MildRow, MildProc, MildMove
  <1>1. CompletionHasProduct'
    BY DEF CompletionHasProduct
  <1>2. RowStored'
    BY DEF RowStored
  <1>3. ResumeLineage'
    <2>1. ASSUME NEW r \in Runs PROVE lineage'[r] \subseteq 2..attempt'[r]
      BY DEF ResumeLineage
    <2>2. ASSUME NEW r \in Runs, NEW a \in Attempts, a > 1, job'[r] = Training,
                 proc'[<<r, a>>] \in Registered
          PROVE  a \in lineage'[r]
      <3>1. <<r, a>> \in Leases
        BY DEF Leases
      <3> QED BY <2>2, <3>1 DEF ResumeLineage
    <2> QED BY <2>1, <2>2 DEF ResumeLineage
  <1>4. LinkRecorded'
    BY DEF LinkRecorded
  <1>5. NewIsQueued' /\ ResumedFromCheckpoint'
    BY DEF NewIsQueued, ResumedFromCheckpoint
  <1>6. CheckpointAfterStart'
    BY FirstLease DEF CheckpointAfterStart
  <1> QED BY <1>1, <1>2, <1>3, <1>4, <1>5, <1>6

\* One process moves mildly, or none.
LEMMA OneMildMove ==
    ASSUME TypeOK, NEW l \in Leases, NEW x, proc' = [proc EXCEPT ![l] = x],
           x \notin {"evaluated", "completing", "linked"},
           x \in Starting => proc[l] \in Starting,
           x \in Registered => proc[l] \in Registered
    PROVE  MildProc
  BY DEF TypeOK, MildProc, MildMove

LEMMA SameProcMild == UNCHANGED proc => MildProc
  BY DEF MildProc

LEMMA SameStatusMild == UNCHANGED status => MildRow
  BY DEF MildRow

LEMMA FinalizeMild ==
    ASSUME TypeOK, NEW r \in Runs, status[r] \in Active,
           NEW o \in {"interrupted", "failed", "cancelled"}, Finalize(r, o)
    PROVE  MildRow /\ UNCHANGED <<job, attempt, checkpoint, lineage>>
  BY DEF TypeOK, MildRow, Finalize, Active

LEMMA ServiceMild ==
    ASSUME RowInv, LeaseOrder, NEW s \in Services, ServiceStep(s)
    PROVE  Mild \/ \E r \in Runs : Claim(s, r)
  <1> USE DEF RowInv, Mild, SameRecords
  <1>1. CASE Launch(s)
    <2>1. dpc[s] \in Following
      BY <1>1 DEF Launch, Dispatcher, Following, DispatcherStates
    <2>2. lease[s] \in Leases /\ proc[lease[s]] = "absent"
      BY <1>1, <2>1 DEF Launch, Dispatcher, LeaseKnown, LeaseOrder
    <2>3. proc' = [proc EXCEPT ![lease[s]] = "launched"] /\ UNCHANGED <<row, tables>>
      BY <1>1 DEF Launch
    <2>4. MildProc
      BY <2>2, <2>3, StartingSets DEF MildProc, MildMove, TypeOK
    <2> QED BY <2>3, <2>4, SameStatusMild DEF row, tables
  <1>2. CASE LaunchFails(s) \/ AnnounceWorker(s) \/ SeeExit(s) \/ AnnounceLaunchFailure(s)
                \/ ReadOutcome(s)
    BY <1>2, SameProcMild, SameStatusMild
       DEF LaunchFails, AnnounceWorker, SeeExit, AnnounceLaunchFailure, ReadOutcome, row, tables
  <1>3. CASE RecordPid(s)
    BY <1>3, SameProcMild, SameStatusMild DEF RecordPid, Heartbeat, row, tables
  <1>4. CASE CloseForWorker(s)
    <2>1. UNCHANGED <<tables, proc>>
      BY <1>4 DEF CloseForWorker
    <2>2. lease[s] \in Leases
      BY <1>4 DEF CloseForWorker, Dispatcher, LeaseKnown, Following, DispatcherStates
    <2>3. CASE UNCHANGED row
      BY <2>1, <2>3, SameProcMild, SameStatusMild DEF row, tables
    <2>4. CASE Owns(lease[s]) /\ \E o \in {"interrupted", "failed"} : Finalize(lease[s][1], o)
      BY <2>1, <2>2, <2>4, LeaseParts, FinalizeMild, SameProcMild DEF Owns, tables
    <2> QED BY <1>4, <2>3, <2>4 DEF CloseForWorker
  <1> QED BY <1>1, <1>2, <1>3, <1>4 DEF ServiceStep

LEMMA ReaperMild ==
    ASSUME RowInv, NEW s \in Services, ReaperStep(s)
    PROVE  Mild
  <1> USE DEF RowInv, Mild, SameRecords
  <1>1. CASE (\E r \in Runs : Fence(s, r)) \/ FindGone(s) \/ TakeForGone(s) \/ GiveUp(s)
    BY <1>1, SameProcMild, SameStatusMild DEF Fence, FindGone, TakeForGone, GiveUp, row, tables
  <1>2. CASE Terminate(s)
    <2>1. MildProc
      BY <1>2, StartingSets DEF Terminate, MildProc, MildMove, TypeOK
    <2> QED BY <1>2, <2>1, SameStatusMild DEF Terminate, row, tables
  <1>3. CASE Release(s)
    <2>1. reap[s] \in Leases /\ UNCHANGED <<tables, proc>>
      BY <1>3 DEF Release, TypeOK
    <2>2. CASE UNCHANGED row
      BY <2>1, <2>2, SameProcMild, SameStatusMild DEF row, tables
    <2>3. CASE Fences(reap[s]) /\ Finalize(reap[s][1], "interrupted")
      BY <2>1, <2>3, LeaseParts, FinalizeMild, SameProcMild DEF Fences, tables
    <2> QED BY <1>3, <2>2, <2>3 DEF Release
  <1> QED BY <1>1, <1>2, <1>3 DEF ReaperStep

-----------------------------------------------------------------------------
(* The users.                                                               *)

\* A run without an attempt has no worker.
LEMMA NoAttemptNoWorker ==
    ASSUME RowInv, LeaseOrder, NEW r \in Runs, attempt[r] = 0, NEW a \in Attempts
    PROVE  <<r, a>> \in Leases /\ proc[<<r, a>>] = "absent"
  BY DEF LeaseOrder, Leases, Attempts

LEMMA SubmitProducts ==
    ASSUME ProductInv, NEW r \in Runs, NEW j \in Jobs, Submit(r, j)
    PROVE  ProductPart'
  <1> USE DEF ProductInv, ProductPart, RowInv, TypeOK
  <1>1. /\ status[r] = "absent" /\ attempt[r] = 0
        /\ status' = [status EXCEPT ![r] = "queued"] /\ job' = [job EXCEPT ![r] = j]
        /\ UNCHANGED <<attempt, checkpoint, lineage, policies, evaluations, proc>>
    BY DEF Submit, Blank, tables
  <1>2. \A l \in Leases : l[1] = r => proc[l] = "absent"
    BY <1>1, LeaseParts DEF LeaseOrder, Attempts
  <1>3. CompletionHasProduct'
    BY <1>1 DEF CompletionHasProduct
  <1>4. RowStored'
    BY <1>1, <1>2, LeaseParts DEF RowStored
  <1>5. ResumeLineage'
    <2>1. ASSUME NEW q \in Runs PROVE lineage'[q] \subseteq 2..attempt'[q]
      BY <1>1 DEF ResumeLineage
    <2>2. ASSUME NEW q \in Runs, NEW a \in Attempts, a > 1, job'[q] = Training,
                 proc'[<<q, a>>] \in Registered
          PROVE  a \in lineage'[q]
      <3>1. q # r
        BY <1>1, <2>2, NoAttemptNoWorker, StartingSets
      <3> QED BY <1>1, <2>2, <3>1 DEF ResumeLineage
    <2> QED BY <2>1, <2>2 DEF ResumeLineage
  <1>6. LinkRecorded'
    BY <1>1 DEF LinkRecorded
  <1>7. NewIsQueued' /\ ResumedFromCheckpoint'
    BY <1>1 DEF NewIsQueued, ResumedFromCheckpoint
  <1>8. CheckpointAfterStart'
    BY <1>1 DEF CheckpointAfterStart
  <1> QED BY <1>3, <1>4, <1>5, <1>6, <1>7, <1>8

LEMMA ResumeProducts ==
    ASSUME ProductInv, NEW r \in Runs, RequestResume(r)
    PROVE  ProductPart'
  <1> USE DEF ProductInv, ProductPart, RowInv, TypeOK
  <1>1. /\ status[r] # "completed"
        /\ job[r] = Training => checkpoint[r]
        /\ status' = [status EXCEPT ![r] = "resuming"]
        /\ UNCHANGED <<job, attempt, checkpoint, lineage, policies, evaluations, proc>>
    BY QueueAssumption DEF RequestResume, Resumable, tables
  <1>2. CompletionHasProduct'
    BY <1>1 DEF CompletionHasProduct
  <1>3. RowStored' /\ ResumeLineage' /\ LinkRecorded' /\ CheckpointAfterStart'
    BY <1>1 DEF RowStored, ResumeLineage, LinkRecorded, CheckpointAfterStart
  <1>4. NewIsQueued' /\ ResumedFromCheckpoint'
    BY <1>1 DEF NewIsQueued, ResumedFromCheckpoint
  <1> QED BY <1>2, <1>3, <1>4

LEMMA UserProducts ==
    ASSUME ProductInv, UserNext
    PROVE  ProductPart'
  <1>1. ASSUME NEW r \in Runs, RequestCancel(r) PROVE Mild
    <2>1. MildRow
      BY <1>1 DEF RequestCancel, MildRow, ProductInv, RowInv, TypeOK, Quiescent, Terminal, Pending
    <2> QED BY <1>1, <2>1, SameProcMild DEF RequestCancel, Mild, SameRecords, tables
  <1> QED BY <1>1, MildStep, SubmitProducts, ResumeProducts DEF UserNext

-----------------------------------------------------------------------------
(* A claim.                                                                 *)

LEMMA ClaimProducts ==
    ASSUME ProductInv, NEW s \in Services, NEW r \in Runs, Claim(s, r)
    PROVE  ProductPart'
  <1> USE DEF ProductInv, ProductPart, RowInv, TypeOK
  <1>1. /\ status[r] \in {"queued", "resuming"} /\ attempt[r] \in Nat /\ attempt[r] < MaxAttempts
        /\ status' = [status EXCEPT ![r] = "running"]
        /\ attempt' = [attempt EXCEPT ![r] = @ + 1]
        /\ UNCHANGED <<job, checkpoint, lineage, policies, evaluations, proc>>
    BY DEF Claim, OldestPending, Pending, RowConsistent, tables
  <1>2. CompletionHasProduct'
    <2>1. ASSUME NEW q \in Runs, status'[q] = "completed"
          PROVE  IF job'[q] = Training THEN <<q, attempt'[q]>> \in policies'
                                       ELSE <<q, attempt'[q]>> \in evaluations'
      BY <1>1, <2>1 DEF CompletionHasProduct
    <2>2. ASSUME NEW q \in Runs, NEW a \in Attempts, <<q, a>> \in policies'
          PROVE  status'[q] = "completed" /\ a = attempt'[q]
      BY <1>1, <2>2 DEF CompletionHasProduct
    <2> QED BY <2>1, <2>2 DEF CompletionHasProduct
  <1>3. RowStored' /\ LinkRecorded'
    BY <1>1 DEF RowStored, LinkRecorded
  <1>4. ResumeLineage'
    <2>1. ASSUME NEW q \in Runs PROVE lineage'[q] \subseteq 2..attempt'[q]
      BY <1>1 DEF ResumeLineage
    <2> QED BY <1>1, <2>1 DEF ResumeLineage
  <1>5. NewIsQueued'
    BY <1>1 DEF NewIsQueued
  <1>6. ResumedFromCheckpoint'
    <2>1. job[r] = Training /\ attempt[r] + 1 > 1 => checkpoint[r]
      BY <1>1 DEF ResumedFromCheckpoint, NewIsQueued
    <2> QED BY <1>1, <2>1 DEF ResumedFromCheckpoint
  <1>7. CheckpointAfterStart'
    BY <1>1 DEF CheckpointAfterStart
  <1> QED BY <1>2, <1>3, <1>4, <1>5, <1>6, <1>7

-----------------------------------------------------------------------------
(* The workers.                                                             *)

LEMMA WorkerMild ==
    ASSUME ProductInv, NEW l \in Leases,
           \/ VerifyClaim(l) \/ AnnounceStart(l) \/ Beat(l) \/ CancelCheck(l)
           \/ JobRaises(l) \/ Die(l)
    PROVE  Mild
  <1> USE DEF ProductInv, RowInv, Step, Exit, Worker
  <1>1. CASE Beat(l)
    BY <1>1, SameProcMild, SameStatusMild DEF Beat, Heartbeat, Mild, SameRecords, tables
  <1>2. CASE VerifyClaim(l) \/ AnnounceStart(l) \/ CancelCheck(l) \/ JobRaises(l) \/ Die(l)
    <2>1. UNCHANGED <<row, tables>>
      BY <1>2 DEF VerifyClaim, AnnounceStart, CancelCheck, JobRaises, Die
    <2>2. MildProc
      BY <1>2, StartingSets DEF VerifyClaim, AnnounceStart, CancelCheck, JobRaises, Die,
         MildProc, MildMove, TypeOK
    <2> QED BY <2>1, <2>2, SameStatusMild DEF Mild, SameRecords, row, tables
  <1> QED BY <1>1, <1>2

\* A training attempt that continues from a checkpoint goes on record.
LEMMA ProvenanceProducts ==
    ASSUME ProductInv, NEW l \in Leases, RecordProvenance(l)
    PROVE  ProductPart'
  <1> USE DEF ProductInv, RowInv, TypeOK, RecordProvenance, Step, Exit, Worker
  <1>1. CASE ~Owns(l)
    <2>1. UNCHANGED <<status, job, attempt, checkpoint, lineage, tables>>
      BY <1>1
    <2>2. MildProc
      BY <1>1, StartingSets DEF MildProc, MildMove
    <2> QED BY <2>1, <2>2, SameStatusMild, MildStep DEF Mild, SameRecords, tables
  <1>2. CASE Owns(l)
    <2>1. /\ l[1] \in Runs /\ l[2] \in Attempts /\ l = <<l[1], l[2]>>
          /\ attempt[l[1]] = l[2] /\ proc[l] = "verified"
          /\ job[l[1]] = Training /\ checkpoint[l[1]]
          /\ lineage' = [lineage EXCEPT ![l[1]] = @ \cup {l[2]}]
          /\ proc' = [proc EXCEPT ![l] = "linked"]
          /\ UNCHANGED <<status, job, attempt, checkpoint, policies, evaluations>>
      BY <1>2 DEF Owns, Continues, tables, Leases
    <2>2. l[2] \in 2..attempt[l[1]]
      <3>1. l[2] # 1
        BY <2>1, StartingSets DEF ProductPart, CheckpointAfterStart
      <3> QED BY <2>1, <3>1 DEF Attempts
    <2>3. CompletionHasProduct' /\ NewIsQueued' /\ ResumedFromCheckpoint'
      BY <2>1 DEF ProductPart, CompletionHasProduct, NewIsQueued, ResumedFromCheckpoint
    <2>4. RowStored'
      BY <2>1 DEF ProductPart, RowStored
    <2>5. ResumeLineage'
      <3>1. ASSUME NEW r \in Runs PROVE lineage'[r] \subseteq 2..attempt'[r]
        BY <2>1, <2>2 DEF ProductPart, ResumeLineage
      <3>2. ASSUME NEW r \in Runs, NEW a \in Attempts, a > 1, job'[r] = Training,
                   proc'[<<r, a>>] \in Registered
            PROVE  a \in lineage'[r]
        <4>1. <<r, a>> \in Leases /\ proc[<<r, a>>] \in Registered
          BY <2>1, <3>2, StartingSets DEF Leases
        <4> QED BY <2>1, <3>2, <4>1 DEF ProductPart, ResumeLineage
      <3> QED BY <3>1, <3>2 DEF ResumeLineage
    <2>6. LinkRecorded'
      <3>1. ASSUME NEW k \in Leases, proc'[k] = "linked" PROVE k[2] \in lineage'[k[1]]
        <4>1. k[1] \in Runs
          BY LeaseParts
        <4> QED BY <2>1, <3>1, <4>1 DEF ProductPart, LinkRecorded
      <3> QED BY <3>1 DEF LinkRecorded
    <2>7. CheckpointAfterStart'
      <3>1. ASSUME NEW r \in Runs, checkpoint[r], attempt[r] = 1
            PROVE  proc'[<<r, 1>>] \notin Starting
        <4>1. <<r, 1>> # l
          BY <2>1, <3>1, <2>2
        <4> QED BY <2>1, <3>1, <4>1, FirstLease DEF ProductPart, CheckpointAfterStart
      <3> QED BY <2>1, <3>1 DEF ProductPart, CheckpointAfterStart
    <2> QED BY <2>3, <2>4, <2>5, <2>6, <2>7 DEF ProductPart
  <1> QED BY <1>1, <1>2

\* Registering as a first attempt, as an evaluation, or as a recorded continuation.
LEMMA RegisterProducts ==
    ASSUME ProductInv, NEW l \in Leases, Register(l)
    PROVE  ProductPart'
  <1> USE DEF ProductInv, RowInv, TypeOK, Step, Exit, Worker
  <1>1. CASE ~Owns(l)
    <2>1. UNCHANGED <<row, tables>> /\ proc' = [proc EXCEPT ![l] = "exited"]
      BY <1>1 DEF Register
    <2>2. MildProc
      BY <2>1, StartingSets DEF MildProc, MildMove
    <2> QED BY <2>1, <2>2, SameStatusMild, MildStep DEF Mild, SameRecords, tables, row
  <1>2. CASE Owns(l)
    <2>1. /\ l[1] \in Runs /\ l[2] \in Attempts /\ l = <<l[1], l[2]>>
          /\ attempt[l[1]] = l[2]
          /\ proc[l] = IF Continues(l[1]) THEN "linked" ELSE "verified"
          /\ proc' = [proc EXCEPT ![l] = "registered"]
          /\ UNCHANGED <<status, job, attempt, checkpoint, lineage, policies, evaluations>>
      BY <1>2 DEF Register, Owns, Heartbeat, tables, Leases
    <2>2. l[2] > 1 /\ job[l[1]] = Training => l[2] \in lineage[l[1]]
      <3>1. CASE Continues(l[1])
        BY <2>1, <3>1 DEF ProductPart, LinkRecorded
      <3>2. CASE ~Continues(l[1])
        BY <2>1, <3>2 DEF ProductPart, ResumedFromCheckpoint, Continues
      <3> QED BY <3>1, <3>2
    <2>3. CompletionHasProduct' /\ NewIsQueued' /\ ResumedFromCheckpoint'
      BY <2>1 DEF ProductPart, CompletionHasProduct, NewIsQueued, ResumedFromCheckpoint
    <2>4. RowStored' /\ LinkRecorded'
      BY <2>1 DEF ProductPart, RowStored, LinkRecorded
    <2>5. ResumeLineage'
      <3>1. ASSUME NEW r \in Runs PROVE lineage'[r] \subseteq 2..attempt'[r]
        BY <2>1 DEF ProductPart, ResumeLineage
      <3>2. ASSUME NEW r \in Runs, NEW a \in Attempts, a > 1, job'[r] = Training,
                   proc'[<<r, a>>] \in Registered
            PROVE  a \in lineage'[r]
        <4>1. CASE <<r, a>> = l
          BY <2>1, <2>2, <3>2, <4>1
        <4>2. CASE <<r, a>> # l
          <5>1. <<r, a>> \in Leases
            BY DEF Leases
          <5> QED BY <2>1, <3>2, <4>2, <5>1 DEF ProductPart, ResumeLineage
        <4> QED BY <4>1, <4>2
      <3> QED BY <3>1, <3>2 DEF ResumeLineage
    <2>6. CheckpointAfterStart'
      BY <2>1, FirstLease, StartingSets DEF ProductPart, CheckpointAfterStart
    <2> QED BY <2>3, <2>4, <2>5, <2>6 DEF ProductPart
  <1> QED BY <1>1, <1>2

LEMMA CheckpointProducts ==
    ASSUME ProductInv, NEW l \in Leases, ReportCheckpoint(l)
    PROVE  ProductPart'
  <1> USE DEF ProductInv, RowInv, TypeOK, Step, Exit, Worker
  <1>1. CASE ~Owns(l)
    <2>1. UNCHANGED <<row, tables>> /\ proc' = [proc EXCEPT ![l] = "exited"]
      BY <1>1 DEF ReportCheckpoint
    <2>2. MildProc
      BY <2>1, StartingSets DEF MildProc, MildMove
    <2> QED BY <2>1, <2>2, SameStatusMild, MildStep DEF Mild, SameRecords, tables, row
  <1>2. CASE Owns(l)
    <2>1. /\ l[1] \in Runs /\ l[2] \in Attempts /\ l = <<l[1], l[2]>>
          /\ attempt[l[1]] = l[2] /\ proc[l] = "executing"
          /\ checkpoint' = [checkpoint EXCEPT ![l[1]] = TRUE]
          /\ UNCHANGED <<status, job, attempt, lineage, policies, evaluations, proc>>
      BY <1>2 DEF ReportCheckpoint, Owns, Heartbeat, tables, Leases
    <2>2. CompletionHasProduct' /\ RowStored' /\ ResumeLineage' /\ LinkRecorded' /\ NewIsQueued'
      BY <2>1 DEF ProductPart, CompletionHasProduct, RowStored, ResumeLineage, LinkRecorded,
         NewIsQueued
    <2>3. ResumedFromCheckpoint'
      BY <2>1 DEF ProductPart, ResumedFromCheckpoint
    <2>4. CheckpointAfterStart'
      BY <2>1, StartingSets DEF ProductPart, CheckpointAfterStart, Attempts
    <2> QED BY <2>2, <2>3, <2>4 DEF ProductPart
  <1> QED BY <1>1, <1>2

\* The steps that bring a job to its end: only they add to the tables, and an
\* evaluation comes to its last check by storing its row.
LEMMA ClosingProducts ==
    ASSUME ProductInv, NEW l \in Leases, LastCheck(l) \/ UpsertEvaluation(l) \/ FinishTraining(l)
    PROVE  ProductPart'
  <1> USE DEF ProductInv, RowInv, TypeOK, Step, Exit, Worker
  <1>1. /\ UNCHANGED <<status, job, attempt, checkpoint, lineage, policies>>
        /\ evaluations \subseteq evaluations'
        /\ \E x \in Registered \cup {"exited"} :
              /\ proc' = [proc EXCEPT ![l] = x] /\ proc[l] \in Registered
              /\ x = "evaluated" => l \in evaluations'
              /\ x = "completing" => proc[l] = "evaluated" \/ job[l[1]] = Training
    BY StartingSets DEF LastCheck, UpsertEvaluation, FinishTraining, Continues, row, tables
  <1>2. CompletionHasProduct' /\ NewIsQueued' /\ ResumedFromCheckpoint'
    BY <1>1 DEF ProductPart, CompletionHasProduct, NewIsQueued, ResumedFromCheckpoint
  <1>3. RowStored'
    BY <1>1 DEF ProductPart, RowStored
  <1>4. ResumeLineage'
    <2>1. ASSUME NEW r \in Runs PROVE lineage'[r] \subseteq 2..attempt'[r]
      BY <1>1 DEF ProductPart, ResumeLineage
    <2>2. ASSUME NEW r \in Runs, NEW a \in Attempts, a > 1, job'[r] = Training,
                 proc'[<<r, a>>] \in Registered
          PROVE  a \in lineage'[r]
      <3>1. <<r, a>> \in Leases
        BY DEF Leases
      <3>2. proc[<<r, a>>] \in Registered
        BY <1>1, <2>2, <3>1
      <3> QED BY <1>1, <2>2, <3>2 DEF ProductPart, ResumeLineage
    <2> QED BY <2>1, <2>2 DEF ResumeLineage
  <1>5. LinkRecorded'
    BY <1>1, StartingSets DEF ProductPart, LinkRecorded
  <1>6. CheckpointAfterStart'
    BY <1>1, FirstLease, StartingSets DEF ProductPart, CheckpointAfterStart
  <1> QED BY <1>2, <1>3, <1>4, <1>5, <1>6 DEF ProductPart

\* The outcome and the policy are one transaction under the worker's claim.
LEMMA CommitProducts ==
    ASSUME ProductInv, NEW l \in Leases, Commit(l)
    PROVE  ProductPart'
  <1> USE DEF ProductInv, RowInv, TypeOK, Step, Exit
  <1>1. proc' = [proc EXCEPT ![l] = "exited"] /\ proc[l] \in Closing /\ UNCHANGED evaluations
    BY DEF Commit
  <1>2. MildProc
    BY <1>1, StartingSets DEF MildProc, MildMove
  <1>3. CASE ~Owns(l)
    <2>1. UNCHANGED <<row, policies>>
      BY <1>3 DEF Commit
    <2> QED BY <1>1, <1>2, <2>1, SameStatusMild, MildStep DEF Mild, SameRecords, row
  <1>4. CASE Owns(l) /\ proc[l] # "completing"
    <2>1. Outcome(proc[l]) \in {"interrupted", "failed", "cancelled"}
      BY <1>1, <1>4 DEF Outcome, Closing
    <2>2. UNCHANGED policies /\ Finalize(l[1], Outcome(proc[l])) /\ status[l[1]] \in Active
      BY <1>4 DEF Commit, Owns
    <2>3. MildRow /\ UNCHANGED <<job, attempt, checkpoint, lineage>>
      BY <2>1, <2>2, LeaseParts, FinalizeMild
    <2> QED BY <1>1, <1>2, <2>2, <2>3, MildStep DEF Mild, SameRecords
  <1>5. CASE Owns(l) /\ proc[l] = "completing"
    <2>1. /\ l[1] \in Runs /\ l[2] \in Attempts /\ l = <<l[1], l[2]>>
          /\ attempt[l[1]] = l[2] /\ status[l[1]] \in Active
          /\ status' = [status EXCEPT ![l[1]] = "completed"]
          /\ policies' = IF job[l[1]] = Training THEN policies \cup {l} ELSE policies
          /\ UNCHANGED <<job, attempt, checkpoint, lineage, evaluations>>
      BY <1>1, <1>5 DEF Commit, Finalize, Outcome, Owns, Leases
    <2>2. job[l[1]] # Training => l \in evaluations
      BY <1>5 DEF ProductPart, RowStored
    <2>3. CompletionHasProduct'
      <3>1. ASSUME NEW r \in Runs, status'[r] = "completed"
            PROVE  IF job'[r] = Training THEN <<r, attempt'[r]>> \in policies'
                                         ELSE <<r, attempt'[r]>> \in evaluations'
        BY <2>1, <2>2, <3>1 DEF ProductPart, CompletionHasProduct
      <3>2. ASSUME NEW r \in Runs, NEW a \in Attempts, <<r, a>> \in policies'
            PROVE  status'[r] = "completed" /\ a = attempt'[r]
        <4>1. CASE <<r, a>> \in policies
          BY <2>1, <3>2, <4>1 DEF ProductPart, CompletionHasProduct
        <4>2. CASE <<r, a>> = l
          BY <2>1, <4>2
        <4> QED BY <2>1, <3>2, <4>1, <4>2
      <3> QED BY <3>1, <3>2 DEF CompletionHasProduct
    <2>4. RowStored'
      BY <1>1, <2>1 DEF ProductPart, RowStored
    <2>5. ResumeLineage'
      <3>1. ASSUME NEW r \in Runs PROVE lineage'[r] \subseteq 2..attempt'[r]
        BY <2>1 DEF ProductPart, ResumeLineage
      <3>2. ASSUME NEW r \in Runs, NEW a \in Attempts, a > 1, job'[r] = Training,
                   proc'[<<r, a>>] \in Registered
            PROVE  a \in lineage'[r]
        <4>1. <<r, a>> \in Leases
          BY DEF Leases
        <4> QED BY <1>1, <2>1, <3>2, <4>1, StartingSets DEF ProductPart, ResumeLineage
      <3> QED BY <3>1, <3>2 DEF ResumeLineage
    <2>6. LinkRecorded'
      BY <1>1, <2>1 DEF ProductPart, LinkRecorded
    <2>7. NewIsQueued' /\ ResumedFromCheckpoint'
      BY <2>1 DEF ProductPart, NewIsQueued, ResumedFromCheckpoint
    <2>8. CheckpointAfterStart'
      BY <1>1, <2>1, FirstLease, StartingSets DEF ProductPart, CheckpointAfterStart
    <2> QED BY <2>3, <2>4, <2>5, <2>6, <2>7, <2>8 DEF ProductPart
  <1> QED BY <1>3, <1>4, <1>5

LEMMA WorkerProducts ==
    ASSUME ProductInv, NEW l \in Leases, WorkerStep(l)
    PROVE  ProductPart'
  BY MildStep, WorkerMild, ProvenanceProducts, RegisterProducts, CheckpointProducts,
     ClosingProducts, CommitProducts DEF WorkerStep

-----------------------------------------------------------------------------
LEMMA ProductStep == ProductInv /\ [Next]_vars => ProductPart'
  <1> SUFFICES ASSUME ProductInv, [Next]_vars PROVE ProductPart'
    OBVIOUS
  <1>1. ASSUME NEW r \in Runs, LeaseExpires(r) PROVE Mild
    BY <1>1, SameProcMild, SameStatusMild DEF LeaseExpires, Mild, SameRecords, tables
  <1>2. ASSUME NEW s \in Services, StopService(s) \/ StartService(s) PROVE Mild
    BY <1>2, SameProcMild, SameStatusMild DEF StopService, StartService, Mild, SameRecords,
       row, tables
  <1>3. CASE UNCHANGED vars
    <2>1. Mild
      BY <1>3, SameProcMild, SameStatusMild DEF vars, row, tables, Mild, SameRecords
    <2> QED BY <2>1, MildStep
  <1>4. ASSUME NEW s \in Services, ServiceStep(s) PROVE ProductPart'
    BY <1>4, ServiceMild, ClaimProducts, MildStep DEF ProductInv
  <1>5. ASSUME NEW s \in Services, ReaperStep(s) PROVE ProductPart'
    BY <1>5, ReaperMild, MildStep DEF ProductInv
  <1> QED BY <1>1, <1>2, <1>3, <1>4, <1>5, MildStep, UserProducts, WorkerProducts DEF Next

LEMMA ProductInit == Init => ProductInv
  <1> SUFFICES ASSUME Init PROVE ProductInv
    OBVIOUS
  <1>1. LeaseOrder
    BY DEF Init, LeaseOrder, Following
  <1>2. ProductPart
    <2>1. CompletionHasProduct /\ RowStored
      BY DEF Init, CompletionHasProduct, RowStored
    <2>2. ResumeLineage
      BY StartingSets DEF Init, ResumeLineage, Leases
    <2>3. LinkRecorded /\ NewIsQueued /\ ResumedFromCheckpoint /\ CheckpointAfterStart
      BY DEF Init, LinkRecorded, NewIsQueued, ResumedFromCheckpoint, CheckpointAfterStart
    <2> QED BY <2>1, <2>2, <2>3 DEF ProductPart
  <1> QED BY <1>1, <1>2, RowInvInit DEF ProductInv

LEMMA ProductInvariant == Spec => []ProductInv
  <1>1. ProductInv /\ [Next]_vars => ProductInv'
    BY RowInvStep, LeaseOrderStep, ProductStep DEF ProductInv
  <1> QED BY <1>1, ProductInit, PTL DEF Spec

\* A completed run has the policy or the evaluation row of its last attempt,
\* and no policy row is left by a worker that lost its claim, whatever
\* crashes, cancellations, resumptions and failures of the mirror come
\* between the row of an evaluation and the outcome of its run.
THEOREM CompletionIsBacked == Spec => []CompletionHasProduct
  BY ProductInvariant, PTL DEF ProductInv, ProductPart

\* No training attempt after the first runs its job before its continuation
\* is on record, and none is recorded that did not begin.
THEOREM LineageIsRecorded == Spec => []ResumeLineage
  BY ProductInvariant, PTL DEF ProductInv, ProductPart

=============================================================================
