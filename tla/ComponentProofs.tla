--------------------------- MODULE ComponentProofs ---------------------------
(***************************************************************************)
(* What the services around the queue promise, proved for each             *)
(* of them by itself and from an invariant of its own: the executor of a   *)
(* matrix (MatrixExecutor), the reaper of stale workers (WorkerReaper),    *)
(* the driver of the phase-3 verification (Phase3Verification), and the    *)
(* tasks that are carried out by skills (SkillExecutor).                   *)
(***************************************************************************)
EXTENDS Services, FoldTheorems, TLAPS

-----------------------------------------------------------------------------
(* The executor of a matrix.                                               *)

Rows == [status : {"none", "queued", "resuming", "running", "cancel_requested", "completed",
                   "failed", "interrupted", "cancelled"},
         attempt : Nat, saved : BOOLEAN]

Existing == {"poll", "resume", "select", "blocked", "refused"}
ExecutorPlaces == Existing \cup {"start", "launch", "detached"}

ExecutorTypeOK ==
    /\ run \in [Runs -> Rows]
    /\ executor \in [pc : ExecutorPlaces, seen : [Runs -> Rows], todo : Nat, resumed : BOOLEAN]
    /\ requests \in Nat /\ apiResumes \in [Runs -> Nat]

\* The attempts of a run, the one included that the queue owes it.
Owed(x) == IF x.status \in {"queued", "resuming"} THEN x.attempt + 1 ELSE x.attempt

\* A stopped run that the executor has read and not yet dealt with has gone on since
\* then only as often as the API resumed it.
SinceRead(r) ==
    executor.pc = "resume" /\ executor.todo <= r /\ executor.seen[r].status \in {"interrupted", "failed"} =>
        Owed(run[r]) <= executor.seen[r].attempt + apiResumes[r]

MatrixInv ==
    /\ ExecutorTypeOK
    /\ executor.pc \in Existing => Created
    /\ \A r \in Runs : Owed(run[r]) <= MaxAttempts + apiResumes[r]
    /\ \A r \in Runs : SinceRead(r)

LEMMA FirstRun == 1 \in Runs /\ Runs \subseteq Nat /\ (\A r \in Runs : r + 1 \in Nat)
  <1>1. Cardinality(Runs) \in Nat
    BY ExecutorAssumption, FS_CardinalityType
  <1> QED BY <1>1, ExecutorAssumption

LEMMA MatrixInit == Init => MatrixInv
  <1> SUFFICES ASSUME Init PROVE MatrixInv
    OBVIOUS
  <1> USE FirstRun, ExecutorAssumption DEF Init
  <1>1. NoRow \in Rows
    BY DEF NoRow, Rows
  <1>2. ExecutorTypeOK
    BY <1>1 DEF ExecutorTypeOK, ExecutorPlaces
  <1>3. executor.pc \notin Existing
    BY DEF Existing
  <1>4. \A r \in Runs : Owed(run[r]) <= MaxAttempts + apiResumes[r]
    BY DEF NoRow, Owed
  <1>5. \A r \in Runs : SinceRead(r)
    BY DEF SinceRead
  <1> QED BY <1>2, <1>3, <1>4, <1>5 DEF MatrixInv

\* A step that changes one row, and neither the executor nor the requests.
LEMMA RowChanges ==
    ASSUME MatrixInv, NEW r \in Runs, NEW x \in Rows,
           run' = [run EXCEPT ![r] = x], UNCHANGED <<executor, apiResumes>>, requests' \in Nat,
           x # NoRow, Owed(x) <= Owed(run[r])
    PROVE  MatrixInv'
  <1> USE FirstRun, ExecutorAssumption
  <1>1. ExecutorTypeOK /\ run[r] \in Rows
    BY DEF MatrixInv, ExecutorTypeOK
  <1>2. ExecutorTypeOK'
    BY <1>1 DEF ExecutorTypeOK
  <1>3. \A q \in Runs : run'[q] = IF q = r THEN x ELSE run[q]
    BY <1>1 DEF ExecutorTypeOK
  <1>4. Created => Created'
    BY <1>3 DEF Created
  <1>5. \A q \in Runs : Owed(run[q]) \in Nat /\ Owed(run'[q]) \in Nat /\ Owed(run'[q]) <= Owed(run[q])
    <2> TAKE q \in Runs
    <2>1. run[q] \in Rows /\ run'[q] \in Rows
      BY <1>1, <1>2 DEF ExecutorTypeOK
    <2>2. \A y \in Rows : Owed(y) \in Nat
      BY DEF Owed, Rows
    <2> QED BY <1>3, <2>1, <2>2
  <1>6. \A q \in Runs : apiResumes[q] \in Nat /\ executor.seen[q].attempt \in Nat
    BY <1>1 DEF ExecutorTypeOK, Rows
  <1>7. \A q \in Runs : Owed(run[q])' <= MaxAttempts + apiResumes[q]
    <2> TAKE q \in Runs
    <2>1. Owed(run[q])' = Owed(run'[q])
      BY DEF Owed
    <2>2. Owed(run[q]) <= MaxAttempts + apiResumes[q]
      BY DEF MatrixInv
    <2> HIDE DEF Owed
    <2> QED BY <1>5, <1>6, <2>1, <2>2
  <1>8. \A q \in Runs : SinceRead(q)'
    <2> SUFFICES ASSUME NEW q \in Runs, executor.pc = "resume", executor.todo <= q,
                        executor.seen[q].status \in {"interrupted", "failed"}
                 PROVE  Owed(run'[q]) <= executor.seen[q].attempt + apiResumes[q]
      BY DEF SinceRead, Owed
    <2>1. Owed(run[q]) <= executor.seen[q].attempt + apiResumes[q]
      BY DEF MatrixInv, SinceRead
    <2>2. Owed(run[q]) \in Nat /\ Owed(run'[q]) \in Nat /\ Owed(run'[q]) <= Owed(run[q])
      BY <1>5
    <2>3. apiResumes[q] \in Nat /\ executor.seen[q].attempt \in Nat
      BY <1>6
    <2> HIDE <1>5, <1>6
    <2> HIDE DEF Owed
    <2> QED BY <2>1, <2>2, <2>3
  <1> QED BY <1>2, <1>4, <1>7, <1>8 DEF MatrixInv

\* Steps that change only the executor, which at most moves on in the rows it has read.
LEMMA ExecutorMoves ==
    ASSUME MatrixInv, UNCHANGED <<run, requests, apiResumes>>,
           executor' \in [pc : ExecutorPlaces, seen : [Runs -> Rows], todo : Nat, resumed : BOOLEAN],
           executor'.pc \in Existing => Created,
           executor'.pc # "resume"
             \/ (executor'.seen = executor.seen /\ executor.todo <= executor'.todo /\ executor.pc = "resume")
    PROVE  MatrixInv'
  <1> USE FirstRun, ExecutorAssumption
  <1>1. ExecutorTypeOK'
    BY DEF MatrixInv, ExecutorTypeOK
  <1>2. (executor.pc \in Existing => Created)'
    BY DEF Created
  <1>3. \A q \in Runs : (Owed(run[q]) <= MaxAttempts + apiResumes[q])'
    BY DEF MatrixInv, Owed
  <1>4. ASSUME NEW q \in Runs PROVE SinceRead(q)'
    <2>1. SinceRead(q) /\ executor.todo \in Nat
      BY DEF MatrixInv, ExecutorTypeOK
    <2> QED BY <2>1 DEF SinceRead, Owed
  <1> QED BY <1>1, <1>2, <1>3, <1>4 DEF MatrixInv

\* The creation, which leaves the place of the executor to its caller.
LEMMA Creation ==
    ASSUME MatrixInv, CreateMatrix, UNCHANGED <<requests, apiResumes>>,
           \/ UNCHANGED executor
           \/ executor' = [executor EXCEPT !.pc = "poll"]
    PROVE  MatrixInv'
  <1> USE FirstRun, ExecutorAssumption
  <1>1. ExecutorTypeOK /\ Queued \in Rows /\ Queued # NoRow
    BY DEF MatrixInv, Queued, NoRow, Rows
  <1>2. ExecutorTypeOK' /\ run' = [r \in Runs |-> Queued]
    BY <1>1 DEF CreateMatrix, ExecutorTypeOK, ExecutorPlaces, Existing
  <1>3. Created'
    BY <1>1, <1>2 DEF Created
  <1>4. \A r \in Runs : (Owed(run[r]) <= MaxAttempts + apiResumes[r])'
    BY <1>2 DEF Queued, Owed, ExecutorTypeOK
  <1>5. executor'.pc # "resume"
    BY <1>1 DEF MatrixInv, CreateMatrix, Existing, ExecutorTypeOK
  <1> QED BY <1>2, <1>3, <1>4, <1>5 DEF MatrixInv, SinceRead

\* A resumption over the API is counted.
LEMMA ApiResumption == ASSUME MatrixInv, NEW r \in Runs, ApiResume(r) PROVE MatrixInv'
  <1> USE FirstRun, ExecutorAssumption
  <1>1. ExecutorTypeOK /\ run[r] \in Rows
    BY DEF MatrixInv, ExecutorTypeOK
  <1> DEFINE x == [run[r] EXCEPT !.status = "resuming"]
  <1>2. x \in Rows /\ x # NoRow /\ x.status = "resuming" /\ x.attempt = run[r].attempt
    BY <1>1 DEF Rows, NoRow
  <1>3. run' = [run EXCEPT ![r] = x] /\ apiResumes' = [apiResumes EXCEPT ![r] = @ + 1]
    BY DEF ApiResume, Resumed
  <1>4. Owed(x) = run[r].attempt + 1 /\ Owed(run[r]) = run[r].attempt
    BY <1>2 DEF ApiResume, MayResume, Owed
  <1> HIDE DEF x
  <1>5. ExecutorTypeOK' /\ UNCHANGED executor
    BY <1>1, <1>2, <1>3 DEF ExecutorTypeOK, ApiResume
  <1>6. \A q \in Runs : /\ run'[q] = IF q = r THEN x ELSE run[q]
                        /\ apiResumes'[q] = IF q = r THEN apiResumes[q] + 1 ELSE apiResumes[q]
                        /\ apiResumes[q] \in Nat /\ run[q] \in Rows
    BY <1>1, <1>3 DEF ExecutorTypeOK
  <1>7. Created => Created'
    BY <1>2, <1>6 DEF Created
  <1>8. \A q \in Runs : (Owed(run[q]) <= MaxAttempts + apiResumes[q])'
    <2> TAKE q \in Runs
    <2>1. Owed(run[q])' = Owed(run'[q]) /\ Owed(run[q]) <= MaxAttempts + apiResumes[q]
      BY DEF MatrixInv, Owed
    <2>2. run[r].attempt \in Nat
      BY <1>1 DEF Rows
    <2> HIDE DEF Owed
    <2>3. CASE q = r
      BY <1>4, <1>6, <2>1, <2>2, <2>3
    <2>4. CASE q # r
      BY <1>6, <2>1, <2>4
    <2> QED BY <2>3, <2>4
  <1>9. ASSUME NEW q \in Runs PROVE SinceRead(q)'
    <2> SUFFICES ASSUME executor.pc = "resume", executor.todo <= q,
                        executor.seen[q].status \in {"interrupted", "failed"}
                 PROVE  Owed(run'[q]) <= executor.seen[q].attempt + apiResumes'[q]
      BY <1>5 DEF SinceRead, Owed
    <2>1. Owed(run[q]) <= executor.seen[q].attempt + apiResumes[q]
      BY DEF MatrixInv, SinceRead
    <2>2. run[r].attempt \in Nat /\ executor.seen[q].attempt \in Nat
      BY <1>1 DEF Rows, ExecutorTypeOK
    <2> HIDE DEF Owed
    <2>3. CASE q = r
      BY <1>4, <1>6, <2>1, <2>2, <2>3
    <2>4. CASE q # r
      BY <1>6, <2>1, <2>4
    <2> QED BY <2>3, <2>4
  <1> QED BY <1>5, <1>7, <1>8, <1>9 DEF MatrixInv

\* The executor resumes what it has read as stopped and short of its limit.
LEMMA OneResumption == ASSUME MatrixInv, ResumeOne PROVE MatrixInv'
  <1> USE FirstRun, ExecutorAssumption
  <1> DEFINE r == executor.todo
             goes == Wanted(executor.seen[r]) /\ MayResume(r)
             x == [run[r] EXCEPT !.status = "resuming"]
  <1>1. ExecutorTypeOK /\ r \in Runs /\ run[r] \in Rows /\ executor.seen[r] \in Rows
    BY DEF MatrixInv, ExecutorTypeOK, ResumeOne
  <1>2. /\ executor.pc = "resume"
        /\ run' = IF goes THEN [run EXCEPT ![r] = x] ELSE run
        /\ executor' = [executor EXCEPT !.todo = r + 1, !.resumed = @ \/ goes]
        /\ UNCHANGED <<requests, apiResumes>>
    BY DEF ResumeOne, Resumed
  <1>3. x \in Rows /\ x # NoRow /\ Owed(x) = run[r].attempt + 1
    BY <1>1 DEF Rows, NoRow, Owed
  <1>4. goes => Owed(x) <= MaxAttempts + apiResumes[r]
    <2> SUFFICES ASSUME goes PROVE Owed(x) <= MaxAttempts + apiResumes[r]
      OBVIOUS
    <2>1. SinceRead(r) /\ Owed(run[r]) = run[r].attempt
      BY <1>1 DEF MatrixInv, MayResume, Owed
    <2>2. run[r].attempt <= executor.seen[r].attempt + apiResumes[r]
      BY <1>1, <1>2, <2>1 DEF SinceRead, Wanted
    <2>3. executor.seen[r].attempt + 1 <= MaxAttempts
      BY <1>1 DEF Wanted, Rows
    <2>4. /\ run[r].attempt \in Nat /\ executor.seen[r].attempt \in Nat
          /\ apiResumes[r] \in Nat /\ MaxAttempts \in Nat
      BY <1>1 DEF Rows, ExecutorTypeOK
    <2> HIDE DEF x, goes, Owed
    <2> QED BY <1>3, <2>2, <2>3, <2>4
  <1>5. r \in Nat /\ r + 1 \in Nat /\ goes \in BOOLEAN
    BY <1>1 DEF MayResume, Wanted
  <1> HIDE DEF x, goes
  <1>6. executor' \in [pc : ExecutorPlaces, seen : [Runs -> Rows], todo : Nat, resumed : BOOLEAN]
    BY <1>1, <1>2, <1>5 DEF ExecutorTypeOK
  <1>7. /\ executor'.pc = executor.pc /\ executor'.seen = executor.seen /\ executor'.todo = r + 1
    BY <1>1, <1>2 DEF ExecutorTypeOK
  <1>8. ExecutorTypeOK'
    BY <1>1, <1>2, <1>3, <1>6 DEF ExecutorTypeOK
  <1>9. \A q \in Runs : run'[q] = IF goes /\ q = r THEN x ELSE run[q]
    BY <1>1, <1>2 DEF ExecutorTypeOK
  <1>10. (executor.pc \in Existing => Created)'
    BY <1>3, <1>7, <1>9 DEF MatrixInv, Created
  <1>11. \A q \in Runs : (Owed(run[q]) <= MaxAttempts + apiResumes[q])'
    BY <1>2, <1>4, <1>9 DEF MatrixInv, Owed
  <1>12. ASSUME NEW q \in Runs PROVE SinceRead(q)'
    <2>1. CASE q > r
      <3>1. run'[q] = run[q] /\ r <= q /\ q \in Nat
        <4>1. q \in Nat /\ r \in Nat
          BY <1>5
        <4>2. q # r /\ r <= q
          BY <2>1, <4>1
        <4> QED BY <1>9, <4>1, <4>2
      <3>2. SinceRead(q)
        BY DEF MatrixInv
      <3> QED BY <1>2, <1>7, <3>1, <3>2 DEF SinceRead, Owed
    <2>2. CASE ~(q > r)
      <3>1. q \in Nat /\ ~(r + 1 <= q)
        BY <1>5, <2>2
      <3>2. ~(executor'.todo <= q)
        BY <1>7, <3>1
      <3> QED BY <3>2 DEF SinceRead
    <2> QED BY <2>1, <2>2
  <1> QED BY <1>8, <1>10, <1>11, <1>12 DEF MatrixInv

\* What it has read is what the rows are when it reads them.
LEMMA PollOnce == ASSUME MatrixInv, Poll PROVE MatrixInv'
  <1> USE FirstRun, ExecutorAssumption
  <1>1. ExecutorTypeOK' /\ executor'.seen = run /\ UNCHANGED <<run, apiResumes>>
    BY DEF MatrixInv, ExecutorTypeOK, Poll, ExecutorPlaces, Existing
  <1>2. Created'
    BY <1>1 DEF MatrixInv, Poll, Created, Existing
  <1>3. \A q \in Runs : (Owed(run[q]) <= MaxAttempts + apiResumes[q])'
    BY <1>1 DEF MatrixInv, Owed
  <1>4. ASSUME NEW q \in Runs PROVE SinceRead(q)'
    <2>1. run[q] \in Rows /\ apiResumes[q] \in Nat
      BY DEF MatrixInv, ExecutorTypeOK
    <2>2. run[q].attempt <= run[q].attempt + apiResumes[q]
      BY <2>1 DEF Rows
    <2> QED BY <1>1, <2>2 DEF SinceRead, Owed
  <1> QED BY <1>1, <1>2, <1>3, <1>4 DEF MatrixInv

LEMMA MatrixStep == MatrixInv /\ [Next]_vars => MatrixInv'
  <1> SUFFICES ASSUME MatrixInv, [Next]_vars PROVE MatrixInv'
    OBVIOUS
  <1> USE FirstRun, ExecutorAssumption
  <1>0. ExecutorTypeOK
    BY DEF MatrixInv
  <1>1. CASE LookUp
    <2>1. executor' \in [pc : ExecutorPlaces, seen : [Runs -> Rows], todo : Nat, resumed : BOOLEAN]
      BY <1>0, <1>1 DEF LookUp, ExecutorTypeOK, ExecutorPlaces, Existing
    <2>2. executor'.pc \in Existing => Created
      BY <1>0, <1>1 DEF LookUp, ExecutorTypeOK, Existing
    <2>3. executor'.pc # "resume" /\ UNCHANGED <<run, requests, apiResumes>>
      BY <1>0, <1>1 DEF LookUp, ExecutorTypeOK
    <2> QED BY <2>1, <2>2, <2>3, ExecutorMoves
  <1>2. CASE Launch
    <2>1. CASE CreateMatrix /\ executor' = [executor EXCEPT !.pc = "poll"]
      BY <1>2, <2>1, Creation DEF Launch
    <2>2. CASE Created /\ executor' = [executor EXCEPT !.pc = "refused"] /\ UNCHANGED run
      <3>1. executor' \in [pc : ExecutorPlaces, seen : [Runs -> Rows], todo : Nat, resumed : BOOLEAN]
        BY <1>0, <2>2 DEF ExecutorTypeOK, ExecutorPlaces, Existing
      <3>2. executor'.pc # "resume" /\ UNCHANGED <<run, requests, apiResumes>>
        BY <1>0, <1>2, <2>2 DEF Launch, ExecutorTypeOK
      <3> QED BY <2>2, <3>1, <3>2, ExecutorMoves
    <2> QED BY <1>2, <2>1, <2>2 DEF Launch
  <1>3. CASE Poll
    BY <1>3, PollOnce
  <1>4. CASE ResumeOne
    BY <1>4, OneResumption
  <1>5. CASE EndPoll
    <2>1. \E p \in {"poll", "select", "blocked"} : executor' = [executor EXCEPT !.pc = p]
      BY <1>5 DEF EndPoll
    <2>2. executor' \in [pc : ExecutorPlaces, seen : [Runs -> Rows], todo : Nat, resumed : BOOLEAN]
      BY <1>0, <2>1 DEF ExecutorTypeOK, ExecutorPlaces, Existing
    <2>3. executor'.pc # "resume" /\ UNCHANGED <<run, requests, apiResumes>>
      BY <1>0, <1>5, <2>1 DEF EndPoll, ExecutorTypeOK
    <2>4. Created
      BY <1>5 DEF EndPoll, MatrixInv, Existing
    <2> QED BY <2>2, <2>3, <2>4, ExecutorMoves
  <1>6. CASE Detach
    <2>1. executor' \in [pc : ExecutorPlaces, seen : [Runs -> Rows], todo : Nat, resumed : BOOLEAN]
      BY <1>0, <1>6 DEF Detach, ExecutorTypeOK, ExecutorPlaces
    <2>2. executor'.pc \notin Existing /\ executor'.pc # "resume" /\ UNCHANGED <<run, requests, apiResumes>>
      BY <1>0, <1>6 DEF Detach, ExecutorTypeOK, Existing
    <2> QED BY <2>1, <2>2, ExecutorMoves
  <1>7. CASE \E r \in Runs : Claim(r) \/ SaveCheckpoint(r) \/ EndRun(r) \/ ApiCancel(r)
    <2> PICK r \in Runs : Claim(r) \/ SaveCheckpoint(r) \/ EndRun(r) \/ ApiCancel(r)
      BY <1>7
    <2>1. run[r] \in Rows /\ requests \in Nat
      BY <1>0 DEF ExecutorTypeOK
    <2>2. UNCHANGED <<executor, apiResumes>> /\ requests' \in Nat
      BY <2>1 DEF Claim, SaveCheckpoint, EndRun, ApiCancel
    <2>3. CASE Claim(r)
      <3> DEFINE y == [run[r] EXCEPT !.status = "running"]
                 x == [y EXCEPT !.attempt = run[r].attempt + 1]
      <3>1. run' = [run EXCEPT ![r] = x]
        BY <1>0, <2>1, <2>3 DEF Claim, ExecutorTypeOK, Rows
      <3>y. y \in Rows /\ y.status = "running" /\ run[r].attempt + 1 \in Nat
        BY <2>1 DEF Rows
      <3>2. x.status = "running" /\ x.attempt = run[r].attempt + 1 /\ x \in Rows
        <4> HIDE DEF y
        <4> QED BY <3>y DEF Rows
      <3>3. Owed(x) = run[r].attempt + 1 /\ Owed(run[r]) = run[r].attempt + 1
        BY <2>3, <3>2 DEF Claim, Owed
      <3>4. NoRow.status = "none" /\ run[r].attempt \in Nat
        BY <2>1 DEF NoRow, Rows
      <3> HIDE DEF x
      <3>5. x # NoRow /\ Owed(x) <= Owed(run[r])
        BY <3>2, <3>3, <3>4
      <3> QED BY <2>2, <3>1, <3>2, <3>5, RowChanges
    <2>4. CASE SaveCheckpoint(r)
      <3> DEFINE x == [run[r] EXCEPT !.saved = TRUE]
      <3>1. run' = [run EXCEPT ![r] = x]
        BY <2>4 DEF SaveCheckpoint
      <3>2. x.status = "running" /\ x.attempt = run[r].attempt /\ x \in Rows
        BY <2>1, <2>4 DEF SaveCheckpoint, Rows
      <3>3. Owed(x) = run[r].attempt /\ Owed(run[r]) = run[r].attempt
        BY <2>4, <3>2 DEF SaveCheckpoint, Owed
      <3>4. NoRow.status = "none" /\ run[r].attempt \in Nat
        BY <2>1 DEF NoRow, Rows
      <3> HIDE DEF x
      <3>5. x # NoRow /\ Owed(x) <= Owed(run[r])
        BY <3>2, <3>3, <3>4
      <3> QED BY <2>2, <3>1, <3>2, <3>5, RowChanges
    <2>5. CASE EndRun(r)
      <3> PICK ending \in {"completed", "failed", "interrupted", "cancelled"} :
            run' = [run EXCEPT ![r].status = ending]
        BY <2>5 DEF EndRun
      <3> DEFINE x == [run[r] EXCEPT !.status = ending]
      <3>1. run' = [run EXCEPT ![r] = x]
        OBVIOUS
      <3>2. x.status = ending /\ x.attempt = run[r].attempt /\ x \in Rows
        BY <2>1 DEF Rows
      <3>3. run[r].status \in {"running", "cancel_requested"}
        BY <2>5 DEF EndRun
      <3>4. Owed(x) = run[r].attempt /\ Owed(run[r]) = run[r].attempt /\ run[r].attempt \in Nat
        BY <2>1, <3>2, <3>3 DEF Owed, Rows
      <3>5. NoRow.status = "none" /\ x.status # "none"
        BY <3>2 DEF NoRow
      <3>6. Owed(x) <= Owed(run[r])
        BY <3>4
      <3> HIDE DEF x
      <3> QED BY <2>2, <3>1, <3>2, <3>5, <3>6, RowChanges
    <2>6. CASE ApiCancel(r)
      <3> DEFINE x == [run[r] EXCEPT !.status = IF @ = "running" THEN "cancel_requested" ELSE "cancelled"]
      <3>1. run' = [run EXCEPT ![r] = x]
        BY <2>6 DEF ApiCancel
      <3>2. x.status \in {"cancel_requested", "cancelled"} /\ x.attempt = run[r].attempt /\ x \in Rows
        BY <2>1 DEF Rows
      <3>3. Owed(x) = run[r].attempt /\ run[r].attempt <= Owed(run[r])
        BY <2>1, <3>2 DEF Owed, Rows
      <3>4. NoRow.status = "none" /\ x.status # "none"
        BY <3>2 DEF NoRow
      <3>5. Owed(x) <= Owed(run[r])
        BY <3>3
      <3> HIDE DEF x
      <3> QED BY <2>2, <3>1, <3>2, <3>4, <3>5, RowChanges
    <2> QED BY <2>3, <2>4, <2>5, <2>6
  <1>8. CASE ApiCreate
    BY <1>8, Creation DEF ApiCreate
  <1>9. CASE \E r \in Runs : ApiResume(r)
    BY <1>9, ApiResumption
  <1>10. CASE UNCHANGED vars
    BY <1>10 DEF vars, MatrixInv, ExecutorTypeOK, Created, Owed, SinceRead
  <1> QED BY <1>1, <1>2, <1>3, <1>4, <1>5, <1>6, <1>7, <1>8, <1>9, <1>10
          DEF Next, Execute, Work, Api

THEOREM MatrixInvariant == Spec => []MatrixInv
  <1> QED BY MatrixInit, MatrixStep, PTL DEF Spec

LEMMA AttemptsFollow == MatrixInv => AttemptsBounded
  <1> SUFFICES ASSUME MatrixInv, NEW r \in Runs PROVE run[r].attempt <= MaxAttempts + apiResumes[r]
    BY DEF AttemptsBounded
  <1>1. run[r].attempt \in Nat /\ apiResumes[r] \in Nat /\ MaxAttempts \in Nat
    BY ExecutorAssumption DEF MatrixInv, ExecutorTypeOK, Rows
  <1>2. Owed(run[r]) <= MaxAttempts + apiResumes[r]
    BY DEF MatrixInv
  <1> QED BY <1>1, <1>2 DEF Owed

\* Although the executor decides on rows that may have changed since it read them
\* (_resume_interrupted_runs), whatever a run has beyond the limit of attempts was
\* resumed over the API.
THEOREM AttemptsAreBounded == Spec => []AttemptsBounded
  <1>1. MatrixInv => AttemptsBounded
    BY AttemptsFollow
  <1> QED BY <1>1, MatrixInvariant, PTL

-----------------------------------------------------------------------------
(* The reaper of stale workers.                                            *)

Processes == {"worker", "zombie", "stranger", "none"}
ReaperPlaces == {"alive", "compare", "owned", "verify dead", "open", "verify", "terminate",
                 "wait term", "verify again", "kill", "wait kill", "done"}

\* From the opening of the process to the end of the waits.
Opened == {"verify", "terminate", "wait term", "kill", "wait kill"}

Signals == {"terminate", "wait term", "kill", "wait kill"}

ReaperInv ==
    /\ process \in Processes /\ handle \in {"worker", "stranger", "none"} /\ pc \in ReaperPlaces
    /\ verdict \in {"open", "keep", "release"}
    /\ verdict = "release" => pc = "done"
    /\ Reaper!ReaperSound
    \* What was opened is what the pid named then.
    /\ handle = "stranger" => process \in {"stranger", "none"}
    /\ platform # "plain" /\ pc \in Opened => handle # "none"
    /\ platform # "plain" /\ pc \in Signals => handle = "worker"
    \* Only a kill without pidfd looks twice.
    /\ pc = "verify again" => platform = "plain"
    /\ pc = "open" => platform # "plain"
    \* A handle keeps the worker's pid.
    /\ platform = "windows" /\ handle = "worker" => process \in {"worker", "zombie"}
    /\ mistaken \in {"none", "liveness", "identity"}

LEMMA ReaperInit == Reaper!Init => ReaperInv
  BY DEF Reaper!Init, ReaperInv, Processes, ReaperPlaces, Opened, Signals, Reaper!ReaperSound

\* No process becomes the worker again.
LEMMA EnvironmentKeeps == ReaperInv /\ Reaper!Environment => ReaperInv'
  <1> SUFFICES ASSUME ReaperInv, Reaper!Environment PROVE ReaperInv'
    OBVIOUS
  <1> USE DEF Reaper!Environment, ReaperInv, Reaper!ReaperSound, Processes
  <1>1. CASE Reaper!Exit
    BY <1>1 DEF Reaper!Exit
  <1>2. CASE Reaper!Reap
    BY <1>2 DEF Reaper!Reap
  <1>3. CASE Reaper!Reuse
    BY <1>3 DEF Reaper!Reuse
  <1>4. CASE Reaper!StrangerExits
    BY <1>4 DEF Reaper!StrangerExits
  <1> QED BY <1>1, <1>2, <1>3, <1>4

LEMMA ReaperLooks ==
    ASSUME ReaperInv, Reaper!CheckAlive \/ Reaper!Compare \/ Reaper!Owned \/ Reaper!VerifyDead
    PROVE  ReaperInv'
  <1> USE DEF ReaperInv, Reaper!ReaperSound, Processes, ReaperPlaces, Opened, Signals,
              Reaper!GoTo, Reaper!Answer, Reaper!Believe, Reaper!Same, Reaper!Liveness
  <1>1. CASE Reaper!CheckAlive
    BY <1>1 DEF Reaper!CheckAlive
  <1>2. CASE Reaper!Compare
    BY <1>2 DEF Reaper!Compare, Reaper!Identities
  <1>3. CASE Reaper!Owned
    BY <1>3 DEF Reaper!Owned, Reaper!Identities
  <1>4. CASE Reaper!VerifyDead
    BY <1>4 DEF Reaper!VerifyDead
  <1> QED BY <1>1, <1>2, <1>3, <1>4

LEMMA ReaperOpens ==
    ASSUME ReaperInv, Reaper!Open \/ Reaper!Verify \/ Reaper!VerifyAgain
    PROVE  ReaperInv'
  <1> USE DEF ReaperInv, Reaper!ReaperSound, Processes, ReaperPlaces, Opened, Signals,
              Reaper!GoTo, Reaper!Answer, Reaper!Believe, Reaper!Same, Reaper!Liveness
  <1>1. CASE Reaper!Open
    BY <1>1 DEF Reaper!Open
  <1>2. CASE Reaper!VerifyPosix
    BY <1>2 DEF Reaper!VerifyPosix, Reaper!Identities
  <1>3. CASE Reaper!VerifyWindows
    BY <1>3 DEF Reaper!VerifyWindows
  <1>4. CASE Reaper!VerifyAgain
    BY <1>4 DEF Reaper!VerifyAgain, Reaper!Identities
  <1> QED BY <1>1, <1>2, <1>3, <1>4 DEF Reaper!Verify

LEMMA ReaperStops ==
    ASSUME ReaperInv, Reaper!Terminate \/ Reaper!Kill \/ Reaper!WaitTerm \/ Reaper!WaitKill
    PROVE  ReaperInv'
  <1> USE DEF ReaperInv, Reaper!ReaperSound, Processes, ReaperPlaces, Opened, Signals,
              Reaper!GoTo, Reaper!Answer, Reaper!Believe, Reaper!Same, Reaper!Liveness
  <1>1. CASE Reaper!Terminate
    BY <1>1 DEF Reaper!Terminate, Reaper!Target
  <1>2. CASE Reaper!Kill
    BY <1>2 DEF Reaper!Kill, Reaper!Target
  <1>3. CASE Reaper!WaitTerm
    BY <1>3 DEF Reaper!WaitTerm, Reaper!Wait, Reaper!Identities
  <1>4. CASE Reaper!WaitKill
    BY <1>4 DEF Reaper!WaitKill, Reaper!WaitWindows, Reaper!Wait, Reaper!Identities
  <1> QED BY <1>1, <1>2, <1>3, <1>4

LEMMA ReaperKeeps == ReaperInv /\ [Reaper!Next]_(Reaper!vars) => ReaperInv'
  <1> SUFFICES ASSUME ReaperInv, [Reaper!Next]_(Reaper!vars) PROVE ReaperInv'
    OBVIOUS
  <1>1. CASE UNCHANGED Reaper!vars
    BY <1>1 DEF Reaper!vars, ReaperInv, Reaper!ReaperSound
  <1> QED BY <1>1, EnvironmentKeeps, ReaperLooks, ReaperOpens, ReaperStops
          DEF Reaper!Next, Reaper!Reaper

\* Whatever exits, is reaped and reuses the pid between two calls of the reaper, and on
\* any set of platforms, and whichever calls fail: it releases a run only when the worker
\* is gone, or a failed call for its liveness, or on POSIX a wrong answer about its
\* identity, was taken for that; and it signals a stranger only where there is nothing
\* but the pid (reconcile_stale_runs, _terminate_owned_process).
THEOREM ReaperIsSound == Reaper!Spec => []Reaper!ReaperSound
  <1>1. ReaperInv /\ [Reaper!Next]_(Reaper!vars) => ReaperInv'
    BY ReaperKeeps
  <1>2. ReaperInv => Reaper!ReaperSound
    BY DEF ReaperInv
  <1> QED BY <1>1, <1>2, ReaperInit, PTL DEF Reaper!Spec

-----------------------------------------------------------------------------
(* The driver of the phase-3 verification.                                 *)

PhaseRows ==
    [status : {"absent", "queued", "resuming", "running", "cancel_requested", "completed",
               "failed", "interrupted", "cancelled"},
     attempt : Nat, token : {"none", "worker", "reaper"}, known : BOOLEAN]

\* The places of the driver on its way to a success, each with those that follow.
OnceVerified == {"verified", "leave", "done"}
OnceProven   == {"select", "held-out"} \cup OnceVerified
OnceTrained  == {"evidence"} \cup OnceProven
OnceSeen     == {"fence", "release", "resume", "restart", "matrix"} \cup OnceTrained
OncePicked   == {"stop", "join", "checkpoint", "transitions"} \cup OnceSeen

\* Until a run is released, until one is resumed, until the held-out evaluation is queued, and as long as
\* there is no dispatcher.
BeforeRelease == {"launch", "active", "stop", "join", "checkpoint", "transitions", "fence", "release"}
FirstAttempts == BeforeRelease \cup {"resume"}
NothingHeldOut == FirstAttempts \cup {"restart", "matrix", "evidence", "select"}
NoDispatcher  == {"checkpoint", "transitions", "fence", "release", "resume", "restart"}
GivenUp       == {"quit", "failed"}

DriverPlaces == {"launch", "active", "clean up", "cancel"} \cup OncePicked \cup GivenUp

Transitions == Nat \cup {-1}
WorkerStates == [at : {"none", "launched", "started", "working"}, own : Transitions]

PhaseTypeOK ==
    /\ row \in [Phase!Jobs -> PhaseRows]
    /\ disk \in [Phase!Jobs -> [file : Transitions, logged : Transitions]]
    /\ log \in [Phase!Jobs -> [started : SUBSET Nat, linked : SUBSET Nat, resumed : Int]]
    /\ worker \in [Phase!Jobs -> WorkerStates]
    /\ stray \in {Phase!NoStray} \cup [job : Phase!Jobs, next : Transitions]
    /\ dispatcher \in [at : {"idle", "claimed", "watching", "gone"},
                       job : Phase!Jobs \cup {Phase!NoJob}, stop : BOOLEAN]
    /\ driver \in [pc : DriverPlaces, picked : Phase!Jobs \cup {Phase!NoJob}, seen : Int,
                   todo : SUBSET Phase!Jobs]

\* Who lives works on the run that has the slot, and one run at most has it.
SlotHeld ==
    /\ \A j \in Phase!Jobs : Phase!Alive(j) => row[j].status \in Phase!Active
    /\ \A i, j \in Phase!Jobs :
        row[i].status \in Phase!Active /\ row[j].status \in Phase!Active => i = j
    /\ dispatcher.at \in {"claimed", "watching"} => dispatcher.job \in Phase!Jobs
    /\ dispatcher.at = "claimed" =>
        row[dispatcher.job].status \in Phase!Active /\ ~Phase!Alive(dispatcher.job)

\* What the rows, the events and the files of a job say of each other.
JobSound(j) ==
    /\ row[j].status \in Phase!Active \cup {"completed"} => row[j].attempt >= 1
    /\ row[j].status = "completed" /\ j \in Runs => disk[j].logged = Steps[j]
    /\ \A a \in log[j].started : a <= row[j].attempt
    /\ stray.job = j =>
        row[j].attempt >= 1 /\ (row[j].status \in Phase!Active => row[j].attempt >= 2)
    /\ j \in Runs => Owed(row[j]) <= 3

\* As long as no worker has been taken for gone, what is published of a job is in its
\* file, and its worker has no less.
Undisturbed ==
    /\ stray = Phase!NoStray
    /\ \A j \in Phase!Jobs :
        /\ disk[j].logged <= disk[j].file
        /\ worker[j].at = "working" =>
            disk[j].logged <= worker[j].own /\ worker[j].own <= disk[j].file

\* What the driver may rely on at its place.
PlaceSound ==
    /\ driver.pc = "launch" => \A j \in Phase!Jobs : row[j].status = "absent" /\ row[j].attempt = 0
    /\ driver.pc \in BeforeRelease => Undisturbed
    /\ driver.pc \in FirstAttempts => \A j \in Runs : Owed(row[j]) <= 1
    /\ driver.pc \in NothingHeldOut => row[Phase!Held].status = "absent"
    /\ driver.pc \in OncePicked => driver.picked \in Runs
    /\ driver.pc \in NoDispatcher => dispatcher.at = "gone"
    /\ driver.pc = "transitions" => disk[driver.picked].logged > 0
    /\ driver.pc = "resume" => row[driver.picked].status = "interrupted"
    /\ driver.pc \in OnceSeen => driver.seen > 0
    /\ driver.pc \in OnceTrained => \A j \in Runs : row[j].status = "completed"
    /\ driver.pc \in OnceProven =>
        2 \in log[driver.picked].started /\ log[driver.picked].resumed >= driver.seen
    /\ driver.pc = "cancel" =>
        \A j \in Phase!Jobs : row[j].status \in Phase!Pending \cup {"running"} => j \in driver.todo
    /\ driver.pc \in GivenUp =>
        \A j \in Phase!Jobs : row[j].status \notin Phase!Pending \cup {"running"}

PhaseInv ==
    /\ PhaseTypeOK
    /\ SlotHeld
    /\ \A j \in Phase!Jobs : JobSound(j)
    /\ PlaceSound

LEMMA PhaseJobs ==
    /\ Runs \subseteq Phase!Jobs /\ Phase!Held \in Phase!Jobs /\ Phase!Held \notin Runs
    /\ Phase!Jobs = Runs \cup {Phase!Held} /\ Phase!Jobs \subseteq Nat /\ Phase!NoJob \notin Phase!Jobs
  <1>1. Cardinality(Runs) \in Nat /\ Runs = 1..Cardinality(Runs)
    BY ExecutorAssumption, FS_CardinalityType
  <1>2. Phase!Cardinality(Runs) = Cardinality(Runs)
    BY DEF Cardinality, Phase!Cardinality
  <1> QED BY <1>1, <1>2 DEF Phase!Jobs, Phase!Held, Phase!NoJob

LEMMA PhaseInit == Phase!Init => PhaseInv
  <1> SUFFICES ASSUME Phase!Init PROVE PhaseInv
    OBVIOUS
  <1> USE PhaseJobs DEF Phase!Init
  <1>1. PhaseTypeOK
    BY DEF PhaseTypeOK, PhaseRows, DriverPlaces, WorkerStates, Transitions, Phase!NoWorker
  <1>2. SlotHeld
    BY DEF SlotHeld, Phase!Alive, Phase!Active, Phase!NoWorker
  <1>3. \A j \in Phase!Jobs : JobSound(j)
    BY DEF JobSound, Phase!Active, Phase!NoStray, Owed
  <1>4. Undisturbed
    BY DEF Undisturbed, Phase!NoWorker
  <1>5. PlaceSound
    BY <1>4 DEF PlaceSound, BeforeRelease, FirstAttempts, NothingHeldOut, OncePicked, OnceSeen, OnceTrained, OnceProven,
           OnceVerified, NoDispatcher, GivenUp, Owed
  <1> QED BY <1>1, <1>2, <1>3, <1>5 DEF PhaseInv

LEMMA NoWorkerTyped == Phase!NoWorker \in WorkerStates /\ Phase!NoWorker.at = "none"
  BY DEF Phase!NoWorker, WorkerStates, Transitions

\* What finalize_run does to the rows.
LEMMA FinalRow ==
    ASSUME PhaseTypeOK, NEW j \in Phase!Jobs,
           NEW s \in {"completed", "failed", "cancelled", "interrupted"}, Phase!Final(j, s)
    PROVE  /\ row' \in [Phase!Jobs -> PhaseRows]
           /\ \A i \in Phase!Jobs : i # j => row'[i] = row[i]
           /\ row'[j].status = s /\ row'[j].attempt = row[j].attempt
  <1> DEFINE a == [row[j] EXCEPT !.status = s]
             b == [a EXCEPT !.token = "none"]
             c == [b EXCEPT !.known = FALSE]
  <1>1. row \in [Phase!Jobs -> PhaseRows] /\ row[j] \in PhaseRows
    BY DEF PhaseTypeOK
  <1>2. a \in PhaseRows /\ a.status = s /\ a.attempt = row[j].attempt
    BY <1>1 DEF PhaseRows
  <1>3. b \in PhaseRows /\ b.status = s /\ b.attempt = row[j].attempt
    <2> HIDE DEF a
    <2> QED BY <1>2 DEF PhaseRows
  <1>4. c \in PhaseRows /\ c.status = s /\ c.attempt = row[j].attempt
    <2> HIDE DEF b
    <2> QED BY <1>3 DEF PhaseRows
  <1>5. row' = [row EXCEPT ![j] = c]
    BY <1>1 DEF Phase!Final, PhaseRows
  <1> HIDE DEF c
  <1> QED BY <1>1, <1>4, <1>5

-----------------------------------------------------------------------------
(* The worker and the dispatcher of the verification.                      *)

\* What a step of theirs leaves of a job for the driver to rely on.
Steady(j) ==
    /\ row[j].status = "absent" => row'[j].status = "absent" /\ row'[j].attempt = row[j].attempt
    /\ Owed(row'[j]) <= Owed(row[j])
    /\ row'[j].status \in Phase!Pending \cup {"running"} =>
        row[j].status \in Phase!Pending \cup {"running"}
    /\ row[j].status = "completed" => row'[j].status = "completed"
    /\ row[j].status = "interrupted" => row'[j].status = "interrupted"
    /\ Undisturbed => disk[j].logged <= disk'[j].logged
    /\ log[j].started \subseteq log'[j].started
    /\ log[j].resumed # -1 => log'[j].resumed = log[j].resumed

\* Without the queue of the driver's places, an unchanged job is steady.
LEMMA SteadySame ==
    ASSUME PhaseTypeOK, NEW j \in Phase!Jobs,
           row'[j] = row[j], disk'[j] = disk[j], log'[j] = log[j]
    PROVE  Steady(j)
  <1>1. Owed(row[j]) \in Nat /\ disk[j].logged \in Int
    BY DEF PhaseTypeOK, PhaseRows, Transitions, Owed
  <1> QED BY <1>1 DEF Steady, Owed

LEMMA SteadyPlace ==
    ASSUME PhaseTypeOK, PhaseTypeOK', PlaceSound, UNCHANGED driver,
           \A j \in Phase!Jobs : Steady(j), dispatcher.at = "gone" => dispatcher'.at = "gone",
           Undisturbed => Undisturbed'
    PROVE  PlaceSound'
  <1> USE PhaseJobs
  <1>1. \A j \in Phase!Jobs : /\ Owed(row[j]) \in Int /\ Owed(row'[j]) \in Int
                              /\ disk[j].logged \in Int /\ disk'[j].logged \in Int
    BY DEF PhaseTypeOK, PhaseRows, Transitions, Owed
  <1>2. driver.pc = "launch" =>
            \A j \in Phase!Jobs : row'[j].status = "absent" /\ row'[j].attempt = 0
    BY DEF PlaceSound, Steady
  <1>3. driver.pc \in FirstAttempts => \A j \in Runs : Owed(row'[j]) <= 1
    <2> SUFFICES ASSUME driver.pc \in FirstAttempts, NEW j \in Runs PROVE Owed(row'[j]) <= 1
      OBVIOUS
    <2>1. Owed(row[j]) <= 1 /\ Owed(row'[j]) <= Owed(row[j])
      BY DEF PlaceSound, Steady
    <2> QED BY <1>1, <2>1
  <1>4. driver.pc \in NothingHeldOut => row'[Phase!Held].status = "absent"
    BY DEF PlaceSound, Steady
  <1>5. driver.pc \in OncePicked => driver.picked \in Phase!Jobs /\ driver.picked \in Runs
    BY DEF PlaceSound
  <1>6. /\ driver.pc = "transitions" => driver.pc \in OncePicked
        /\ driver.pc = "resume" => driver.pc \in OncePicked
        /\ driver.pc \in OnceProven => driver.pc \in OncePicked /\ driver.pc \in OnceSeen
    BY DEF OncePicked, OnceSeen, OnceTrained, OnceProven
  <1>7. driver.pc = "transitions" => disk'[driver.picked].logged > 0
    <2> SUFFICES ASSUME driver.pc = "transitions" PROVE disk'[driver.picked].logged > 0
      OBVIOUS
    <2>1. driver.pc \in BeforeRelease
      BY DEF BeforeRelease
    <2>2. disk[driver.picked].logged > 0 /\ disk[driver.picked].logged <= disk'[driver.picked].logged
      BY <1>5, <1>6, <2>1 DEF PlaceSound, Steady
    <2> QED BY <1>1, <1>5, <1>6, <2>2
  <1>8. driver.pc = "resume" => row'[driver.picked].status = "interrupted"
    BY <1>5, <1>6 DEF PlaceSound, Steady
  <1>9. driver.pc \in OnceTrained => \A j \in Runs : row'[j].status = "completed"
    BY DEF PlaceSound, Steady
  <1>10. driver.pc \in OnceProven =>
            2 \in log'[driver.picked].started /\ log'[driver.picked].resumed >= driver.seen
    <2> SUFFICES ASSUME driver.pc \in OnceProven
                 PROVE  2 \in log'[driver.picked].started /\ log'[driver.picked].resumed >= driver.seen
      OBVIOUS
    <2>1. /\ 2 \in log[driver.picked].started /\ log[driver.picked].resumed >= driver.seen
          /\ driver.seen > 0 /\ Steady(driver.picked)
      BY <1>5, <1>6 DEF PlaceSound
    <2>2. log[driver.picked].resumed \in Int /\ driver.seen \in Int
      BY <1>5, <1>6 DEF PhaseTypeOK
    <2>3. log[driver.picked].resumed # -1
      BY <2>1, <2>2
    <2> QED BY <2>1, <2>3 DEF Steady
  <1>11. driver.pc = "cancel" =>
            \A j \in Phase!Jobs : row'[j].status \in Phase!Pending \cup {"running"} => j \in driver.todo
    BY DEF PlaceSound, Steady
  <1>12. driver.pc \in GivenUp =>
            \A j \in Phase!Jobs : row'[j].status \notin Phase!Pending \cup {"running"}
    BY DEF PlaceSound, Steady
  <1>13. driver.pc \in NoDispatcher => dispatcher'.at = "gone"
    BY DEF PlaceSound
  <1>14. driver.pc \in OnceSeen => driver.seen > 0
    BY DEF PlaceSound
  <1>15. \A j \in Phase!Jobs : Owed(row[j])' = Owed(row'[j])
    BY DEF Owed
  <1>16. driver.pc \in BeforeRelease => Undisturbed'
    BY DEF PlaceSound
  <1> QED BY <1>2, <1>3, <1>4, <1>5, <1>7, <1>8, <1>9, <1>10, <1>11, <1>12, <1>13, <1>14, <1>15, <1>16
          DEF PlaceSound, Phase!Held

\* A step of a living worker concerns its own job only.
LEMMA WorkerChange ==
    ASSUME PhaseInv, NEW j \in Phase!Jobs, Phase!Alive(j), PhaseTypeOK',
           \A i \in Phase!Jobs : i # j =>
                /\ row'[i] = row[i] /\ disk'[i] = disk[i] /\ log'[i] = log[i] /\ worker'[i] = worker[i],
           UNCHANGED <<stray, dispatcher, driver>>, Steady(j), JobSound(j)', Undisturbed => Undisturbed',
           worker'[j].at # "none" => row'[j].status \in Phase!Active
    PROVE  PhaseInv'
  <1>1. row[j].status \in Phase!Active
    BY DEF PhaseInv, SlotHeld
  <1>2. SlotHeld'
    BY <1>1 DEF PhaseInv, SlotHeld, Phase!Alive
  <1>3. ASSUME NEW i \in Phase!Jobs PROVE JobSound(i)'
    <2>1. CASE i = j
      BY <2>1
    <2>2. CASE i # j
      BY <2>2 DEF PhaseInv, JobSound, Owed
    <2> QED BY <2>1, <2>2
  <1>4. \A i \in Phase!Jobs : Steady(i)
    BY SteadySame DEF PhaseInv
  <1>5. PlaceSound'
    BY <1>4, SteadyPlace DEF PhaseInv
  <1> QED BY <1>2, <1>3, <1>5 DEF PhaseInv

LEMMA StartKeeps ==
    ASSUME PhaseInv, NEW j \in Phase!Jobs, Phase!Start(j), UNCHANGED stray
    PROVE  PhaseInv'
  <1> DEFINE x == [row[j] EXCEPT !.known = TRUE]
             y == [log[j] EXCEPT !.started = @ \cup {row[j].attempt}]
             z == [y EXCEPT !.linked = @ \cup (IF Phase!HasCheckpoint(j) THEN {row[j].attempt} ELSE {})]
             w == [worker[j] EXCEPT !.at = "started"]
  <1>1. PhaseTypeOK /\ row[j] \in PhaseRows /\ JobSound(j)
    BY DEF PhaseInv, PhaseTypeOK
  <1>2. log[j] \in [started : SUBSET Nat, linked : SUBSET Nat, resumed : Int] /\ row[j].attempt \in Nat
    BY <1>1 DEF PhaseTypeOK, PhaseRows
  <1>3. x \in PhaseRows /\ x.status = row[j].status /\ x.attempt = row[j].attempt
    BY <1>1 DEF PhaseRows
  <1>4. /\ y \in [started : SUBSET Nat, linked : SUBSET Nat, resumed : Int]
        /\ y.started = log[j].started \cup {row[j].attempt} /\ y.resumed = log[j].resumed
    BY <1>2
  <1>5. /\ z \in [started : SUBSET Nat, linked : SUBSET Nat, resumed : Int]
        /\ z.started = log[j].started \cup {row[j].attempt} /\ z.resumed = log[j].resumed
    <2> HIDE DEF y
    <2> QED BY <1>2, <1>4
  <1>6. /\ row' = [row EXCEPT ![j] = x] /\ worker' = [worker EXCEPT ![j] = w]
        /\ w \in WorkerStates /\ w.at = "started"
    BY <1>1 DEF Phase!Start, PhaseTypeOK, WorkerStates
  <1>7. log' = [log EXCEPT ![j] = z]
    BY <1>1, <1>2 DEF Phase!Start, PhaseTypeOK
  <1>8. UNCHANGED <<disk, dispatcher, driver>> /\ Phase!Alive(j) /\ row[j].status \in Phase!Active
    BY DEF Phase!Start, Phase!Alive, Phase!Owns
  <1> HIDE DEF x, y, z, w
  <1>9. PhaseTypeOK'
    BY <1>1, <1>3, <1>5, <1>6, <1>7, <1>8 DEF PhaseTypeOK
  <1>10. row'[j] = x /\ log'[j] = z /\ disk'[j] = disk[j]
    BY <1>1, <1>6, <1>7, <1>8 DEF PhaseTypeOK
  <1>11. Owed(x) = Owed(row[j]) /\ Owed(x) \in Nat /\ disk[j].logged \in Int
    BY <1>1, <1>2, <1>3 DEF Owed, PhaseTypeOK, Transitions
  <1>12. Steady(j)
    BY <1>3, <1>5, <1>10, <1>11 DEF Steady
  <1>13. JobSound(j)'
    <2>1. \A a \in z.started : a <= x.attempt
      BY <1>1, <1>2, <1>3, <1>5 DEF JobSound
    <2>2. Owed(row[j])' = Owed(x)
      BY <1>10 DEF Owed
    <2> QED BY <1>1, <1>3, <1>10, <1>11, <2>1, <2>2 DEF JobSound, Phase!Active
  <1>14. \A i \in Phase!Jobs : i # j =>
            /\ row'[i] = row[i] /\ disk'[i] = disk[i] /\ log'[i] = log[i] /\ worker'[i] = worker[i]
    BY <1>1, <1>6, <1>7, <1>8 DEF PhaseTypeOK
  <1>15. row'[j].status \in Phase!Active
    BY <1>3, <1>8, <1>10
  <1>16. Undisturbed => Undisturbed'
    <2>1. worker'[j] = w
      BY <1>1, <1>6 DEF PhaseTypeOK
    <2> QED BY <1>6, <1>8, <1>14, <2>1 DEF Undisturbed
  <1> QED BY <1>8, <1>9, <1>12, <1>13, <1>14, <1>15, <1>16, WorkerChange

LEMMA LoadKeeps ==
    ASSUME PhaseInv, NEW j \in Phase!Jobs, Phase!Load(j), UNCHANGED stray
    PROVE  PhaseInv'
  <1> DEFINE z == IF Phase!HasCheckpoint(j) /\ log[j].resumed = -1
                  THEN [log[j] EXCEPT !.resumed = disk[j].file] ELSE log[j]
             w == [at |-> "working", own |-> IF Phase!HasCheckpoint(j) THEN disk[j].file ELSE -1]
  <1>1. /\ PhaseTypeOK /\ row[j] \in PhaseRows /\ JobSound(j)
        /\ disk[j].file \in Transitions /\ disk[j].logged \in Transitions
    BY DEF PhaseInv, PhaseTypeOK
  <1>2. log[j] \in [started : SUBSET Nat, linked : SUBSET Nat, resumed : Int]
    BY <1>1 DEF PhaseTypeOK
  <1>3. /\ z \in [started : SUBSET Nat, linked : SUBSET Nat, resumed : Int]
        /\ z.started = log[j].started /\ (log[j].resumed # -1 => z.resumed = log[j].resumed)
    BY <1>1, <1>2 DEF Transitions
  <1>4. /\ worker' = [worker EXCEPT ![j] = w] /\ UNCHANGED <<row, disk, dispatcher, driver>>
        /\ Phase!Alive(j) /\ row[j].status \in Phase!Active
    BY DEF Phase!Load, Phase!Alive, Phase!Owns
  <1>5. log' = [log EXCEPT ![j] = z]
    BY <1>1, <1>2 DEF Phase!Load, PhaseTypeOK
  <1>6. /\ w \in WorkerStates /\ w.at = "working"
         /\ (disk[j].logged <= disk[j].file => disk[j].logged <= w.own /\ w.own <= disk[j].file)
    BY <1>1 DEF WorkerStates, Transitions, Phase!HasCheckpoint
  <1> HIDE DEF z, w
  <1>7. PhaseTypeOK'
    BY <1>1, <1>3, <1>4, <1>5, <1>6 DEF PhaseTypeOK
  <1>8. log'[j] = z /\ worker'[j] = w
    BY <1>1, <1>4, <1>5 DEF PhaseTypeOK
  <1>9. Owed(row[j]) \in Nat /\ disk[j].logged \in Int
    BY <1>1 DEF Owed, PhaseTypeOK, PhaseRows, Transitions
  <1>10. Steady(j)
    BY <1>3, <1>4, <1>8, <1>9 DEF Steady
  <1>11. JobSound(j)'
    BY <1>1, <1>3, <1>4, <1>8 DEF JobSound, Owed
  <1>12. \A i \in Phase!Jobs : i # j =>
            /\ row'[i] = row[i] /\ disk'[i] = disk[i] /\ log'[i] = log[i] /\ worker'[i] = worker[i]
    BY <1>1, <1>4, <1>5 DEF PhaseTypeOK
  <1>13. Undisturbed => Undisturbed'
    BY <1>4, <1>8, <1>12, <1>6 DEF Undisturbed
  <1>14. row'[j].status \in Phase!Active
    BY <1>4
  <1> QED BY <1>4, <1>7, <1>10, <1>11, <1>12, <1>13, <1>14, WorkerChange

LEMMA CheckpointKeeps ==
    ASSUME PhaseInv, NEW j \in Phase!Jobs, Phase!WriteCheckpoint(j) \/ Phase!Publish(j), UNCHANGED stray
    PROVE  PhaseInv'
  <1>1. PhaseTypeOK /\ row[j] \in PhaseRows /\ JobSound(j)
    BY DEF PhaseInv, PhaseTypeOK
  <1>2. disk[j] \in [file : Transitions, logged : Transitions] /\ worker[j] \in WorkerStates
    BY <1>1 DEF PhaseTypeOK
  <1>3. UNCHANGED <<row, log, dispatcher, driver>> /\ Phase!Alive(j) /\ worker[j].at = "working"
    BY DEF Phase!WriteCheckpoint, Phase!Publish, Phase!Alive
  <1>4. row[j].status \in Phase!Active
    BY <1>3 DEF PhaseInv, SlotHeld
  <1> DEFINE Ordered(d, w) == d.logged <= w.own /\ w.own <= d.file
  <1>5. PICK x \in [file : Transitions, logged : Transitions], y \in WorkerStates :
            /\ disk' = [disk EXCEPT ![j] = x] /\ worker' = [worker EXCEPT ![j] = y] /\ y.at = "working"
            /\ Ordered(disk[j], worker[j]) => Ordered(x, y) /\ disk[j].logged <= x.logged
    <2>1. CASE Phase!WriteCheckpoint(j)
      <3> DEFINE x == [disk[j] EXCEPT !.file = worker[j].own + 1]
                 y == [worker[j] EXCEPT !.own = worker[j].own + 1]
      <3>1. /\ disk' = [disk EXCEPT ![j] = x] /\ worker' = [worker EXCEPT ![j] = y]
            /\ worker[j].own = disk[j].logged
        BY <1>1, <2>1 DEF Phase!WriteCheckpoint, PhaseTypeOK, WorkerStates
      <3>2. /\ x \in [file : Transitions, logged : Transitions] /\ y \in WorkerStates
            /\ x.logged = disk[j].logged /\ x.file = worker[j].own + 1
            /\ y.own = worker[j].own + 1 /\ y.at = "working"
        BY <1>2, <1>3 DEF Transitions, WorkerStates
      <3>3. Ordered(x, y) /\ disk[j].logged <= x.logged
        BY <1>2, <3>1, <3>2 DEF Transitions, WorkerStates
      <3> HIDE DEF Ordered, x, y
      <3> QED BY <3>1, <3>2, <3>3
    <2>2. CASE Phase!Publish(j)
      <3> DEFINE x == [disk[j] EXCEPT !.logged = worker[j].own]
      <3>1. disk' = [disk EXCEPT ![j] = x] /\ worker' = [worker EXCEPT ![j] = worker[j]]
        BY <1>1, <2>2 DEF Phase!Publish, PhaseTypeOK
      <3>2. /\ x \in [file : Transitions, logged : Transitions]
            /\ x.logged = worker[j].own /\ x.file = disk[j].file
        BY <1>2 DEF Transitions, WorkerStates
      <3>3. Ordered(disk[j], worker[j]) => Ordered(x, worker[j]) /\ disk[j].logged <= x.logged
        BY <1>2, <3>2 DEF Transitions, WorkerStates
      <3> HIDE DEF Ordered, x
      <3> QED BY <1>2, <1>3, <3>1, <3>2, <3>3
    <2> QED BY <2>1, <2>2
  <1>6. PhaseTypeOK' /\ disk'[j] = x /\ worker'[j] = y
    BY <1>1, <1>3, <1>5 DEF PhaseTypeOK
  <1>7. Owed(row[j]) \in Nat
    BY <1>1 DEF Owed, PhaseRows
  <1>8. Undisturbed => disk[j].logged <= x.logged /\ Ordered(x, y)
    BY <1>3, <1>5 DEF Undisturbed
  <1>9. Steady(j)
    BY <1>3, <1>6, <1>7, <1>8 DEF Steady
  <1>10. JobSound(j)'
    BY <1>1, <1>3, <1>4, <1>6 DEF JobSound, Owed, Phase!Active
  <1>11. \A i \in Phase!Jobs : i # j =>
            /\ row'[i] = row[i] /\ disk'[i] = disk[i] /\ log'[i] = log[i] /\ worker'[i] = worker[i]
    BY <1>1, <1>3, <1>5 DEF PhaseTypeOK
  <1>12. Undisturbed => Undisturbed'
    <2> SUFFICES ASSUME Undisturbed PROVE Undisturbed'
      OBVIOUS
    <2>1. x.logged <= x.file
      BY <1>8, <1>5 DEF Transitions, WorkerStates
    <2> QED BY <1>6, <1>8, <1>11, <2>1 DEF Undisturbed
  <1> QED BY <1>3, <1>4, <1>6, <1>9, <1>10, <1>11, <1>12, WorkerChange

\* The worker ends its run and itself.
LEMMA EndKeeps ==
    ASSUME PhaseInv, NEW j \in Phase!Jobs, Phase!Finish(j) \/ Phase!Raise(j), UNCHANGED stray
    PROVE  PhaseInv'
  <1>1. PhaseTypeOK /\ row[j] \in PhaseRows /\ JobSound(j)
    BY DEF PhaseInv, PhaseTypeOK
  <1>2. /\ worker' = [worker EXCEPT ![j] = Phase!NoWorker] /\ UNCHANGED <<disk, log, dispatcher, driver>>
        /\ Phase!Alive(j) /\ row[j].status \in Phase!Active
    BY DEF Phase!Finish, Phase!Raise, Phase!Gone, Phase!Alive, Phase!Owns
  <1>3. PICK s \in {"completed", "failed", "cancelled"} :
            Phase!Final(j, s) /\ (s = "completed" /\ j \in Runs => disk[j].logged = Steps[j])
    <2>1. CASE Phase!Finish(j)
      BY <2>1 DEF Phase!Finish
    <2>2. CASE Phase!Raise(j)
      BY <2>2 DEF Phase!Raise
    <2> QED BY <2>1, <2>2
  <1>4. /\ row' \in [Phase!Jobs -> PhaseRows]
        /\ \A i \in Phase!Jobs : i # j => row'[i] = row[i]
        /\ row'[j].status = s /\ row'[j].attempt = row[j].attempt
    BY <1>1, <1>3, FinalRow
  <1>5. PhaseTypeOK'
    BY <1>1, <1>2, <1>4, NoWorkerTyped DEF PhaseTypeOK
  <1>6. row[j].attempt \in Nat /\ disk[j].logged \in Int
    BY <1>1 DEF PhaseRows, PhaseTypeOK, Transitions
  <1>7. Owed(row'[j]) = row[j].attempt /\ Owed(row[j]) = row[j].attempt
    BY <1>2, <1>4 DEF Owed, Phase!Active
  <1>8. Steady(j)
    BY <1>2, <1>4, <1>6, <1>7 DEF Steady, Phase!Active, Phase!Pending
  <1>9. Owed(row[j])' = Owed(row'[j])
    BY DEF Owed
  <1>10. JobSound(j)'
    BY <1>1, <1>2, <1>3, <1>4, <1>7, <1>9 DEF JobSound, Phase!Active
  <1>11. \A i \in Phase!Jobs : i # j =>
            /\ row'[i] = row[i] /\ disk'[i] = disk[i] /\ log'[i] = log[i] /\ worker'[i] = worker[i]
    BY <1>1, <1>2, <1>4 DEF PhaseTypeOK
  <1>12. worker'[j].at = "none"
    BY <1>1, <1>2, NoWorkerTyped DEF PhaseTypeOK
  <1>13. Undisturbed => Undisturbed'
    BY <1>2, <1>11, <1>12 DEF Undisturbed
  <1> QED BY <1>2, <1>5, <1>8, <1>10, <1>11, <1>12, <1>13, WorkerChange

LEMMA DieKeeps ==
    ASSUME PhaseInv, NEW j \in Phase!Jobs, Phase!Die(j), UNCHANGED stray
    PROVE  PhaseInv'
  <1>1. PhaseTypeOK /\ JobSound(j)
    BY DEF PhaseInv
  <1>2. /\ worker' = [worker EXCEPT ![j] = Phase!NoWorker] /\ Phase!Alive(j)
        /\ UNCHANGED <<row, disk, log, dispatcher, driver>>
    BY DEF Phase!Die, Phase!Gone
  <1>3. PhaseTypeOK' /\ Steady(j) /\ worker'[j].at = "none"
    BY <1>1, <1>2, SteadySame, NoWorkerTyped DEF PhaseTypeOK
  <1>4. JobSound(j)'
    BY <1>1, <1>2 DEF JobSound, Owed
  <1>5. \A i \in Phase!Jobs : i # j =>
            /\ row'[i] = row[i] /\ disk'[i] = disk[i] /\ log'[i] = log[i] /\ worker'[i] = worker[i]
    BY <1>1, <1>2 DEF PhaseTypeOK
  <1>6. Undisturbed => Undisturbed'
    BY <1>2, <1>3, <1>5 DEF Undisturbed
  <1> QED BY <1>2, <1>3, <1>4, <1>5, <1>6, WorkerChange

LEMMA WorkerKeeps == ASSUME PhaseInv, NEW j \in Phase!Jobs, Phase!WorkerStep(j) PROVE PhaseInv'
  BY StartKeeps, LoadKeeps, CheckpointKeeps, EndKeeps, DieKeeps DEF Phase!WorkerStep

LEMMA StrayMoves ==
    ASSUME PhaseInv, PhaseTypeOK', UNCHANGED <<row, log, worker, dispatcher, driver>>, ~Undisturbed,
           \A i \in Phase!Jobs : disk'[i].logged = disk[i].logged,
           stray'.job = stray.job \/ stray'.job \notin Phase!Jobs
    PROVE  PhaseInv'
  <1>1. \A i \in Phase!Jobs : JobSound(i)'
    BY DEF PhaseInv, JobSound, Owed
  <1>2. SlotHeld'
    BY DEF PhaseInv, SlotHeld, Phase!Alive
  <1>3. \A i \in Phase!Jobs : Owed(row[i]) \in Nat
    BY DEF PhaseInv, PhaseTypeOK, PhaseRows, Owed
  <1>4. \A i \in Phase!Jobs : Steady(i)
    BY <1>3 DEF Steady
  <1>5. PlaceSound'
    BY <1>4, SteadyPlace DEF PhaseInv
  <1> QED BY <1>1, <1>2, <1>5 DEF PhaseInv

\* A worker that was taken for gone writes to the file of its job at most.
LEMMA StrayKeeps == ASSUME PhaseInv, Phase!StrayStep PROVE PhaseInv'
  <1>1. PhaseTypeOK /\ UNCHANGED <<row, log, worker, dispatcher, driver>>
    BY DEF PhaseInv, Phase!StrayStep, Phase!StrayWrites, Phase!StrayEnds
  <1>2. ~Undisturbed
    BY DEF Phase!StrayStep, Phase!StrayWrites, Phase!StrayEnds, Undisturbed, Phase!NoStray
  <1>3. CASE Phase!StrayWrites
    <2> PICK j \in Phase!Jobs : stray.job = j /\ stray.next \in Nat
      BY <1>1, <1>3 DEF PhaseTypeOK, Phase!StrayWrites, Phase!NoStray, Transitions
    <2> DEFINE x == [disk[j] EXCEPT !.file = stray.next]
    <2>1. disk' = [disk EXCEPT ![j] = x] /\ stray' = [stray EXCEPT !.next = -1]
      BY <1>3 DEF Phase!StrayWrites
    <2>2. x \in [file : Transitions, logged : Transitions] /\ x.logged = disk[j].logged
      BY <1>1 DEF PhaseTypeOK, Transitions
    <2>3. stray' \in [job : Phase!Jobs, next : Transitions] /\ stray'.job = stray.job
      BY <1>1, <1>2, <2>1 DEF PhaseTypeOK, Phase!NoStray, Transitions
    <2> HIDE DEF x
    <2>4. PhaseTypeOK' /\ \A i \in Phase!Jobs : disk'[i].logged = disk[i].logged
      BY <1>1, <2>1, <2>2, <2>3 DEF PhaseTypeOK
    <2> QED BY <1>1, <1>2, <2>3, <2>4, StrayMoves
  <1>4. CASE Phase!StrayEnds
    <2>1. PhaseTypeOK' /\ UNCHANGED disk /\ stray'.job \notin Phase!Jobs
      BY <1>1, <1>4, PhaseJobs DEF PhaseTypeOK, Phase!StrayEnds, Phase!NoStray
    <2> QED BY <1>1, <1>2, <2>1, StrayMoves
  <1> QED BY <1>3, <1>4 DEF Phase!StrayStep

\* A step of the dispatcher concerns the row and the worker of one job.
LEMMA DispatcherChange ==
    ASSUME PhaseInv, NEW j \in Phase!Jobs, UNCHANGED <<disk, log, stray, driver>>, PhaseTypeOK', SlotHeld',
           Undisturbed => Undisturbed', \A i \in Phase!Jobs : i # j => row'[i] = row[i],
           Steady(j), JobSound(j)', dispatcher.at # "gone"
    PROVE  PhaseInv'
  <1>1. ASSUME NEW i \in Phase!Jobs PROVE JobSound(i)'
    <2>1. CASE i = j
      BY <2>1
    <2>2. CASE i # j
      BY <2>2 DEF PhaseInv, JobSound, Owed
    <2> QED BY <2>1, <2>2
  <1>2. \A i \in Phase!Jobs : Steady(i)
    BY SteadySame DEF PhaseInv
  <1>3. PlaceSound'
    BY <1>2, SteadyPlace DEF PhaseInv
  <1> QED BY <1>1, <1>3 DEF PhaseInv

LEMMA ClaimKeeps ==
    ASSUME PhaseInv, NEW j \in Phase!Jobs, Phase!Claim(j), UNCHANGED stray
    PROVE  PhaseInv'
  <1> DEFINE x == [status |-> "running", attempt |-> row[j].attempt + 1, token |-> "worker", known |-> FALSE]
             d == [dispatcher EXCEPT !.at = "claimed", !.job = j]
  <1>1. PhaseTypeOK /\ row[j] \in PhaseRows /\ JobSound(j) /\ row[j].attempt \in Nat
    BY DEF PhaseInv, PhaseTypeOK, PhaseRows
  <1>2. /\ row' = [row EXCEPT ![j] = x] /\ dispatcher' = d
        /\ UNCHANGED <<disk, log, worker, driver>>
        /\ dispatcher.at = "idle" /\ row[j].status \in Phase!Pending
        /\ \A i \in Phase!Jobs : row[i].status \notin Phase!Active
    BY <1>1 DEF Phase!Claim
  <1>3. x \in PhaseRows
    BY <1>1 DEF PhaseRows
  <1>4. /\ d \in [at : {"idle", "claimed", "watching", "gone"}, job : Phase!Jobs \cup {Phase!NoJob},
                  stop : BOOLEAN]
        /\ d.at = "claimed" /\ d.job = j
    <2> DEFINE e == [dispatcher EXCEPT !.at = "claimed"]
    <2>1. e \in [at : {"idle", "claimed", "watching", "gone"}, job : Phase!Jobs \cup {Phase!NoJob},
                 stop : BOOLEAN] /\ e.at = "claimed"
      BY <1>1 DEF PhaseTypeOK
    <2>2. d = [e EXCEPT !.job = j]
      BY <1>1 DEF PhaseTypeOK
    <2> HIDE DEF e, d
    <2> QED BY <2>1, <2>2
  <1> HIDE DEF d
  <1>5. PhaseTypeOK'
    BY <1>1, <1>2, <1>3, <1>4 DEF PhaseTypeOK
  <1>6. \A i \in Phase!Jobs : row'[i] = IF i = j THEN x ELSE row[i]
    BY <1>1, <1>2 DEF PhaseTypeOK
  <1>7. \A i \in Phase!Jobs : ~Phase!Alive(i) /\ ~Phase!Alive(i)'
    BY <1>2 DEF PhaseInv, SlotHeld, Phase!Alive
  <1>8. SlotHeld'
    BY <1>2, <1>4, <1>6, <1>7 DEF SlotHeld, Phase!Active
  <1>9. Owed(x) = row[j].attempt + 1 /\ Owed(row[j]) = row[j].attempt + 1 /\ Owed(row[j])' = Owed(row'[j])
    BY <1>2 DEF Owed, Phase!Pending
  <1>10. Steady(j)
    <2>1. disk[j].logged \in Int /\ disk'[j] = disk[j] /\ log'[j] = log[j]
      BY <1>1, <1>2 DEF PhaseTypeOK, Transitions
    <2>2. row[j].status \in {"queued", "resuming"} /\ row'[j] = x
      BY <1>2, <1>6 DEF Phase!Pending
    <2>3. Owed(row'[j]) <= Owed(row[j])
      BY <1>1, <1>9, <2>2
    <2> HIDE DEF x
    <2> QED BY <1>2, <2>1, <2>2, <2>3 DEF Steady
  <1>11. JobSound(j)'
    <2>1. \A a \in log[j].started : a \in Nat /\ a <= row[j].attempt + 1
      <3>1. log[j].started \subseteq Nat
        BY <1>1 DEF PhaseTypeOK
      <3> QED BY <1>1, <3>1 DEF JobSound
    <2>2. /\ row'[j].status = "running" /\ row'[j].attempt = row[j].attempt + 1
          /\ disk'[j] = disk[j] /\ log'[j] = log[j]
      BY <1>2, <1>6
    <2>3. Owed(row'[j]) = Owed(row[j])
      BY <1>6, <1>9
    <2>4. /\ row[j].attempt + 1 >= 1
          /\ stray.job = j => row[j].attempt + 1 >= 2
      BY <1>1 DEF JobSound
    <2> HIDE DEF x
    <2> QED BY <1>1, <1>9, <2>1, <2>2, <2>3, <2>4 DEF JobSound
  <1>12. Undisturbed => Undisturbed'
    BY <1>2 DEF Undisturbed
  <1> QED BY <1>2, <1>5, <1>6, <1>8, <1>10, <1>11, <1>12, DispatcherChange

LEMMA LaunchKeeps == ASSUME PhaseInv, Phase!Launch, UNCHANGED stray PROVE PhaseInv'
  <1> DEFINE j == dispatcher.job
             x == [row[j] EXCEPT !.known = TRUE]
             w == [worker[j] EXCEPT !.at = "launched"]
  <1>1. /\ PhaseTypeOK /\ SlotHeld /\ dispatcher.at = "claimed"
        /\ j \in Phase!Jobs /\ row[j].status \in Phase!Active
    BY DEF PhaseInv, SlotHeld, Phase!Launch
  <1>2. row[j] \in PhaseRows /\ JobSound(j)
    BY <1>1 DEF PhaseInv, PhaseTypeOK
  <1>3. x \in PhaseRows /\ x.status = row[j].status /\ x.attempt = row[j].attempt
    BY <1>2 DEF PhaseRows
  <1>4. /\ dispatcher' = [dispatcher EXCEPT !.at = "watching"] /\ UNCHANGED <<disk, log, driver>>
        /\ \/ worker' = [worker EXCEPT ![j] = w] /\ row' = [row EXCEPT ![j] = x]
           \/ UNCHANGED <<worker, row>>
    BY DEF Phase!Launch
  <1>5. w \in WorkerStates /\ w.at = "launched"
    BY <1>1 DEF PhaseTypeOK, WorkerStates
  <1> HIDE DEF x, w
  <1>6. PhaseTypeOK' /\ dispatcher'.at = "watching" /\ dispatcher'.job = j
    <2>1. /\ dispatcher' \in [at : {"idle", "claimed", "watching", "gone"},
                              job : Phase!Jobs \cup {Phase!NoJob}, stop : BOOLEAN]
          /\ dispatcher'.at = "watching" /\ dispatcher'.job = j
      BY <1>1, <1>4 DEF PhaseTypeOK
    <2>2. row' \in [Phase!Jobs -> PhaseRows] /\ worker' \in [Phase!Jobs -> WorkerStates]
      <3>1. row \in [Phase!Jobs -> PhaseRows] /\ worker \in [Phase!Jobs -> WorkerStates]
        BY <1>1 DEF PhaseTypeOK
      <3> QED BY <1>1, <1>3, <1>4, <1>5, <3>1
    <2> QED BY <1>1, <1>4, <2>1, <2>2 DEF PhaseTypeOK
  <1>7. /\ \A i \in Phase!Jobs : i # j => row'[i] = row[i] /\ worker'[i] = worker[i]
        /\ row'[j].status = row[j].status /\ row'[j].attempt = row[j].attempt
    BY <1>1, <1>3, <1>4 DEF PhaseTypeOK
  <1>8. SlotHeld'
    BY <1>1, <1>6, <1>7 DEF SlotHeld, Phase!Alive
  <1>9. Owed(row'[j]) = Owed(row[j]) /\ Owed(row[j]) \in Nat /\ disk[j].logged \in Int
    BY <1>1, <1>2, <1>7 DEF Owed, PhaseRows, PhaseTypeOK, Transitions
  <1>10. Steady(j)
    BY <1>4, <1>7, <1>9 DEF Steady
  <1>11. JobSound(j)'
    BY <1>2, <1>4, <1>6, <1>7, <1>9 DEF JobSound, Owed
  <1>12. PICK k \in Phase!Jobs : k = j
    BY <1>1
  <1>13. Steady(k) /\ JobSound(k)' /\ \A i \in Phase!Jobs : i # k => row'[i] = row[i]
    BY <1>7, <1>10, <1>11, <1>12, <1>4, <1>6 DEF JobSound, Owed
  <1>14. Undisturbed => Undisturbed'
    <2>1. worker'[k] = worker[k] \/ worker'[k] = w
      BY <1>1, <1>4, <1>12 DEF PhaseTypeOK
    <2> QED BY <1>4, <1>7, <1>12, <1>5, <2>1 DEF Undisturbed
  <1> QED BY <1>1, <1>4, <1>6, <1>8, <1>13, <1>14, DispatcherChange

LEMMA CloseKeeps == ASSUME PhaseInv, Phase!Close, UNCHANGED stray PROVE PhaseInv'
  <1>1. /\ PhaseTypeOK /\ SlotHeld /\ dispatcher.at = "watching" /\ dispatcher.job \in Phase!Jobs
        /\ ~Phase!Alive(dispatcher.job)
    BY DEF PhaseInv, SlotHeld, Phase!Close
  <1> PICK j \in Phase!Jobs : j = dispatcher.job
    BY <1>1
  <1>2. row[j] \in PhaseRows /\ JobSound(j)
    BY <1>1 DEF PhaseInv, PhaseTypeOK
  <1>3. /\ dispatcher'.at = "idle" /\ UNCHANGED <<disk, log, worker, driver>>
        /\ dispatcher' \in [at : {"idle", "claimed", "watching", "gone"},
                            job : Phase!Jobs \cup {Phase!NoJob}, stop : BOOLEAN]
    <2> DEFINE e == [dispatcher EXCEPT !.at = "idle"]
    <2>1. e \in [at : {"idle", "claimed", "watching", "gone"}, job : Phase!Jobs \cup {Phase!NoJob},
                 stop : BOOLEAN] /\ e.at = "idle"
      BY <1>1 DEF PhaseTypeOK
    <2>2. dispatcher' = [e EXCEPT !.job = Phase!NoJob]
      BY <1>1 DEF PhaseTypeOK, Phase!Close
    <2>3. UNCHANGED <<disk, log, worker, driver>>
      BY DEF Phase!Close
    <2> HIDE DEF e
    <2> QED BY <2>1, <2>2, <2>3
  <1>4. Undisturbed => Undisturbed'
    BY <1>3 DEF Undisturbed
  <1>5. CASE ~Phase!Owns(j)
    <2>1. UNCHANGED row
      BY <1>5 DEF Phase!Close
    <2>2. PhaseTypeOK' /\ SlotHeld'
      BY <1>1, <1>3, <2>1 DEF PhaseTypeOK, SlotHeld, Phase!Alive
    <2>3. Steady(j) /\ JobSound(j)'
      BY <1>1, <1>2, <1>3, <2>1, SteadySame DEF JobSound, Owed
    <2> QED BY <1>1, <1>3, <1>4, <2>1, <2>2, <2>3, DispatcherChange
  <1>6. CASE Phase!Owns(j)
    <2>1. PICK s \in {"interrupted", "failed"} : Phase!Final(j, s)
      BY <1>6 DEF Phase!Close
    <2>2. /\ row' \in [Phase!Jobs -> PhaseRows]
          /\ \A i \in Phase!Jobs : i # j => row'[i] = row[i]
          /\ row'[j].status = s /\ row'[j].attempt = row[j].attempt
      BY <1>1, <2>1, FinalRow
    <2>3. PhaseTypeOK'
      BY <1>1, <1>3, <2>2 DEF PhaseTypeOK
    <2>4. row[j].status \in Phase!Active /\ s \notin Phase!Active /\ s \notin Phase!Pending \cup {"running"}
      BY <1>6 DEF Phase!Owns, Phase!Active, Phase!Pending
    <2>5. SlotHeld'
      BY <1>1, <1>3, <2>2, <2>4 DEF SlotHeld, Phase!Alive
    <2>6. row[j].attempt \in Nat /\ disk[j].logged \in Int
      BY <1>1, <1>2 DEF PhaseRows, PhaseTypeOK, Transitions
    <2>7. Owed(row'[j]) = row[j].attempt /\ Owed(row[j]) = row[j].attempt /\ Owed(row[j])' = Owed(row'[j])
      BY <2>2, <2>4 DEF Owed, Phase!Active
    <2>8. Steady(j)
      BY <1>3, <2>2, <2>4, <2>6, <2>7 DEF Steady, Phase!Active
    <2>9. JobSound(j)'
      BY <1>2, <1>3, <2>2, <2>4, <2>7 DEF JobSound
    <2> QED BY <1>1, <1>3, <1>4, <2>2, <2>3, <2>5, <2>8, <2>9, DispatcherChange
  <1> QED BY <1>5, <1>6

LEMMA LeaveKeeps == ASSUME PhaseInv, Phase!Leave, UNCHANGED stray PROVE PhaseInv'
  <1>1. PhaseTypeOK /\ UNCHANGED <<row, disk, log, worker, driver>>
    BY DEF PhaseInv, Phase!Leave
  <1>2. /\ dispatcher'.at = "gone"
        /\ dispatcher' \in [at : {"idle", "claimed", "watching", "gone"},
                            job : Phase!Jobs \cup {Phase!NoJob}, stop : BOOLEAN]
    <2> DEFINE e == [dispatcher EXCEPT !.at = "gone"]
    <2>1. e \in [at : {"idle", "claimed", "watching", "gone"}, job : Phase!Jobs \cup {Phase!NoJob},
                 stop : BOOLEAN] /\ e.at = "gone"
      BY <1>1 DEF PhaseTypeOK
    <2>2. dispatcher' = [e EXCEPT !.job = Phase!NoJob]
      BY <1>1 DEF PhaseTypeOK, Phase!Leave
    <2> HIDE DEF e
    <2> QED BY <2>1, <2>2
  <1>3. PhaseTypeOK' /\ SlotHeld'
    BY <1>1, <1>2 DEF PhaseInv, PhaseTypeOK, SlotHeld, Phase!Alive
  <1>4. \A j \in Phase!Jobs : Steady(j)
    BY <1>1, SteadySame
  <1>5. \A j \in Phase!Jobs : JobSound(j)'
    BY <1>1 DEF PhaseInv, JobSound, Owed
  <1>6. PlaceSound'
    <2>1. Undisturbed => Undisturbed'
      BY <1>1 DEF Undisturbed
    <2> QED BY <1>1, <1>2, <1>3, <1>4, <2>1, SteadyPlace DEF PhaseInv
  <1> QED BY <1>3, <1>5, <1>6 DEF PhaseInv

LEMMA DispatchKeeps == ASSUME PhaseInv, Phase!Dispatch PROVE PhaseInv'
  BY ClaimKeeps, LaunchKeeps, CloseKeeps, LeaveKeeps DEF Phase!Dispatch

-----------------------------------------------------------------------------
(* The driver of the verification itself.                                  *)

\* The places, spelled out.
LEMMA Places ==
    /\ OnceVerified = {"verified", "leave", "done"}
    /\ OnceProven = {"select", "held-out", "verified", "leave", "done"}
    /\ OnceTrained = {"evidence", "select", "held-out", "verified", "leave", "done"}
    /\ OnceSeen = {"fence", "release", "resume", "restart", "matrix", "evidence", "select", "held-out",
                   "verified", "leave", "done"}
    /\ OncePicked = {"stop", "join", "checkpoint", "transitions", "fence", "release", "resume",
                     "restart", "matrix", "evidence", "select", "held-out", "verified", "leave", "done"}
    /\ NothingHeldOut = {"launch", "active", "stop", "join", "checkpoint", "transitions", "fence",
                         "release", "resume", "restart", "matrix", "evidence", "select"}
    /\ DriverPlaces = {"launch", "active", "clean up", "cancel", "stop", "join", "checkpoint",
                       "transitions", "fence", "release", "resume", "restart", "matrix", "evidence",
                       "select", "held-out", "verified", "leave", "done", "quit", "failed"}
  BY DEF OnceVerified, OnceProven, OnceTrained, OnceSeen, OncePicked, BeforeRelease, FirstAttempts, NothingHeldOut,
         GivenUp, DriverPlaces

DriverType ==
    [pc : DriverPlaces, picked : Phase!Jobs \cup {Phase!NoJob}, seen : Int, todo : SUBSET Phase!Jobs]

\* Steps of the driver that leave the jobs alone.
LEMMA JobsUnmoved ==
    ASSUME PhaseInv, UNCHANGED <<row, disk, log, worker, stray>>, PhaseTypeOK',
           dispatcher'.at \in {"idle", "gone"}
             \/ (dispatcher'.at = dispatcher.at /\ dispatcher'.job = dispatcher.job),
           PlaceSound'
    PROVE  PhaseInv'
  <1>1. SlotHeld'
    BY DEF PhaseInv, SlotHeld, Phase!Alive
  <1>2. \A j \in Phase!Jobs : JobSound(j)'
    BY DEF PhaseInv, JobSound, Owed
  <1> QED BY <1>1, <1>2 DEF PhaseInv

\* Steps that only go on to another place.
LEMMA DriverGoes ==
    ASSUME PhaseInv, UNCHANGED <<row, disk, log, worker, stray, dispatcher>>, NEW p \in DriverPlaces,
           driver' = [driver EXCEPT !.pc = p], PlaceSound'
    PROVE  PhaseInv'
  <1>1. PhaseTypeOK'
    BY DEF PhaseInv, PhaseTypeOK
  <1> QED BY <1>1, JobsUnmoved

\* What the driver relies on at the next place it has to know at this one, or to find.
LEMMA PlaceMove ==
    ASSUME PhaseTypeOK, PlaceSound, UNCHANGED <<row, disk, log, worker, stray>>,
           NEW b \in DriverPlaces, driver' = [driver EXCEPT !.pc = b], b \notin {"launch", "cancel"},
           b \in BeforeRelease => driver.pc \in BeforeRelease,
           b \in FirstAttempts => driver.pc \in FirstAttempts,
           b \in NothingHeldOut => driver.pc \in NothingHeldOut,
           b \in OncePicked => driver.pc \in OncePicked,
           b \in NoDispatcher => dispatcher'.at = "gone",
           b = "transitions" => disk[driver.picked].logged > 0,
           b = "resume" => row[driver.picked].status = "interrupted",
           b \in OnceSeen => driver.pc \in OnceSeen,
           b \in OnceTrained =>
                driver.pc \in OnceTrained \/ \A j \in Runs : row[j].status = "completed",
           b \in OnceProven =>
                \/ driver.pc \in OnceProven
                \/ 2 \in log[driver.picked].started /\ log[driver.picked].resumed >= driver.seen,
           b \in GivenUp =>
                \/ driver.pc \in GivenUp
                \/ \A j \in Phase!Jobs : row[j].status \notin Phase!Pending \cup {"running"}
    PROVE  PlaceSound'
  <1>1. driver'.pc = b /\ UNCHANGED <<driver.picked, driver.seen, driver.todo>>
    BY DEF PhaseTypeOK
  <1>2. \A j \in Runs : Owed(row[j])' = Owed(row[j])
    BY DEF Owed
  <1>3. Undisturbed' <=> Undisturbed
    BY DEF Undisturbed
  <1> QED BY <1>1, <1>2, <1>3 DEF PlaceSound, Phase!Held

\* A driver that cleans up relies on nothing.
LEMMA GivingUp ==
    ASSUME PhaseTypeOK, driver' = [driver EXCEPT !.pc = "clean up"]
    PROVE  PlaceSound' /\ driver' \in DriverType
  <1>1. driver \in DriverType
    BY DEF PhaseTypeOK, DriverType
  <1>2. driver'.pc = "clean up" /\ driver' \in DriverType
    BY <1>1, Places DEF DriverType
  <1>3. /\ driver'.pc \notin BeforeRelease
        /\ driver'.pc \notin FirstAttempts /\ driver'.pc \notin NothingHeldOut
        /\ driver'.pc \notin OncePicked /\ driver'.pc \notin NoDispatcher /\ driver'.pc \notin OnceSeen
        /\ driver'.pc \notin OnceTrained /\ driver'.pc \notin OnceProven /\ driver'.pc \notin GivenUp
        /\ driver'.pc \notin {"launch", "transitions", "resume", "cancel"}
    <2>1. \A p \in {"clean up"} :
            /\ p \notin BeforeRelease
            /\ p \notin FirstAttempts /\ p \notin NothingHeldOut /\ p \notin OncePicked
            /\ p \notin NoDispatcher /\ p \notin OnceSeen /\ p \notin OnceTrained
            /\ p \notin OnceProven /\ p \notin GivenUp
            /\ p \notin {"launch", "transitions", "resume", "cancel"}
      BY Places DEF BeforeRelease, FirstAttempts, NoDispatcher, GivenUp
    <2> QED BY <1>2, <2>1
  <1>4. PlaceSound'
    BY <1>3 DEF PlaceSound
  <1> QED BY <1>2, <1>4

LEMMA LaunchMatrixKeeps == ASSUME PhaseInv, Phase!LaunchMatrix, UNCHANGED stray PROVE PhaseInv'
  <1> USE PhaseJobs
  <1> DEFINE x(j) == IF j \in Runs THEN [row[j] EXCEPT !.status = "queued"] ELSE row[j]
  <1>1. /\ PhaseTypeOK /\ driver.pc = "launch"
        /\ \A j \in Phase!Jobs : row[j].status = "absent" /\ row[j].attempt = 0
    BY DEF PhaseInv, PlaceSound, Phase!LaunchMatrix, Phase!At
  <1>2. /\ row' = [j \in Phase!Jobs |-> x(j)] /\ driver' = [driver EXCEPT !.pc = "active"]
        /\ UNCHANGED <<disk, log, worker, dispatcher>>
    BY DEF Phase!LaunchMatrix, Phase!Goto
  <1>3. \A j \in Phase!Jobs : /\ x(j) \in PhaseRows /\ x(j).attempt = 0
                              /\ x(j).status = IF j \in Runs THEN "queued" ELSE "absent"
    <2> TAKE j \in Phase!Jobs
    <2>1. row[j] \in PhaseRows
      BY <1>1 DEF PhaseTypeOK
    <2> QED BY <1>1, <2>1 DEF PhaseRows
  <1> HIDE DEF x
  <1>4. driver'.pc = "active" /\ driver' \in DriverType
    BY <1>1, <1>2, Places DEF PhaseTypeOK, DriverType
  <1>5. PhaseTypeOK'
    BY <1>1, <1>2, <1>3, <1>4 DEF PhaseTypeOK, DriverType
  <1>6. \A j \in Phase!Jobs : ~Phase!Alive(j)
    BY <1>1 DEF PhaseInv, SlotHeld, Phase!Active
  <1>7. dispatcher.at # "claimed"
    BY <1>1 DEF PhaseInv, SlotHeld, Phase!Active
  <1>8. SlotHeld'
    BY <1>2, <1>3, <1>6, <1>7 DEF PhaseInv, SlotHeld, Phase!Alive, Phase!Active
  <1>9. \A j \in Phase!Jobs : Owed(row[j])' <= 1 /\ Owed(row[j])' \in Nat
    BY <1>2, <1>3 DEF Owed
  <1>10. ASSUME NEW j \in Phase!Jobs PROVE JobSound(j)'
    <2>1. row'[j].status \in {"queued", "absent"} /\ row'[j].attempt = row[j].attempt
      BY <1>1, <1>2, <1>3
    <2>2. Owed(row[j])' <= 3
      BY <1>9
    <2> QED BY <1>2, <2>1, <2>2 DEF PhaseInv, JobSound, Phase!Active
  <1>11. row'[Phase!Held].status = "absent"
    BY <1>2, <1>3
  <1>12. Undisturbed'
    <2>1. driver.pc \in BeforeRelease
      BY <1>1 DEF BeforeRelease
    <2> QED BY <1>2, <2>1 DEF PhaseInv, PlaceSound, Undisturbed
  <1>13. PlaceSound'
    BY <1>4, <1>9, <1>11, <1>12, Places DEF PlaceSound, BeforeRelease, FirstAttempts, NoDispatcher, GivenUp, Phase!Held
  <1> QED BY <1>5, <1>8, <1>10, <1>13 DEF PhaseInv

\* Shutting a dispatcher down, and waiting for it.
ShutdownMoves(a, b) ==
    \/ a = "stop" /\ b = "join"
    \/ a = "verified" /\ b = "leave"
    \/ a = "cancel" /\ b = "quit"

JoinMoves(a, b) ==
    \/ a = "join" /\ b = "checkpoint"
    \/ a = "leave" /\ b = "done"
    \/ a = "quit" /\ b = "failed"

LEMMA ShutdownKeeps == ASSUME PhaseInv, Phase!Shutdown, UNCHANGED stray PROVE PhaseInv'
  <1>1. PhaseTypeOK /\ PlaceSound
    BY DEF PhaseInv
  <1>2. PICK b \in DriverPlaces :
            /\ driver' = [driver EXCEPT !.pc = b] /\ UNCHANGED <<row, disk, log, worker>>
            /\ driver.pc = "cancel" => driver.todo = {}
            /\ \/ ShutdownMoves(driver.pc, b) /\ dispatcher' = [dispatcher EXCEPT !.stop = TRUE]
               \/ JoinMoves(driver.pc, b) /\ UNCHANGED dispatcher /\ dispatcher.at = "gone"
    BY Places DEF Phase!Shutdown, Phase!Stop, Phase!Join, Phase!At, Phase!Goto, Phase!Unmoved,
                  ShutdownMoves, JoinMoves
  <1>3. ShutdownMoves(driver.pc, b) \/ JoinMoves(driver.pc, b)
    BY <1>2
  <1>4. /\ b \in FirstAttempts => driver.pc \in FirstAttempts
        /\ b \in NothingHeldOut => driver.pc \in NothingHeldOut
        /\ b \in OncePicked => driver.pc \in OncePicked
        /\ b \in OnceSeen => driver.pc \in OnceSeen
        /\ b \in OnceTrained => driver.pc \in OnceTrained
        /\ b \in OnceProven => driver.pc \in OnceProven
        /\ b \in BeforeRelease => driver.pc \in BeforeRelease
        /\ b \in GivenUp => driver.pc \in GivenUp \/ driver.pc = "cancel"
        /\ b \notin {"launch", "cancel", "transitions", "resume"}
        /\ b \in NoDispatcher => b = "checkpoint"
    BY <1>3, Places DEF ShutdownMoves, JoinMoves, BeforeRelease, FirstAttempts, NoDispatcher, GivenUp
  <1>5. b = "checkpoint" => dispatcher'.at = "gone"
    BY <1>2 DEF ShutdownMoves
  <1>6. driver.pc = "cancel" => \A j \in Phase!Jobs : row[j].status \notin Phase!Pending \cup {"running"}
    BY <1>1, <1>2 DEF PlaceSound
  <1>7. PlaceSound'
    BY <1>1, <1>2, <1>4, <1>5, <1>6, PlaceMove
  <1>8. PhaseTypeOK' /\ dispatcher'.at = dispatcher.at /\ dispatcher'.job = dispatcher.job
    BY <1>1, <1>2 DEF PhaseTypeOK
  <1> QED BY <1>2, <1>7, <1>8, JobsUnmoved

LEMMA CleaningUp ==
    ASSUME PhaseInv, driver' = [driver EXCEPT !.pc = "clean up"],
           UNCHANGED <<row, disk, log, worker, stray, dispatcher>>
    PROVE  PhaseInv'
  <1>1. PlaceSound'
    BY GivingUp DEF PhaseInv
  <1> QED BY <1>1, Places, DriverGoes

\* A running job that is seen is one of the matrix.
LEMMA SeeWorkerKeeps ==
    ASSUME PhaseInv, NEW j \in Phase!Jobs, Phase!SeeWorker(j), UNCHANGED stray
    PROVE  PhaseInv'
  <1>1. /\ PhaseTypeOK /\ PlaceSound /\ driver.pc = "active" /\ row[j].status = "running"
        /\ driver' = [driver EXCEPT !.pc = "stop", !.picked = j]
        /\ UNCHANGED <<row, disk, log, worker, dispatcher>>
    BY DEF PhaseInv, Phase!SeeWorker, Phase!At, Phase!Unmoved
  <1>2. /\ "active" \in BeforeRelease /\ "active" \in FirstAttempts /\ "active" \in NothingHeldOut
        /\ "stop" \notin NoDispatcher /\ "stop" \notin OnceSeen /\ "stop" \notin OnceTrained
        /\ "stop" \notin OnceProven /\ "stop" \notin GivenUp /\ "stop" \in DriverPlaces
    BY Places DEF BeforeRelease, FirstAttempts, NoDispatcher, GivenUp
  <1>3. row[Phase!Held].status = "absent" /\ j \in Runs
    BY <1>1, <1>2, PhaseJobs DEF PlaceSound
  <1>4. driver' \in DriverType /\ driver'.pc = "stop" /\ driver'.picked = j
    <2> DEFINE e == [driver EXCEPT !.pc = "stop"]
    <2>1. e \in DriverType /\ e.pc = "stop"
      BY <1>1, <1>2 DEF PhaseTypeOK, DriverType
    <2>2. driver' = [e EXCEPT !.picked = j]
      BY <1>1 DEF PhaseTypeOK
    <2> HIDE DEF e
    <2> QED BY <2>1, <2>2 DEF DriverType
  <1>5. PhaseTypeOK'
    BY <1>1, <1>4 DEF PhaseTypeOK, DriverType
  <1>6. \A i \in Runs : Owed(row[i])' = Owed(row[i]) /\ Owed(row[i]) <= 1
    BY <1>1, <1>2 DEF PlaceSound, Owed
  <1>7. Undisturbed'
    BY <1>1, <1>2 DEF PlaceSound, Undisturbed
  <1>8. PlaceSound'
    BY <1>1, <1>2, <1>3, <1>4, <1>6, <1>7 DEF PlaceSound, Phase!Held
  <1> QED BY <1>1, <1>5, <1>8, JobsUnmoved

LEMMA SeeCheckpointKeeps == ASSUME PhaseInv, Phase!SeeCheckpoint, UNCHANGED stray PROVE PhaseInv'
  <1>1. /\ PhaseTypeOK /\ PlaceSound /\ driver.pc = "checkpoint"
        /\ UNCHANGED <<row, disk, log, worker, dispatcher>>
        /\ \/ disk[driver.picked].logged > 0 /\ driver' = [driver EXCEPT !.pc = "transitions"]
           \/ driver' = [driver EXCEPT !.pc = "clean up"]
    BY DEF PhaseInv, Phase!SeeCheckpoint, Phase!At, Phase!Goto, Phase!Unmoved
  <1>2. CASE disk[driver.picked].logged > 0 /\ driver' = [driver EXCEPT !.pc = "transitions"]
    <2>1. \A a \in {"checkpoint"}, b \in {"transitions"} :
            /\ b \in DriverPlaces /\ b \notin {"launch", "cancel", "resume"}
            /\ a \in BeforeRelease /\ a \in FirstAttempts /\ a \in NothingHeldOut /\ a \in OncePicked /\ a \in NoDispatcher
            /\ b \notin OnceSeen /\ b \notin OnceTrained /\ b \notin OnceProven /\ b \notin GivenUp
      BY Places DEF BeforeRelease, FirstAttempts, NoDispatcher, GivenUp
    <2>2. dispatcher'.at = "gone"
      BY <1>1, <2>1 DEF PlaceSound
    <2>3. PlaceSound'
      BY <1>1, <1>2, <2>1, <2>2, PlaceMove
    <2> QED BY <1>1, <1>2, <2>1, <2>3, DriverGoes
  <1>3. CASE driver' = [driver EXCEPT !.pc = "clean up"]
    BY <1>1, <1>3, CleaningUp
  <1> QED BY <1>1, <1>2, <1>3

\* What was published when it is read again is no less than when it was polled.
LEMMA ReadTransitionsKeeps == ASSUME PhaseInv, Phase!ReadTransitions, UNCHANGED stray PROVE PhaseInv'
  <1>1. /\ PhaseTypeOK /\ PlaceSound /\ driver.pc = "transitions"
        /\ UNCHANGED <<row, disk, log, worker, dispatcher>>
        /\ driver' = [driver EXCEPT !.pc = "fence", !.seen = disk[driver.picked].logged]
    BY DEF PhaseInv, Phase!ReadTransitions, Phase!At, Phase!Unmoved
  <1>2. \A a \in {"transitions"}, b \in {"fence"} :
            /\ b \in DriverPlaces /\ b \notin {"launch", "cancel", "resume", "transitions"}
            /\ a \in BeforeRelease /\ a \in FirstAttempts /\ a \in NothingHeldOut /\ a \in OncePicked /\ a \in NoDispatcher
            /\ b \notin OnceTrained /\ b \notin OnceProven /\ b \notin GivenUp
    BY Places DEF BeforeRelease, FirstAttempts, NoDispatcher, GivenUp
  <1>3. driver.picked \in Runs /\ driver.picked \in Phase!Jobs /\ disk[driver.picked].logged > 0
    BY <1>1, <1>2, PhaseJobs DEF PlaceSound
  <1>4. disk[driver.picked].logged \in Int
    BY <1>1, <1>3 DEF PhaseTypeOK, Transitions
  <1>5. /\ driver' \in DriverType /\ driver'.pc = "fence" /\ driver'.picked = driver.picked
        /\ driver'.seen = disk[driver.picked].logged
    <2> DEFINE e == [driver EXCEPT !.pc = "fence"]
    <2>1. e \in DriverType /\ e.pc = "fence" /\ e.picked = driver.picked
      BY <1>1, <1>2 DEF PhaseTypeOK, DriverType
    <2>2. driver' = [e EXCEPT !.seen = disk[driver.picked].logged]
      BY <1>1 DEF PhaseTypeOK
    <2> HIDE DEF e
    <2> QED BY <1>4, <2>1, <2>2 DEF DriverType
  <1>6. PhaseTypeOK'
    BY <1>1, <1>5 DEF PhaseTypeOK, DriverType
  <1>7. \A i \in Runs : Owed(row[i])' = Owed(row[i]) /\ Owed(row[i]) <= 1
    BY <1>1, <1>2 DEF PlaceSound, Owed
  <1>8. dispatcher'.at = "gone" /\ row'[Phase!Held].status = "absent"
    BY <1>1, <1>2 DEF PlaceSound
  <1>9. Undisturbed'
    BY <1>1, <1>2 DEF PlaceSound, Undisturbed
  <1>10. PlaceSound'
    BY <1>1, <1>2, <1>3, <1>5, <1>7, <1>8, <1>9 DEF PlaceSound, Phase!Held
  <1> QED BY <1>1, <1>6, <1>10, JobsUnmoved

\* A new dispatcher.
LEMMA RestartKeeps == ASSUME PhaseInv, Phase!Restart, UNCHANGED stray PROVE PhaseInv'
  <1>1. /\ PhaseTypeOK /\ PlaceSound /\ driver.pc = "restart"
        /\ UNCHANGED <<row, disk, log, worker>> /\ driver' = [driver EXCEPT !.pc = "matrix"]
        /\ dispatcher' = [at |-> "idle", job |-> Phase!NoJob, stop |-> FALSE]
    BY DEF PhaseInv, Phase!Restart, Phase!At, Phase!Goto
  <1>2. \A a \in {"restart"}, b \in {"matrix"} :
            /\ b \in DriverPlaces /\ b \notin {"launch", "cancel", "resume", "transitions"}
            /\ b \notin BeforeRelease /\ b \notin FirstAttempts /\ a \in NothingHeldOut /\ a \in OncePicked /\ a \in OnceSeen
            /\ b \notin NoDispatcher /\ b \notin OnceTrained /\ b \notin OnceProven /\ b \notin GivenUp
    BY Places DEF BeforeRelease, FirstAttempts, NoDispatcher, GivenUp
  <1>3. PlaceSound'
    BY <1>1, <1>2, PlaceMove
  <1>4. PhaseTypeOK'
    BY <1>1, <1>2 DEF PhaseTypeOK
  <1> QED BY <1>1, <1>3, <1>4, JobsUnmoved

\* The interrupted run was started a second time and resumed what had been seen of it.
LEMMA CompleteEvidenceKeeps == ASSUME PhaseInv, Phase!CompleteEvidence, UNCHANGED stray PROVE PhaseInv'
  <1>1. /\ PhaseTypeOK /\ PlaceSound /\ driver.pc = "evidence"
        /\ UNCHANGED <<row, disk, log, worker, dispatcher>>
        /\ \/ Phase!Proven(driver.picked) /\ driver' = [driver EXCEPT !.pc = "select"]
           \/ driver' = [driver EXCEPT !.pc = "clean up"]
    BY DEF PhaseInv, Phase!CompleteEvidence, Phase!At, Phase!Goto, Phase!Unmoved
  <1>2. CASE Phase!Proven(driver.picked) /\ driver' = [driver EXCEPT !.pc = "select"]
    <2>1. \A a \in {"evidence"}, b \in {"select"} :
            /\ b \in DriverPlaces /\ b \notin {"launch", "cancel", "resume", "transitions"}
            /\ b \notin BeforeRelease /\ b \notin FirstAttempts /\ a \in NothingHeldOut /\ a \in OncePicked /\ a \in OnceSeen
            /\ b \notin NoDispatcher /\ a \in OnceTrained /\ b \notin GivenUp
      BY Places DEF BeforeRelease, FirstAttempts, NoDispatcher, GivenUp
    <2>2. 2 \in log[driver.picked].started /\ log[driver.picked].resumed >= driver.seen
      BY <1>2 DEF Phase!Proven
    <2>3. PlaceSound'
      BY <1>1, <1>2, <2>1, <2>2, PlaceMove
    <2> QED BY <1>1, <1>2, <2>1, <2>3, DriverGoes
  <1>3. CASE driver' = [driver EXCEPT !.pc = "clean up"]
    BY <1>1, <1>3, CleaningUp
  <1> QED BY <1>1, <1>2, <1>3

LEMMA SeeHeldOutKeeps == ASSUME PhaseInv, Phase!SeeHeldOut, UNCHANGED stray PROVE PhaseInv'
  <1>1. /\ PhaseTypeOK /\ PlaceSound /\ driver.pc = "held-out"
        /\ UNCHANGED <<row, disk, log, worker, dispatcher>>
        /\ \/ driver' = [driver EXCEPT !.pc = "verified"]
           \/ driver' = [driver EXCEPT !.pc = "clean up"]
    BY DEF PhaseInv, Phase!SeeHeldOut, Phase!At, Phase!Goto, Phase!Unmoved
  <1>2. CASE driver' = [driver EXCEPT !.pc = "verified"]
    <2>1. \A a \in {"held-out"}, b \in {"verified"} :
            /\ b \in DriverPlaces /\ b \notin {"launch", "cancel", "resume", "transitions"}
            /\ b \notin BeforeRelease /\ b \notin FirstAttempts /\ b \notin NothingHeldOut /\ a \in OncePicked /\ a \in OnceSeen
            /\ b \notin NoDispatcher /\ a \in OnceTrained /\ a \in OnceProven /\ b \notin GivenUp
      BY Places DEF BeforeRelease, FirstAttempts, NoDispatcher, GivenUp
    <2>2. PlaceSound'
      BY <1>1, <1>2, <2>1, PlaceMove
    <2> QED BY <1>1, <1>2, <2>1, <2>2, DriverGoes
  <1>3. CASE driver' = [driver EXCEPT !.pc = "clean up"]
    BY <1>1, <1>3, CleaningUp
  <1> QED BY <1>1, <1>2, <1>3

\* What is incomplete is read once, and only becomes less.
LEMMA CleanUpKeeps == ASSUME PhaseInv, Phase!CleanUp, UNCHANGED stray PROVE PhaseInv'
  <1> DEFINE rest == {j \in Phase!Jobs : Phase!Incomplete(row[j].status)}
  <1>1. /\ PhaseTypeOK /\ UNCHANGED <<row, disk, log, worker, dispatcher>>
        /\ driver' = [pc |-> "cancel", picked |-> Phase!NoJob, seen |-> -1, todo |-> rest]
    BY DEF PhaseInv, Phase!CleanUp, Phase!Unmoved
  <1>2. \A b \in {"cancel"} :
            /\ b \in DriverPlaces /\ b \notin {"launch", "resume", "transitions"}
            /\ b \notin BeforeRelease /\ b \notin FirstAttempts /\ b \notin NothingHeldOut /\ b \notin OncePicked /\ b \notin OnceSeen
            /\ b \notin NoDispatcher /\ b \notin OnceTrained /\ b \notin OnceProven /\ b \notin GivenUp
    BY Places DEF BeforeRelease, FirstAttempts, NoDispatcher, GivenUp
  <1>3. driver' \in DriverType /\ driver'.pc = "cancel" /\ driver'.todo = rest
    <2>1. rest \in SUBSET Phase!Jobs
      OBVIOUS
    <2> HIDE DEF rest
    <2> QED BY <1>1, <1>2, <2>1 DEF DriverType
  <1>4. \A j \in Phase!Jobs : row'[j].status \in Phase!Pending \cup {"running"} => j \in rest
    BY <1>1 DEF Phase!Incomplete, Phase!Quiescent, Phase!Pending
  <1> HIDE DEF rest
  <1>5. PhaseTypeOK'
    BY <1>1, <1>3 DEF PhaseTypeOK, DriverType
  <1>6. PlaceSound'
    BY <1>2, <1>3, <1>4 DEF PlaceSound
  <1> QED BY <1>1, <1>5, <1>6, JobsUnmoved

\* Steps of the driver that change rows, and at most end workers.
LEMMA JobsMoved ==
    ASSUME PhaseInv, UNCHANGED <<disk, log, dispatcher>>, PhaseTypeOK', PlaceSound',
           \A j \in Phase!Jobs :
                /\ row'[j].status \in Phase!Active => row[j].status \in Phase!Active
                /\ worker'[j].at # "none" => worker[j].at # "none" /\ row'[j].status \in Phase!Active
                /\ row'[j].status = "completed" => row[j].status = "completed"
                /\ row'[j].attempt = row[j].attempt
                /\ j \in Runs => Owed(row'[j]) <= 3
                /\ stray'.job = j =>
                    stray.job = j \/ (row[j].attempt >= 1 /\ row'[j].status \notin Phase!Active),
           dispatcher.at = "claimed" => row'[dispatcher.job].status \in Phase!Active
    PROVE  PhaseInv'
  <1>1. SlotHeld'
    BY DEF PhaseInv, SlotHeld, Phase!Alive
  <1>2. ASSUME NEW j \in Phase!Jobs PROVE JobSound(j)'
    <2>1. Owed(row[j])' = Owed(row'[j])
      BY DEF Owed
    <2> QED BY <2>1 DEF PhaseInv, JobSound
  <1> QED BY <1>1, <1>2 DEF PhaseInv

\* What a resumption does to the rows.
LEMMA ResumeRows ==
    ASSUME PhaseTypeOK, NEW js, row' = Phase!Resume(js)
    PROVE  /\ row' \in [Phase!Jobs -> PhaseRows]
           /\ \A j \in Phase!Jobs :
                /\ j \notin js => row'[j] = row[j]
                /\ j \in js => row'[j].status = "resuming" /\ row'[j].attempt = row[j].attempt
  <1> DEFINE a(j) == [row[j] EXCEPT !.status = "resuming"]
             b(j) == [a(j) EXCEPT !.token = "none"]
             c(j) == [b(j) EXCEPT !.known = FALSE]
  <1>1. ASSUME NEW j \in Phase!Jobs
        PROVE  /\ [row[j] EXCEPT !.status = "resuming", !.token = "none", !.known = FALSE] = c(j)
               /\ c(j) \in PhaseRows /\ c(j).status = "resuming" /\ c(j).attempt = row[j].attempt
               /\ row[j] \in PhaseRows
    <2>1. row[j] \in PhaseRows
      BY DEF PhaseTypeOK
    <2>2. a(j) \in PhaseRows /\ a(j).status = "resuming" /\ a(j).attempt = row[j].attempt
      BY <2>1 DEF PhaseRows
    <2>3. b(j) \in PhaseRows /\ b(j).status = "resuming" /\ b(j).attempt = row[j].attempt
      <3> HIDE DEF a
      <3> QED BY <2>2 DEF PhaseRows
    <2>4. c(j) \in PhaseRows /\ c(j).status = "resuming" /\ c(j).attempt = row[j].attempt
      <3> HIDE DEF b
      <3> QED BY <2>3 DEF PhaseRows
    <2>5. [row[j] EXCEPT !.status = "resuming", !.token = "none", !.known = FALSE] = c(j)
      BY <2>1 DEF PhaseRows
    <2> QED BY <2>1, <2>4, <2>5
  <1>2. row' = [j \in Phase!Jobs |-> IF j \in js THEN c(j) ELSE row[j]]
    BY <1>1 DEF Phase!Resume
  <1> HIDE DEF c
  <1> QED BY <1>1, <1>2

LEMMA FenceKeeps == ASSUME PhaseInv, Phase!Fence, UNCHANGED stray PROVE PhaseInv'
  <1> USE PhaseJobs
  <1>1. /\ PhaseTypeOK /\ PlaceSound /\ driver.pc = "fence"
        /\ UNCHANGED <<disk, log, worker, dispatcher>>
        /\ \/ /\ row' = [row EXCEPT ![driver.picked].token = "reaper"]
              /\ driver' = [driver EXCEPT !.pc = "release"]
           \/ UNCHANGED row /\ driver' = [driver EXCEPT !.pc = "clean up"]
    BY DEF PhaseInv, Phase!Fence, Phase!At, Phase!Goto
  <1>2. CASE /\ row' = [row EXCEPT ![driver.picked].token = "reaper"]
             /\ driver' = [driver EXCEPT !.pc = "release"]
    <2>1. \A a \in {"fence"}, b \in {"release"} :
            /\ b \in DriverPlaces /\ b \notin {"launch", "cancel", "resume", "transitions"}
            /\ a \in BeforeRelease /\ a \in FirstAttempts /\ a \in NothingHeldOut /\ a \in OncePicked /\ a \in NoDispatcher
            /\ a \in OnceSeen /\ b \notin OnceTrained /\ b \notin OnceProven /\ b \notin GivenUp
      BY Places DEF BeforeRelease, FirstAttempts, NoDispatcher, GivenUp
    <2>2. driver.picked \in Runs /\ driver.picked \in Phase!Jobs /\ driver.seen > 0 /\ dispatcher.at = "gone"
      BY <1>1, <2>1 DEF PlaceSound
    <2> DEFINE x == [row[driver.picked] EXCEPT !.token = "reaper"]
    <2>3. /\ row \in [Phase!Jobs -> PhaseRows] /\ row[driver.picked] \in PhaseRows
          /\ row' = [row EXCEPT ![driver.picked] = x]
      BY <1>1, <1>2, <2>2 DEF PhaseTypeOK
    <2>4. x \in PhaseRows /\ x.status = row[driver.picked].status /\ x.attempt = row[driver.picked].attempt
      BY <2>3 DEF PhaseRows
    <2> HIDE DEF x
    <2>5. /\ row' \in [Phase!Jobs -> PhaseRows]
          /\ \A j \in Phase!Jobs : row'[j].status = row[j].status /\ row'[j].attempt = row[j].attempt
      BY <2>3, <2>4
    <2>6. driver' \in DriverType /\ driver'.pc = "release" /\ UNCHANGED <<driver.picked, driver.seen>>
      BY <1>1, <1>2, <2>1 DEF PhaseTypeOK, DriverType
    <2>7. PhaseTypeOK'
      BY <1>1, <2>5, <2>6 DEF PhaseTypeOK, DriverType
    <2>8. \A j \in Runs : Owed(row[j])' = Owed(row[j]) /\ Owed(row'[j]) = Owed(row[j]) /\ Owed(row[j]) <= 1
      BY <1>1, <2>1, <2>5 DEF PlaceSound, Owed
    <2>9. row'[Phase!Held].status = "absent"
      BY <1>1, <2>1, <2>5 DEF PlaceSound
    <2>10. Undisturbed'
      BY <1>1, <2>1 DEF PlaceSound, Undisturbed
    <2>11. PlaceSound'
      BY <1>1, <2>1, <2>2, <2>6, <2>8, <2>9, <2>10 DEF PlaceSound, Phase!Held
    <2>12. \A j \in Runs : Owed(row'[j]) <= 3
      <3>1. \A j \in Runs : Owed(row'[j]) \in Nat
        BY <2>5 DEF Owed, PhaseRows
      <3> QED BY <2>8, <3>1
    <2>13. \A j \in Phase!Jobs : worker'[j].at # "none" => worker[j].at # "none" /\ row'[j].status \in Phase!Active
      BY <1>1, <2>5 DEF PhaseInv, SlotHeld, Phase!Alive
    <2> QED BY <1>1, <2>2, <2>5, <2>7, <2>11, <2>12, <2>13, JobsMoved
  <1>3. CASE UNCHANGED row /\ driver' = [driver EXCEPT !.pc = "clean up"]
    BY <1>1, <1>3, CleaningUp
  <1> QED BY <1>1, <1>2, <1>3

\* The fenced run is released with its worker.
LEMMA ReleaseKeeps == ASSUME PhaseInv, Phase!Release PROVE PhaseInv'
  <1> USE PhaseJobs
  <1>1. /\ PhaseTypeOK /\ PlaceSound /\ driver.pc = "release" /\ UNCHANGED <<disk, log, dispatcher>>
        /\ \/ /\ Phase!Final(driver.picked, "interrupted")
              /\ worker' = [worker EXCEPT ![driver.picked] = Phase!NoWorker]
              /\ driver' = [driver EXCEPT !.pc = "resume"]
              /\ \/ UNCHANGED stray
                 \/ /\ Phase!Alive(driver.picked)
                    /\ stray' = [job |-> driver.picked, next |-> Phase!LastCheckpoint(driver.picked)]
           \/ UNCHANGED <<row, worker, stray>> /\ driver' = [driver EXCEPT !.pc = "clean up"]
    BY DEF PhaseInv, Phase!Release, Phase!At, Phase!Goto, Phase!Gone
  <1>2. CASE /\ Phase!Final(driver.picked, "interrupted")
             /\ worker' = [worker EXCEPT ![driver.picked] = Phase!NoWorker]
             /\ driver' = [driver EXCEPT !.pc = "resume"]
             /\ \/ UNCHANGED stray
                \/ /\ Phase!Alive(driver.picked)
                   /\ stray' = [job |-> driver.picked, next |-> Phase!LastCheckpoint(driver.picked)]
    <2>1. \A a \in {"release"}, b \in {"resume"} :
            /\ b \in DriverPlaces /\ b \notin BeforeRelease /\ b \notin {"launch", "cancel", "transitions"}
            /\ a \in BeforeRelease /\ a \in FirstAttempts /\ a \in NothingHeldOut /\ a \in OncePicked /\ a \in NoDispatcher
            /\ a \in OnceSeen /\ b \notin OnceTrained /\ b \notin OnceProven /\ b \notin GivenUp
      BY Places DEF BeforeRelease, FirstAttempts, NoDispatcher, GivenUp
    <2>2. driver.picked \in Runs /\ driver.picked \in Phase!Jobs /\ driver.seen > 0 /\ dispatcher.at = "gone"
      BY <1>1, <2>1 DEF PlaceSound
    <2>3. /\ row' \in [Phase!Jobs -> PhaseRows]
          /\ \A i \in Phase!Jobs : i # driver.picked => row'[i] = row[i]
          /\ row'[driver.picked].status = "interrupted"
          /\ row'[driver.picked].attempt = row[driver.picked].attempt
      BY <1>1, <1>2, <2>2, FinalRow
    <2>4. driver' \in DriverType /\ driver'.pc = "resume" /\ UNCHANGED <<driver.picked, driver.seen>>
      BY <1>1, <1>2, <2>1 DEF PhaseTypeOK, DriverType
    <2>5. /\ stray' \in {Phase!NoStray} \cup [job : Phase!Jobs, next : Transitions]
           /\ \A j \in Phase!Jobs : stray'.job = j =>
                stray.job = j \/ (row[j].attempt >= 1 /\ row'[j].status \notin Phase!Active)
      <3>1. CASE UNCHANGED stray
        BY <1>1, <3>1 DEF PhaseTypeOK
      <3>2. CASE /\ Phase!Alive(driver.picked)
                 /\ stray' = [job |-> driver.picked, next |-> Phase!LastCheckpoint(driver.picked)]
        <4>1. Phase!LastCheckpoint(driver.picked) \in Transitions
          <5>1. worker[driver.picked].own \in Transitions
            BY <1>1, <2>2 DEF PhaseTypeOK, WorkerStates
          <5>2. \A n \in Transitions : n + 1 \in Transitions /\ -1 \in Transitions
            BY DEF Transitions
          <5> QED BY <5>1, <5>2 DEF Phase!LastCheckpoint
        <4>2. row[driver.picked].status \in Phase!Active /\ JobSound(driver.picked)
          BY <2>2, <3>2 DEF PhaseInv, SlotHeld
        <4>3. row[driver.picked].attempt >= 1
          BY <4>2 DEF JobSound
        <4>4. row'[driver.picked].status \notin Phase!Active
          BY <2>3 DEF Phase!Active
        <4>5. stray'.job = driver.picked /\ stray' \in [job : Phase!Jobs, next : Transitions]
          BY <2>2, <3>2, <4>1
        <4> QED BY <4>3, <4>4, <4>5
      <3> QED BY <1>2, <3>1, <3>2
    <2>6. PhaseTypeOK'
      BY <1>1, <1>2, <2>2, <2>3, <2>4, <2>5, NoWorkerTyped DEF PhaseTypeOK, DriverType
    <2>7. \A j \in Runs : Owed(row[j])' = Owed(row'[j])
      BY DEF Owed
    <2>8. \A j \in Runs : Owed(row'[j]) <= 1 /\ Owed(row'[j]) \in Nat
      <3> TAKE j \in Runs
      <3>1. row[j] \in PhaseRows /\ Owed(row[j]) <= 1
        BY <1>1, <2>1 DEF PhaseTypeOK, PlaceSound
      <3>2. row[j].attempt \in Nat /\ row[j].attempt <= 1
        BY <3>1 DEF PhaseRows, Owed
      <3>3. CASE j = driver.picked
        BY <2>3, <3>2, <3>3 DEF Owed
      <3>4. CASE j # driver.picked
        BY <2>3, <3>1, <3>2, <3>4 DEF Owed
      <3> QED BY <3>3, <3>4
    <2>9. row'[Phase!Held].status = "absent"
      BY <1>1, <2>1, <2>2, <2>3 DEF PlaceSound
    <2>10. PlaceSound'
      BY <1>1, <2>1, <2>2, <2>3, <2>4, <2>7, <2>8, <2>9 DEF PlaceSound, Phase!Held
    <2>11. \A j \in Runs : Owed(row'[j]) <= 3
      BY <2>8
    <2>12. \A j \in Phase!Jobs : IF j = driver.picked THEN worker'[j].at = "none" ELSE worker'[j] = worker[j]
      BY <1>1, <1>2, <2>2, NoWorkerTyped DEF PhaseTypeOK
    <2>13. \A j \in Phase!Jobs : worker'[j].at # "none" => worker[j].at # "none" /\ row'[j].status \in Phase!Active
      BY <2>3, <2>12 DEF PhaseInv, SlotHeld, Phase!Alive
    <2>14. \A j \in Phase!Jobs :
                /\ row'[j].status \in Phase!Active => row[j].status \in Phase!Active
                /\ row'[j].status = "completed" => row[j].status = "completed"
                /\ row'[j].attempt = row[j].attempt
      BY <2>3 DEF Phase!Active
    <2> QED BY <1>1, <2>2, <2>6, <2>10, <2>11, <2>13, <2>14, <2>5, JobsMoved
  <1>3. CASE UNCHANGED <<row, worker, stray>> /\ driver' = [driver EXCEPT !.pc = "clean up"]
    BY <1>1, <1>3, CleaningUp
  <1> QED BY <1>1, <1>2, <1>3

\* A stopped run without a worker is resumed.
LEMMA ResumptionMoves ==
    ASSUME PhaseInv, UNCHANGED <<disk, log, worker, stray, dispatcher>>, NEW js \in SUBSET Runs,
           row' = Phase!Resume(js), driver' \in DriverType, PlaceSound',
           \A j \in js : row[j].status = "interrupted" /\ row[j].attempt <= 2
    PROVE  PhaseInv'
  <1> USE PhaseJobs
  <1>1. PhaseTypeOK
    BY DEF PhaseInv
  <1>2. /\ row' \in [Phase!Jobs -> PhaseRows]
        /\ \A j \in Phase!Jobs :
            /\ j \notin js => row'[j] = row[j]
            /\ j \in js => row'[j].status = "resuming" /\ row'[j].attempt = row[j].attempt
    BY <1>1, ResumeRows
  <1>3. PhaseTypeOK'
    BY <1>1, <1>2 DEF PhaseTypeOK, DriverType
  <1>4. \A j \in Phase!Jobs : row[j].status \in Phase!Active => j \notin js
    BY DEF Phase!Active
  <1>5. \A j \in Phase!Jobs :
            /\ row'[j].status \in Phase!Active => row[j].status \in Phase!Active
            /\ worker'[j].at # "none" => worker[j].at # "none" /\ row'[j].status \in Phase!Active
            /\ row'[j].status = "completed" => row[j].status = "completed"
            /\ row'[j].attempt = row[j].attempt
    BY <1>2, <1>4 DEF PhaseInv, SlotHeld, Phase!Alive, Phase!Active
  <1>6. ASSUME NEW j \in Runs PROVE Owed(row'[j]) <= 3
    <2>1. row[j] \in PhaseRows /\ JobSound(j)
      BY <1>1 DEF PhaseInv, PhaseTypeOK
    <2>2. CASE j \in js
      <3>1. row[j].attempt \in Nat
        BY <2>1 DEF PhaseRows
      <3> QED BY <1>2, <2>2, <3>1 DEF Owed
    <2>3. CASE j \notin js
      BY <1>2, <2>1, <2>3 DEF JobSound
    <2> QED BY <2>2, <2>3
  <1>7. dispatcher.at = "claimed" => row'[dispatcher.job].status \in Phase!Active
    BY <1>2, <1>4 DEF PhaseInv, SlotHeld
  <1> QED BY <1>3, <1>5, <1>6, <1>7, JobsMoved

\* It is the first attempt that is resumed.
LEMMA ResumePickedKeeps == ASSUME PhaseInv, Phase!ResumePicked, UNCHANGED stray PROVE PhaseInv'
  <1> USE PhaseJobs
  <1>1. /\ PhaseTypeOK /\ PlaceSound /\ driver.pc = "resume"
        /\ UNCHANGED <<disk, log, worker, dispatcher>>
        /\ row' = Phase!Resume({driver.picked}) /\ driver' = [driver EXCEPT !.pc = "restart"]
    BY DEF PhaseInv, Phase!ResumePicked, Phase!At, Phase!Goto
  <1>2. \A a \in {"resume"}, b \in {"restart"} :
            /\ b \in DriverPlaces /\ b \notin {"launch", "cancel", "resume", "transitions"}
            /\ b \notin BeforeRelease /\ b \notin FirstAttempts /\ a \in FirstAttempts /\ a \in NothingHeldOut
            /\ a \in OncePicked /\ a \in NoDispatcher /\ a \in OnceSeen
            /\ b \notin OnceTrained /\ b \notin OnceProven /\ b \notin GivenUp
    BY Places DEF BeforeRelease, FirstAttempts, NoDispatcher, GivenUp
  <1>3. /\ driver.picked \in Runs /\ driver.picked \in Phase!Jobs /\ driver.seen > 0
        /\ dispatcher.at = "gone" /\ row[driver.picked].status = "interrupted"
        /\ Owed(row[driver.picked]) <= 1 /\ row[Phase!Held].status = "absent"
    BY <1>1, <1>2 DEF PlaceSound
  <1>4. row[driver.picked].attempt <= 2
    <2>1. row[driver.picked].attempt \in Nat
      BY <1>1, <1>3 DEF PhaseTypeOK, PhaseRows
    <2> QED BY <1>3, <2>1 DEF Owed
  <1>5. driver' \in DriverType /\ driver'.pc = "restart" /\ UNCHANGED <<driver.picked, driver.seen>>
    BY <1>1, <1>2 DEF PhaseTypeOK, DriverType
  <1>6. row'[Phase!Held].status = "absent"
    BY <1>1, <1>3, ResumeRows
  <1>7. PlaceSound'
    BY <1>1, <1>2, <1>3, <1>5, <1>6 DEF PlaceSound, Phase!Held
  <1> QED BY <1>1, <1>3, <1>4, <1>5, <1>7, ResumptionMoves

\* What is resumed while waiting has attempts left.
LEMMA PollMatrixKeeps == ASSUME PhaseInv, Phase!PollMatrix, UNCHANGED stray PROVE PhaseInv'
  <1> USE PhaseJobs
  <1> DEFINE lost == {j \in Runs : Phase!Lost(j)}
             again == {j \in Runs : Phase!Stopped(j) /\ \A i \in lost : j < i}
  <1>1. /\ PhaseTypeOK /\ PlaceSound /\ driver.pc = "matrix"
        /\ UNCHANGED <<disk, log, worker, dispatcher>>
        /\ \/ /\ \A j \in Runs : row[j].status = "completed"
              /\ driver' = [driver EXCEPT !.pc = "evidence"] /\ UNCHANGED row
           \/ row' = Phase!Resume(again) /\ driver' = [driver EXCEPT !.pc = "clean up"]
           \/ row' = Phase!Resume(again) /\ UNCHANGED driver
    BY DEF PhaseInv, Phase!PollMatrix, Phase!At, Phase!Goto
  <1>2. \A a \in {"matrix"}, b \in {"evidence"} :
            /\ b \in DriverPlaces /\ b \notin {"launch", "cancel", "resume", "transitions"}
            /\ a \notin {"launch", "cancel", "resume", "transitions"}
            /\ a \notin BeforeRelease /\ a \notin FirstAttempts /\ b \notin BeforeRelease /\ b \notin FirstAttempts /\ a \in NothingHeldOut
            /\ a \in OncePicked /\ a \in OnceSeen /\ a \notin NoDispatcher /\ b \notin NoDispatcher
            /\ a \notin OnceTrained /\ a \notin OnceProven /\ b \notin OnceProven
            /\ a \notin GivenUp /\ b \notin GivenUp
    BY Places DEF BeforeRelease, FirstAttempts, NoDispatcher, GivenUp
  <1>3. again \in SUBSET Runs
    OBVIOUS
  <1>4. ASSUME NEW j \in again PROVE row[j].status = "interrupted" /\ row[j].attempt <= 2
    <2>1. j \in Runs /\ Phase!Stopped(j) /\ (\A i \in lost : j < i)
      OBVIOUS
    <2>2. j \notin lost
      BY <2>1
    <2>3. row[j].attempt \in Nat /\ ~(row[j].attempt >= 3)
      BY <1>1, <2>1, <2>2 DEF Phase!Lost, Phase!Exhausted, PhaseTypeOK, PhaseRows
    <2> QED BY <2>1, <2>3 DEF Phase!Stopped
  <1>5. CASE /\ \A j \in Runs : row[j].status = "completed"
             /\ driver' = [driver EXCEPT !.pc = "evidence"] /\ UNCHANGED row
    <2>1. PlaceSound'
      BY <1>1, <1>2, <1>5, PlaceMove
    <2> QED BY <1>1, <1>2, <1>5, <2>1, DriverGoes
  <1> HIDE DEF again
  <1>6. CASE row' = Phase!Resume(again) /\ driver' = [driver EXCEPT !.pc = "clean up"]
    <2>1. PlaceSound' /\ driver' \in DriverType
      BY <1>1, <1>6, GivingUp
    <2> QED BY <1>1, <1>3, <1>4, <1>6, <2>1, ResumptionMoves
  <1>7. CASE row' = Phase!Resume(again) /\ UNCHANGED driver
    <2>1. row'[Phase!Held].status = "absent"
      <3>1. Phase!Held \notin again
        BY <1>3
      <3>2. row'[Phase!Held] = row[Phase!Held]
        BY <1>1, <1>7, <3>1, ResumeRows
      <3> QED BY <1>1, <1>2, <3>2 DEF PlaceSound
    <2>2. driver.picked \in Runs /\ driver.seen > 0
      BY <1>1, <1>2 DEF PlaceSound
    <2>3. driver'.pc = "matrix" /\ driver'.picked = driver.picked /\ driver'.seen = driver.seen
      BY <1>1, <1>7
    <2>4. PlaceSound'
      BY <1>1, <1>2, <2>1, <2>2, <2>3 DEF PlaceSound, Phase!Held
    <2>5. driver' \in DriverType
      BY <1>1, <1>7 DEF PhaseTypeOK, DriverType
    <2> QED BY <1>1, <1>3, <1>4, <1>7, <2>4, <2>5, ResumptionMoves
  <1> QED BY <1>1, <1>5, <1>6, <1>7

LEMMA SelectKeeps == ASSUME PhaseInv, Phase!Select, UNCHANGED stray PROVE PhaseInv'
  <1> USE PhaseJobs
  <1>1. /\ PhaseTypeOK /\ PlaceSound /\ driver.pc = "select"
        /\ UNCHANGED <<disk, log, worker, dispatcher>>
        /\ \/ /\ row' = [row EXCEPT ![Phase!Held].status = "queued"]
              /\ driver' = [driver EXCEPT !.pc = "held-out"]
           \/ UNCHANGED row /\ driver' = [driver EXCEPT !.pc = "clean up"]
    BY DEF PhaseInv, Phase!Select, Phase!At, Phase!Goto
  <1>2. CASE /\ row' = [row EXCEPT ![Phase!Held].status = "queued"]
             /\ driver' = [driver EXCEPT !.pc = "held-out"]
    <2>1. \A a \in {"select"}, b \in {"held-out"} :
            /\ b \in DriverPlaces /\ b \notin {"launch", "cancel", "resume", "transitions"}
            /\ b \notin BeforeRelease /\ b \notin FirstAttempts /\ b \notin NothingHeldOut /\ a \in NothingHeldOut
            /\ a \in OncePicked /\ a \in OnceSeen /\ b \notin NoDispatcher
            /\ a \in OnceTrained /\ a \in OnceProven /\ b \notin GivenUp
      BY Places DEF BeforeRelease, FirstAttempts, NoDispatcher, GivenUp
    <2> DEFINE x == [row[Phase!Held] EXCEPT !.status = "queued"]
    <2>2. /\ row \in [Phase!Jobs -> PhaseRows] /\ row[Phase!Held] \in PhaseRows
          /\ row' = [row EXCEPT ![Phase!Held] = x]
      BY <1>1, <1>2 DEF PhaseTypeOK
    <2>3. x \in PhaseRows /\ x.status = "queued" /\ x.attempt = row[Phase!Held].attempt
      BY <2>2 DEF PhaseRows
    <2> HIDE DEF x
    <2>4. /\ row' \in [Phase!Jobs -> PhaseRows] /\ row'[Phase!Held].status = "queued"
          /\ \A j \in Phase!Jobs : row'[j].attempt = row[j].attempt
          /\ \A j \in Phase!Jobs : j # Phase!Held => row'[j] = row[j]
      BY <2>2, <2>3
    <2>5. driver' \in DriverType /\ driver'.pc = "held-out" /\ UNCHANGED <<driver.picked, driver.seen>>
      BY <1>1, <1>2, <2>1 DEF PhaseTypeOK, DriverType
    <2>6. PhaseTypeOK'
      BY <1>1, <2>4, <2>5 DEF PhaseTypeOK, DriverType
    <2>7. /\ driver.picked \in Runs /\ driver.seen > 0 /\ \A j \in Runs : row[j].status = "completed"
          /\ 2 \in log[driver.picked].started /\ log[driver.picked].resumed >= driver.seen
          /\ row[Phase!Held].status = "absent"
      BY <1>1, <2>1 DEF PlaceSound
    <2>8. PlaceSound'
      BY <1>1, <2>1, <2>4, <2>5, <2>7 DEF PlaceSound
    <2>9. \A j \in Phase!Jobs :
            /\ row'[j].status \in Phase!Active => row[j].status \in Phase!Active
            /\ worker'[j].at # "none" => worker[j].at # "none" /\ row'[j].status \in Phase!Active
            /\ row'[j].status = "completed" => row[j].status = "completed"
      BY <1>1, <2>4, <2>7 DEF PhaseInv, SlotHeld, Phase!Alive, Phase!Active
    <2>10. \A j \in Runs : Owed(row'[j]) <= 3
      BY <2>4 DEF PhaseInv, JobSound
    <2>11. dispatcher.at = "claimed" => row'[dispatcher.job].status \in Phase!Active
      BY <2>4, <2>7 DEF PhaseInv, SlotHeld, Phase!Active
    <2> QED BY <1>1, <2>4, <2>6, <2>8, <2>9, <2>10, <2>11, JobsMoved
  <1>3. CASE UNCHANGED row /\ driver' = [driver EXCEPT !.pc = "clean up"]
    BY <1>1, <1>3, CleaningUp
  <1> QED BY <1>1, <1>2, <1>3

\* What waits is cancelled, what runs is asked to stop, one by one.
LEMMA CancelOneKeeps ==
    ASSUME PhaseInv, NEW j \in Phase!Jobs, Phase!CancelOne(j), UNCHANGED stray
    PROVE  PhaseInv'
  <1> DEFINE s == row[j].status
             t == IF s \in Phase!Pending THEN "cancelled"
                  ELSE IF s \in Phase!Active THEN "cancel_requested" ELSE s
             x == [row[j] EXCEPT !.status = t]
             rest == driver.todo \ {j}
  <1>1. /\ PhaseTypeOK /\ PlaceSound /\ driver.pc = "cancel"
        /\ UNCHANGED <<disk, log, worker, dispatcher>>
        /\ row \in [Phase!Jobs -> PhaseRows] /\ row[j] \in PhaseRows
        /\ driver' = [driver EXCEPT !.todo = rest]
    BY DEF PhaseInv, PhaseTypeOK, Phase!CancelOne, Phase!At
  <1>2. row' = [row EXCEPT ![j] = x]
    BY <1>1 DEF Phase!CancelOne
  <1>3. /\ x \in PhaseRows /\ x.status = t /\ x.attempt = row[j].attempt
        /\ t \notin Phase!Pending \cup {"running"} /\ (t \in Phase!Active <=> s \in Phase!Active)
        /\ (t = "completed" => s = "completed")
    <2>1. t \in {"absent", "cancel_requested", "completed", "failed", "interrupted", "cancelled"}
      BY <1>1 DEF PhaseRows, Phase!Pending, Phase!Active
    <2>2. (t \in Phase!Active <=> s \in Phase!Active) /\ (t = "completed" => s = "completed")
      BY DEF Phase!Pending, Phase!Active
    <2> HIDE DEF t
    <2> QED BY <1>1, <2>1, <2>2 DEF PhaseRows, Phase!Pending
  <1>4. t \notin Phase!Pending /\ row[j].attempt \in Nat /\ Owed(row[j]) \in Nat
    BY <1>1, <1>3 DEF PhaseRows, Owed
  <1> HIDE DEF x, t
  <1>5. /\ row' \in [Phase!Jobs -> PhaseRows] /\ row'[j] = x
        /\ \A i \in Phase!Jobs : i # j => row'[i] = row[i]
    BY <1>1, <1>2, <1>3
  <1>6. driver' \in DriverType /\ driver'.pc = "cancel" /\ driver'.todo = rest
    BY <1>1 DEF PhaseTypeOK, DriverType
  <1>7. PhaseTypeOK'
    BY <1>1, <1>5, <1>6 DEF PhaseTypeOK, DriverType
  <1>8. \A b \in {"cancel"} :
            /\ b \notin {"launch", "resume", "transitions"}
            /\ b \notin BeforeRelease /\ b \notin FirstAttempts /\ b \notin NothingHeldOut /\ b \notin OncePicked /\ b \notin OnceSeen
            /\ b \notin NoDispatcher /\ b \notin OnceTrained /\ b \notin OnceProven /\ b \notin GivenUp
    BY Places DEF BeforeRelease, FirstAttempts, NoDispatcher, GivenUp
  <1>9. \A i \in Phase!Jobs : row'[i].status \in Phase!Pending \cup {"running"} => i \in rest
    BY <1>1, <1>3, <1>5 DEF PlaceSound
  <1> HIDE DEF rest
  <1>10. PlaceSound'
    BY <1>6, <1>8, <1>9 DEF PlaceSound
  <1>11. \A i \in Phase!Jobs :
            /\ row'[i].status \in Phase!Active <=> row[i].status \in Phase!Active
            /\ row'[i].status = "completed" => row[i].status = "completed"
            /\ row'[i].attempt = row[i].attempt
    BY <1>3, <1>5
  <1>12. ASSUME NEW i \in Runs PROVE Owed(row'[i]) <= 3
    <2>1. Owed(row[i]) <= 3 /\ i \in Phase!Jobs
      BY PhaseJobs DEF PhaseInv, JobSound
    <2>2. Owed(x) <= Owed(row[j])
      BY <1>3, <1>4 DEF Owed, Phase!Pending
    <2>3. Owed(x) \in Nat
      BY <1>3 DEF Owed, PhaseRows
    <2> QED BY <1>4, <1>5, <2>1, <2>2, <2>3
  <1>13. \A i \in Phase!Jobs : worker'[i].at # "none" => worker[i].at # "none" /\ row'[i].status \in Phase!Active
    BY <1>1, <1>11 DEF PhaseInv, SlotHeld, Phase!Alive
  <1>14. dispatcher.at = "claimed" => row'[dispatcher.job].status \in Phase!Active
    BY <1>11 DEF PhaseInv, SlotHeld
  <1> QED BY <1>1, <1>7, <1>10, <1>11, <1>12, <1>13, <1>14, JobsMoved

LEMMA PhaseStep == PhaseInv /\ [Phase!Next]_(Phase!vars) => PhaseInv'
  <1> SUFFICES ASSUME PhaseInv, [Phase!Next]_(Phase!vars) PROVE PhaseInv'
    OBVIOUS
  <1>1. CASE Phase!Drive
    <2>1. CASE Phase!Release
      BY <2>1, ReleaseKeeps
    <2>2. CASE Phase!TimeOut /\ UNCHANGED stray
      BY <2>2, CleaningUp DEF Phase!TimeOut, Phase!Goto, Phase!Unmoved
    <2>3. CASE /\ \/ Phase!LaunchMatrix \/ Phase!Shutdown \/ Phase!SeeCheckpoint \/ Phase!ReadTransitions
                  \/ Phase!Fence \/ Phase!ResumePicked \/ Phase!Restart
               /\ UNCHANGED stray
      BY <2>3, LaunchMatrixKeeps, ShutdownKeeps, SeeCheckpointKeeps, ReadTransitionsKeeps, FenceKeeps,
         ResumePickedKeeps, RestartKeeps
    <2>4. CASE /\ \/ Phase!PollMatrix \/ Phase!CompleteEvidence \/ Phase!Select \/ Phase!SeeHeldOut
                  \/ Phase!CleanUp
               /\ UNCHANGED stray
      BY <2>4, PollMatrixKeeps, CompleteEvidenceKeeps, SelectKeeps, SeeHeldOutKeeps, CleanUpKeeps
    <2>5. CASE (\E j \in Phase!Jobs : Phase!SeeWorker(j) \/ Phase!CancelOne(j)) /\ UNCHANGED stray
      BY <2>5, SeeWorkerKeeps, CancelOneKeeps
    <2> QED BY <1>1, <2>1, <2>2, <2>3, <2>4, <2>5 DEF Phase!Drive
  <1>2. CASE Phase!Dispatch
    BY <1>2, DispatchKeeps
  <1>3. CASE Phase!StrayStep
    BY <1>3, StrayKeeps
  <1>4. CASE \E j \in Phase!Jobs : Phase!WorkerStep(j)
    BY <1>4, WorkerKeeps
  <1>5. CASE UNCHANGED Phase!vars
    <2>1. UNCHANGED <<row, disk, log, worker, stray, dispatcher, driver>>
      BY <1>5 DEF Phase!vars
    <2>2. PhaseTypeOK'
      BY <2>1 DEF PhaseInv, PhaseTypeOK
    <2>3. \A j \in Phase!Jobs : Steady(j)
      BY <2>1, SteadySame DEF PhaseInv
    <2>4. Undisturbed => Undisturbed'
      BY <2>1 DEF Undisturbed
    <2>5. PlaceSound'
      BY <2>1, <2>2, <2>3, <2>4, SteadyPlace DEF PhaseInv
    <2> QED BY <2>1, <2>2, <2>5, JobsUnmoved
  <1> QED BY <1>1, <1>2, <1>3, <1>4, <1>5 DEF Phase!Next

\* The verification of phase 3 keeps its books, whatever the workers, the two dispatchers
\* and the driver do between each other's steps, a worker that was taken for gone and
\* lives on included: the slot is held by one job, a row is consistent with its events and
\* with what was published of it, and at each place the driver may rely on what it has
\* seen (phase3_verification.py, verify_phase3).
THEOREM PhaseInvariant == Phase!Spec => []PhaseInv
  <1>1. Phase!Init => PhaseInv
    BY PhaseInit
  <1>2. PhaseInv /\ [Phase!Next]_(Phase!vars) => PhaseInv'
    BY PhaseStep
  <1> QED BY <1>1, <1>2, PTL DEF Phase!Spec

LEMMA PhaseSound == PhaseInv => Phase!Phase3Sound
  <1> SUFFICES ASSUME PhaseInv PROVE Phase!Phase3Sound
    OBVIOUS
  <1> USE PhaseJobs
  <1>1. PhaseTypeOK /\ SlotHeld /\ PlaceSound /\ \A j \in Phase!Jobs : JobSound(j)
    BY DEF PhaseInv
  <1>2. Phase!OneWorker
    <2>1. stray # Phase!NoStray => stray.job \in Phase!Jobs
      BY <1>1 DEF PhaseTypeOK
    <2> QED BY <1>1, <2>1 DEF SlotHeld, JobSound, Phase!OneWorker
  <1>3. Phase!NothingLeft
    BY <1>1 DEF PlaceSound, GivenUp, Phase!NothingLeft, Phase!At
  <1>4. Phase!VerifiedInFull
    <2> SUFFICES ASSUME driver.pc \in OnceVerified
                 PROVE  /\ \A j \in Runs : disk[j].logged = Steps[j] /\ row[j].attempt \in 1..3
                        /\ row[driver.picked].attempt >= 2
                        /\ driver.seen > 0 /\ log[driver.picked].resumed >= driver.seen
      BY DEF Phase!VerifiedInFull, OnceVerified
    <2>1. /\ driver.picked \in Runs /\ driver.seen > 0 /\ \A j \in Runs : row[j].status = "completed"
          /\ 2 \in log[driver.picked].started /\ log[driver.picked].resumed >= driver.seen
      BY <1>1, Places DEF PlaceSound
    <2>2. ASSUME NEW j \in Runs PROVE disk[j].logged = Steps[j] /\ row[j].attempt \in 1..3
      <3>1. row[j] \in PhaseRows /\ JobSound(j) /\ row[j].status = "completed"
        BY <1>1, <2>1 DEF PhaseTypeOK
      <3>2. row[j].attempt \in Nat /\ row[j].attempt >= 1 /\ row[j].attempt <= 3
        BY <3>1 DEF JobSound, Owed, PhaseRows
      <3> QED BY <3>1, <3>2 DEF JobSound
    <2>3. row[driver.picked].attempt >= 2
      BY <1>1, <2>1 DEF JobSound
    <2> QED BY <2>1, <2>2, <2>3
  <1> QED BY <1>2, <1>3, <1>4 DEF Phase!Phase3Sound

\* One process at most uses the slot across the two dispatchers, but for a worker that a
\* failed call had taken for gone, whose attempt never has the slot again; a verification
\* that reports success has trained every run to its end in at most three attempts and has
\* seen the interrupted one resume no less than was published; one that gives up
\* (_cancel_incomplete_runs) leaves nothing waiting and nothing running unasked.
THEOREM VerificationIsSound == Phase!Spec => []Phase!Phase3Sound
  <1> QED BY PhaseSound, PhaseInvariant, PTL

-----------------------------------------------------------------------------
(* Tasks that are carried out by skills.                                    *)

\* Positions and stations have an order, and a tabletop task names an object of the scene.
SkillNames == {"observe", "navigate", "pick", "deliver",
               "open", "approach", "grasp", "lift", "carry", "place"}

PlanSteps == [name : SkillNames, to : Int, object : Int]

Things == [station : Int, held : BOOLEAN, collected : BOOLEAN, placed : BOOLEAN]

Loops == [pc : {"perceive", "run", "over"}, cycle : Nat, plan : Seq(PlanSteps), step : Nat \ {0},
          attempt : Nat, failure : SkillNames \cup {"none", "perception"}, success : BOOLEAN]

SkillTypeOK ==
    /\ task \in Tasks
    /\ robot \in [holding : Objects \cup {Skill!Nothing}, node : Int]
    /\ object \in [Objects -> Things]
    /\ loop \in Loops

\* A plan that fetches one object after the other: the errand of the e-th is its steps
\* 4e - 2 to 4e + 1.
Fetches(plan, fetch) ==
    /\ Len(plan) = 4 * Len(fetch) + 1
    /\ plan[1] = Skill!Step("observe", Skill!Nowhere, Skill!Nothing)
    /\ \A e \in 1..Len(fetch) :
        /\ plan[4 * e - 2].name = "navigate" /\ plan[4 * e - 2].object = fetch[e]
        /\ plan[4 * e - 1] = Skill!Step("pick", Skill!Nowhere, fetch[e])
        /\ plan[4 * e] = Skill!Step("navigate", task.drop, fetch[e])
        /\ plan[4 * e + 1] = Skill!Step("deliver", task.drop, fetch[e])

\* The robot is on its way from the pickup station of the e-th object.
OnWay(e) == loop.step \in {4 * e, 4 * e + 1}

CollectionRuns(fetch) ==
    /\ Fetches(loop.plan, fetch) /\ loop.step <= Len(loop.plan) + 1
    /\ \A e \in 1..Len(fetch) :
        /\ loop.step >= 4 * e + 2 => object[fetch[e]].collected
        /\ OnWay(e) /\ task.drop = Skill!DropZone => robot.holding = fetch[e]
        /\ loop.step = 4 * e + 1 => robot.node = task.drop
    /\ task.drop = Skill!DropZone /\ (loop.failure # "none" \/ \A e \in 1..Len(fetch) : ~OnWay(e))
         => robot.holding = Skill!Nothing

\* What a robot holds is nowhere else, and not collected.
GripperSound ==
    \A o \in Objects :
        /\ object[o].held <=> robot.holding = o
        /\ object[o].held => object[o].station = Skill!Nowhere /\ ~object[o].collected

CollectionSound ==
    /\ task.drop # Skill!DropZone => \A o \in Objects : ~object[o].collected
    /\ loop.cycle > 0 => task.targets \cap Objects # {}
    /\ loop.pc = "run" => loop.cycle > 0 /\ \E fetch \in Seq(Objects) : CollectionRuns(fetch)
    /\ loop.pc # "run" =>
        /\ task.drop = Skill!DropZone => robot.holding = Skill!Nothing
        /\ loop.failure = "none" /\ (loop.pc = "over" => ~loop.success) =>
            \A o \in Objects : Skill!InPlan(o) => object[o].collected
    /\ loop.pc = "over" =>
        /\ loop.success <=> (loop.cycle > 0 /\ Skill!AllCollected)
        /\ loop.success => loop.failure = "none"

Target == Skill!Min(task.targets)

TabletopRuns ==
    /\ loop.plan = Skill!TabletopSteps(Target) /\ loop.step <= 7
    /\ robot.holding = IF loop.step \in 4..6 THEN Target ELSE Skill!Nothing
    /\ loop.step = 7 => object[Target].placed
    /\ loop.step \in 4..6 /\ loop.failure # "none" => loop.failure \in {"lift", "carry", "place"}
    /\ loop.pc = "over" =>
        /\ loop.success <=> loop.failure = "none"
        /\ loop.failure = "none" => loop.step = 7

TabletopSound ==
    /\ \A o \in Objects : ~object[o].collected
    /\ IF loop.pc = "perceive" THEN robot.holding = Skill!Nothing ELSE TabletopRuns

SkillInv ==
    /\ SkillTypeOK /\ GripperSound
    /\ task.kind = "collection" => CollectionSound
    /\ task.kind = "tabletop" => TabletopSound

LEMMA QuarterOf == \A p \in Nat : \E q \in Nat, r \in 0..3 : p = 4 * q + r
  <1> TAKE p \in Nat
  <1>1. p \div 4 \in Nat /\ p % 4 \in 0..3 /\ p = 4 * (p \div 4) + (p % 4)
    OBVIOUS
  <1> QED BY <1>1

\* Every step of a plan that fetches is its first or belongs to an errand.
LEMMA StepOfErrand ==
    ASSUME NEW n \in Nat, NEW p \in 1..(4 * n + 1), p # 1
    PROVE  \E e \in 1..n : p \in {4 * e - 2, 4 * e - 1, 4 * e, 4 * e + 1}
  <1> p \in Nat
    OBVIOUS
  <1>1. PICK q \in Nat, r \in 0..3 : p = 4 * q + r
    BY QuarterOf
  <1>2. CASE r \in {0, 1}
    BY <1>1, <1>2
  <1>3. CASE r \in {2, 3}
    <2>1. q + 1 \in 1..n
      BY <1>1, <1>3
    <2>2. p \in {4 * (q + 1) - 2, 4 * (q + 1) - 1}
      BY <1>1, <1>3
    <2> QED BY <2>1, <2>2
  <1> QED BY <1>2, <1>3

LEMMA SkillOperators ==
    /\ \A s : Skill!FlattenSeq(s) = FlattenSeq(s)
    /\ \A S : Skill!SetToSeqs(S) = SetToSeqs(S)
  BY DEF FlattenSeq, Skill!FlattenSeq, SetToSeqs, Skill!SetToSeqs, Cardinality, Skill!Cardinality

LEMMA ObjectNumbers ==
    ASSUME SkillNumbers
    PROVE  /\ Objects \subseteq Nat \ {0} /\ IsFiniteSet(Objects) /\ Skill!Nothing \notin Objects
           /\ Stations \subseteq Nat
  <1>1. PICK n \in Nat : Objects = 1..n
    BY FS_CardinalityType DEF SkillNumbers
  <1>2. PICK k \in Nat : Stations = 1..k
    BY FS_CardinalityType DEF SkillNumbers
  <1>3. IsFiniteSet(1..n)
    BY FS_Interval
  <1> QED BY <1>1, <1>2, <1>3 DEF Skill!Nothing

LEMMA PlanStepTypes ==
    ASSUME NEW name \in SkillNames, NEW to \in Int, NEW o \in Int
    PROVE  Skill!Step(name, to, o) \in PlanSteps
  BY DEF Skill!Step, PlanSteps

LEMMA OrderExists ==
    ASSUME SkillNumbers, SkillTypeOK, NEW S \in SUBSET Objects
    PROVE  Skill!Order(S) \in [1..Cardinality(S) -> S] /\ Cardinality(S) \in Nat
  <1> DEFINE R == {p \in S \X S : Skill!Sooner(p[1], p[2])}
  <1>1. \A m, k \in S : <<m, k>> \in R <=> Skill!Sooner(m, k)
    OBVIOUS
  <1>2. \A m \in S : m \in Nat /\ object[m].station \in Int
    BY ObjectNumbers DEF SkillTypeOK, Things
  <1>3. IsFiniteSet(S)
    BY ObjectNumbers, FS_Subset
  <1>4. \A m \in S : <<m, m>> \notin R
    BY <1>1, <1>2 DEF Skill!Sooner
  <1>5. \A m, k, o \in S : <<m, k>> \in R /\ <<k, o>> \in R => <<m, o>> \in R
    BY <1>1, <1>2 DEF Skill!Sooner
  <1>6. ASSUME NEW m \in S, NEW k \in S PROVE m = k \/ <<m, k>> \in R \/ <<k, m>> \in R
    <2>1. m \in Nat /\ k \in Nat /\ object[m].station \in Int /\ object[k].station \in Int
      BY <1>2
    <2>2. m = k \/ Skill!Sooner(m, k) \/ Skill!Sooner(k, m)
      BY <2>1 DEF Skill!Sooner
    <2> QED BY <1>1, <2>2
  <1>7. \E seq \in SetToSeqs(S) : \A i, j \in DOMAIN seq : i < j => <<seq[i], seq[j]>> \in R
    <2> HIDE DEF R
    <2> QED BY <1>3, <1>4, <1>5, <1>6, CanBeSorted
  <1>8. \A seq \in SetToSeqs(S) : DOMAIN seq = 1..Cardinality(S) /\ \A i \in DOMAIN seq : seq[i] \in S
    BY DEF SetToSeqs
  <1>9. \E seq \in SetToSeqs(S) : \A i, j \in DOMAIN seq : i < j => Skill!Sooner(seq[i], seq[j])
    BY <1>1, <1>7, <1>8
  <1>10. Skill!Order(S) \in SetToSeqs(S)
    BY <1>9, SkillOperators DEF Skill!Order
  <1>11. SetToSeqs(S) \subseteq [1..Cardinality(S) -> S]
    BY DEF SetToSeqs
  <1> QED BY <1>3, <1>10, <1>11, FS_CardinalityType

\* What is planned for a collection.
LEMMA CollectionPlan ==
    ASSUME SkillNumbers, SkillTypeOK, NEW P \in SUBSET Objects
    PROVE  /\ Skill!CollectionSteps(P) \in Seq(PlanSteps)
           /\ \E fetch \in Seq(Objects) : Fetches(Skill!CollectionSteps(P), fetch)
  <1> DEFINE S == {o \in P : object[o].station # Skill!Nowhere}
             fetch == Skill!Order(S)
             n == Cardinality(S)
             pieces == [i \in 1..n |-> Skill!Errand(fetch[i])]
             first == Skill!Step("observe", Skill!Nowhere, Skill!Nothing)
             rest == FlattenSeq(pieces)
             plan == Skill!CollectionSteps(P)
  <1>1. fetch \in [1..n -> Objects] /\ n \in Nat /\ DOMAIN fetch = 1..n
    <2>1. S \in SUBSET Objects
      OBVIOUS
    <2> HIDE DEF S
    <2> QED BY <2>1, OrderExists
  <1>2. plan = <<first>> \o rest
    <2>1. pieces = [i \in DOMAIN fetch |-> Skill!Errand(fetch[i])]
      BY <1>1
    <2> QED BY <2>1, SkillOperators DEF Skill!CollectionSteps
  <1> HIDE DEF S, fetch, n, plan
  <1>3. fetch \in Seq(Objects) /\ Len(fetch) = n
    <2>1. fetch \in Seq(Objects)
      BY <1>1, SeqDef
    <2> QED BY <1>1, <2>1, LenProperties
  <1>4. task.drop \in Int /\ \A o \in Objects : o \in Int /\ object[o].station \in Int
    BY ObjectNumbers DEF SkillTypeOK, Things, SkillNumbers, Skill!DropZone, Skill!Unknown
  <1>5. \A o \in Objects : Skill!Errand(o) \in [1..4 -> PlanSteps]
    <2> TAKE o \in Objects
    <2>1. Skill!Nowhere \in Int /\ o \in Int /\ object[o].station \in Int
      BY <1>4 DEF Skill!Nowhere
    <2>2. /\ Skill!Step("navigate", object[o].station, o) \in PlanSteps
          /\ Skill!Step("pick", Skill!Nowhere, o) \in PlanSteps
          /\ Skill!Step("navigate", task.drop, o) \in PlanSteps
          /\ Skill!Step("deliver", task.drop, o) \in PlanSteps
      BY <1>4, <2>1, PlanStepTypes DEF SkillNames
    <2> QED BY <2>2 DEF Skill!Errand
  <1>6. pieces \in [1..n -> [1..4 -> PlanSteps]]
    <2>1. \A i \in 1..n : Skill!Errand(fetch[i]) \in [1..4 -> PlanSteps]
      BY <1>1, <1>5
    <2> QED BY <2>1
  <1>7. /\ rest \in [1..(n * 4) -> PlanSteps]
        /\ \A i \in 1..n, j \in 1..4 : (i - 1) * 4 + j \in 1..(n * 4) /\ rest[(i - 1) * 4 + j] = pieces[i][j]
    <2> HIDE DEF pieces
    <2>1. PICK k \in Nat : k = 4
      OBVIOUS
    <2>2. pieces \in [1..n -> [1..k -> PlanSteps]]
      BY <1>6, <2>1
    <2>3. rest \in [1..(n * k) -> PlanSteps] /\ Follow(rest, pieces, n, k)
      BY <1>1, <2>2, EqualPieces
    <2> QED BY <2>1, <2>3 DEF Follow
  <1>8. \A i \in 1..n : pieces[i] = Skill!Errand(fetch[i])
    OBVIOUS
  <1> HIDE DEF rest, pieces
  <1>9. rest \in Seq(PlanSteps) /\ Len(rest) = n * 4
    <2>1. n * 4 \in Nat
      BY <1>1
    <2>2. rest \in Seq(PlanSteps)
      BY <1>7, <2>1, SeqDef
    <2>3. Len(rest) \in Nat /\ 1..Len(rest) = 1..(n * 4)
      BY <1>7, <2>2, LenProperties
    <2> DEFINE l == Len(rest)
    <2> HIDE DEF l
    <2>4. l \in Nat /\ 1..l = 1..(n * 4)
      BY <2>3 DEF l
    <2>5. l = n * 4
      BY <1>1, <2>4
    <2> QED BY <2>2, <2>5 DEF l
  <1>10. first \in PlanSteps /\ <<first>> \in Seq(PlanSteps)
    <2>1. Skill!Nowhere \in Int /\ Skill!Nothing \in Int
      BY DEF Skill!Nowhere, Skill!Nothing
    <2>2. first \in PlanSteps
      BY <2>1, PlanStepTypes DEF SkillNames
    <2> QED BY <2>2
  <1> HIDE DEF first
  <1>11. plan \in Seq(PlanSteps) /\ Len(plan) = 4 * n + 1
    BY <1>1, <1>2, <1>9, <1>10
  <1>12. plan[1] = first /\ \A p \in 1..(n * 4) : plan[p + 1] = rest[p]
    BY <1>1, <1>2, <1>9, <1>10
  <1>13. ASSUME NEW e \in 1..n
         PROVE  /\ plan[4 * e - 2].name = "navigate" /\ plan[4 * e - 2].object = fetch[e]
                /\ plan[4 * e - 1] = Skill!Step("pick", Skill!Nowhere, fetch[e])
                /\ plan[4 * e] = Skill!Step("navigate", task.drop, fetch[e])
                /\ plan[4 * e + 1] = Skill!Step("deliver", task.drop, fetch[e])
    <2>1. \A j \in 1..4 : (e - 1) * 4 + j \in 1..(n * 4) /\ rest[(e - 1) * 4 + j] = Skill!Errand(fetch[e])[j]
      BY <1>7, <1>8
    <2>2. \A j \in 1..4 : plan[(e - 1) * 4 + j + 1] = Skill!Errand(fetch[e])[j]
      BY <1>12, <2>1
    <2>3. /\ (e - 1) * 4 + 1 + 1 = 4 * e - 2 /\ (e - 1) * 4 + 2 + 1 = 4 * e - 1
          /\ (e - 1) * 4 + 3 + 1 = 4 * e /\ (e - 1) * 4 + 4 + 1 = 4 * e + 1
      BY <1>1
    <2>4. /\ plan[4 * e - 2] = Skill!Errand(fetch[e])[1] /\ plan[4 * e - 1] = Skill!Errand(fetch[e])[2]
          /\ plan[4 * e] = Skill!Errand(fetch[e])[3] /\ plan[4 * e + 1] = Skill!Errand(fetch[e])[4]
      BY <2>2, <2>3
    <2> QED BY <2>4 DEF Skill!Errand, Skill!Step
  <1>14. Fetches(plan, fetch)
    BY <1>3, <1>11, <1>12, <1>13 DEF Fetches, first
  <1> QED BY <1>3, <1>11, <1>14 DEF plan

LEMMA SkillInit == ASSUME SkillNumbers, Skill!Init PROVE SkillInv
  <1> USE DEF Skill!Init
  <1>1. \A s \in Stations : s \in Int
    BY ObjectNumbers
  <1>2. <<>> \in Seq(PlanSteps) /\ ~(\E i \in DOMAIN <<>> : TRUE)
    OBVIOUS
  <1>3. SkillTypeOK
    BY <1>1, <1>2 DEF SkillTypeOK, Things, Loops, SkillNames, Skill!Nothing, Skill!Dock
  <1>4. GripperSound
    BY ObjectNumbers DEF GripperSound
  <1>5. CollectionSound
    BY <1>2 DEF CollectionSound, Skill!InPlan
  <1>6. TabletopSound
    BY DEF TabletopSound
  <1> QED BY <1>3, <1>4, <1>5, <1>6 DEF SkillInv

\* What a skill does to the robot and the objects, and that it keeps them in agreement.
LEMMA EffectKeeps ==
    ASSUME SkillNumbers, SkillTypeOK, GripperSound, NEW s \in PlanSteps,
           Skill!Allowed(s), Skill!Effect(s),
           s.name \in {"pick", "grasp"} => s.object \in Objects /\ ~object[s.object].collected
    PROVE  /\ robot' \in [holding : Objects \cup {Skill!Nothing}, node : Int]
           /\ object' \in [Objects -> Things]
           /\ GripperSound'
           /\ s.name = "navigate" => robot'.node = s.to
           /\ s.name # "navigate" => robot'.node = robot.node
           /\ s.name \in {"pick", "grasp"} => robot'.holding = s.object
           /\ s.name \in {"deliver", "place"} => robot'.holding = Skill!Nothing
           /\ s.name \notin {"pick", "grasp", "deliver", "place"} => robot'.holding = robot.holding
           /\ s.name = "place" => object'[robot.holding].placed
           /\ \A o \in Objects :
                object'[o].collected <=> object[o].collected \/ (s.name = "deliver" /\ o = robot.holding)
  <1> USE ObjectNumbers
  <1>1. /\ robot \in [holding : Objects \cup {Skill!Nothing}, node : Int]
        /\ object \in [Objects -> Things]
    BY DEF SkillTypeOK
  <1>2. s.name \in SkillNames /\ s.to \in Int
    BY DEF PlanSteps
  <1>3. CASE s.name = "navigate"
    <2>1. robot' = [robot EXCEPT !.node = s.to] /\ object' = object
      BY <1>3 DEF Skill!Effect
    <2> QED BY <1>1, <1>2, <1>3, <2>1 DEF GripperSound
  <1>4. CASE s.name \in {"pick", "grasp"}
    <2>1. /\ robot' = [robot EXCEPT !.holding = s.object]
          /\ object' = [object EXCEPT ![s.object].held = TRUE, ![s.object].station = Skill!Nowhere]
      BY <1>4 DEF Skill!Effect
    <2>2. robot.holding = Skill!Nothing
      BY <1>4 DEF Skill!Allowed
    <2>3. Skill!Nowhere \in Int
      BY DEF Skill!Nowhere
    <2>4. /\ \A o \in Objects : o # s.object => object'[o] = object[o]
          /\ object'[s.object] = [object[s.object] EXCEPT !.held = TRUE, !.station = Skill!Nowhere]
      BY <1>1, <1>4, <2>1
    <2>5. GripperSound'
      BY <1>1, <1>4, <2>1, <2>2, <2>4 DEF GripperSound
    <2>6. object' \in [Objects -> Things] /\ \A o \in Objects : object'[o].collected <=> object[o].collected
      <3>1. object[s.object] \in Things
        BY <1>1, <1>4
      <3>2. object'[s.object] \in Things /\ (object'[s.object].collected <=> object[s.object].collected)
        BY <3>1, <2>3, <2>4 DEF Things
      <3>3. object' = [o \in Objects |-> object'[o]]
        BY <1>1, <2>1
      <3>4. \A o \in Objects : object'[o] \in Things
        BY <1>1, <3>2, <2>3, <2>4
      <3>5. object' \in [Objects -> Things]
        BY <3>3, <3>4
      <3> QED BY <3>2, <3>5, <2>3, <2>4
    <2>7. robot' \in [holding : Objects \cup {Skill!Nothing}, node : Int] /\ robot'.node = robot.node
          /\ robot'.holding = s.object
      BY <1>1, <1>4, <2>1
    <2> QED BY <1>4, <2>5, <2>6, <2>7
  <1>5. CASE s.name = "deliver"
    <2> DEFINE h == robot.holding
    <2>1. /\ robot' = [robot EXCEPT !.holding = Skill!Nothing]
          /\ object' = [object EXCEPT ![h].held = FALSE, ![h].collected = TRUE, ![h].station = Skill!DropZone]
      BY <1>5 DEF Skill!Effect
    <2>2. h \in Objects
      BY <1>1, <1>5 DEF Skill!Allowed
    <2>3. Skill!DropZone \in Int
      BY DEF Skill!DropZone
    <2>4. /\ \A o \in Objects : o # h => object'[o] = object[o]
          /\ object'[h] = [object[h] EXCEPT !.held = FALSE, !.collected = TRUE, !.station = Skill!DropZone]
      BY <1>1, <2>1, <2>2
    <2>5. GripperSound'
      BY <1>1, <2>1, <2>2, <2>4 DEF GripperSound
    <2>6. object' \in [Objects -> Things] /\ \A o \in Objects : object'[o].collected <=> object[o].collected \/ o = h
      <3>1. object[h] \in Things
        BY <1>1, <2>2
      <3>2. object'[h] \in Things /\ object'[h].collected
        BY <3>1, <2>3, <2>4 DEF Things
      <3>3. object' = [o \in Objects |-> object'[o]]
        BY <1>1, <2>1
      <3>4. \A o \in Objects : object'[o] \in Things
        BY <1>1, <3>2, <2>3, <2>4
      <3>5. object' \in [Objects -> Things]
        BY <3>3, <3>4
      <3> QED BY <3>2, <3>5, <2>3, <2>4
    <2>7. robot' \in [holding : Objects \cup {Skill!Nothing}, node : Int] /\ robot'.node = robot.node
          /\ robot'.holding = Skill!Nothing
      BY <1>1, <2>1
    <2> QED BY <1>5, <2>5, <2>6, <2>7
  <1>6. CASE s.name = "place"
    <2> DEFINE h == robot.holding
    <2>1. /\ robot' = [robot EXCEPT !.holding = Skill!Nothing]
          /\ object' = [object EXCEPT ![h].held = FALSE, ![h].placed = TRUE]
      BY <1>6 DEF Skill!Effect
    <2>2. h \in Objects
      BY <1>1, <1>6 DEF Skill!Allowed
    <2>3. /\ \A o \in Objects : o # h => object'[o] = object[o]
          /\ object'[h] = [object[h] EXCEPT !.held = FALSE, !.placed = TRUE]
      BY <1>1, <2>1, <2>2
    <2>4. GripperSound'
      BY <1>1, <2>1, <2>2, <2>3 DEF GripperSound
    <2>5. object' \in [Objects -> Things] /\ object'[h].placed
          /\ \A o \in Objects : object'[o].collected <=> object[o].collected
      <3>1. object[h] \in Things
        BY <1>1, <2>2
      <3>2. object'[h] \in Things /\ object'[h].placed /\ (object'[h].collected <=> object[h].collected)
        BY <3>1, <2>3 DEF Things
      <3>3. object' = [o \in Objects |-> object'[o]]
        BY <1>1, <2>1
      <3>4. \A o \in Objects : object'[o] \in Things
        BY <1>1, <3>2, <2>3
      <3>5. object' \in [Objects -> Things]
        BY <3>3, <3>4
      <3> QED BY <3>2, <3>5, <2>3
    <2>6. robot' \in [holding : Objects \cup {Skill!Nothing}, node : Int] /\ robot'.node = robot.node
          /\ robot'.holding = Skill!Nothing
      BY <1>1, <2>1
    <2> QED BY <1>6, <2>4, <2>5, <2>6
  <1>7. CASE s.name \notin {"navigate", "pick", "grasp", "deliver", "place"}
    <2>1. robot' = robot /\ object' = object
      BY <1>7 DEF Skill!Effect
    <2> QED BY <1>1, <1>7, <2>1 DEF GripperSound
  <1> QED BY <1>3, <1>4, <1>5, <1>6, <1>7

LEMMA CurrentStep ==
    ASSUME SkillTypeOK, Skill!Running
    PROVE  Skill!Current \in PlanSteps /\ loop.step \in 1..Len(loop.plan) /\ loop.pc = "run"
  <1>1. loop.plan \in Seq(PlanSteps) /\ Len(loop.plan) \in Nat /\ loop.step \in Nat \ {0}
    BY DEF SkillTypeOK, Loops
  <1> QED BY <1>1 DEF Skill!Running, Skill!Current

\* The step of a collection that is due.
LEMMA CollectionStep ==
    ASSUME SkillNumbers, SkillTypeOK, Skill!Running, NEW fetch \in Seq(Objects), CollectionRuns(fetch)
    PROVE  /\ Len(fetch) \in Nat /\ \A e \in 1..Len(fetch) : fetch[e] \in Objects
           /\ \/ loop.step = 1 /\ Skill!Current.name = "observe"
              \/ \E e \in 1..Len(fetch) :
                    \/ loop.step = 4 * e - 2 /\ Skill!Current.name = "navigate"
                    \/ loop.step = 4 * e - 1 /\ Skill!Current = Skill!Step("pick", Skill!Nowhere, fetch[e])
                    \/ loop.step = 4 * e /\ Skill!Current = Skill!Step("navigate", task.drop, fetch[e])
                    \/ loop.step = 4 * e + 1 /\ Skill!Current = Skill!Step("deliver", task.drop, fetch[e])
  <1>1. Len(fetch) \in Nat /\ \A e \in 1..Len(fetch) : fetch[e] \in Objects
    OBVIOUS
  <1>2. loop.step \in 1..(4 * Len(fetch) + 1)
    BY CurrentStep DEF CollectionRuns, Fetches
  <1>3. CASE loop.step = 1
    <2>1. Skill!Current.name = "observe"
      BY <1>3 DEF CollectionRuns, Fetches, Skill!Current, Skill!Step
    <2> QED BY <1>1, <1>3, <2>1
  <1>4. CASE loop.step # 1
    <2>1. PICK e \in 1..Len(fetch) : loop.step \in {4 * e - 2, 4 * e - 1, 4 * e, 4 * e + 1}
      BY <1>1, <1>2, <1>4, StepOfErrand
    <2>2. /\ loop.plan[4 * e - 2].name = "navigate"
          /\ loop.plan[4 * e - 1] = Skill!Step("pick", Skill!Nowhere, fetch[e])
          /\ loop.plan[4 * e] = Skill!Step("navigate", task.drop, fetch[e])
          /\ loop.plan[4 * e + 1] = Skill!Step("deliver", task.drop, fetch[e])
      BY <2>1 DEF CollectionRuns, Fetches
    <2>3. \/ loop.step = 4 * e - 2 /\ Skill!Current.name = "navigate"
          \/ loop.step = 4 * e - 1 /\ Skill!Current = Skill!Step("pick", Skill!Nowhere, fetch[e])
          \/ loop.step = 4 * e /\ Skill!Current = Skill!Step("navigate", task.drop, fetch[e])
          \/ loop.step = 4 * e + 1 /\ Skill!Current = Skill!Step("deliver", task.drop, fetch[e])
      BY <2>1, <2>2 DEF Skill!Current
    <2> QED BY <1>1, <2>3
  <1> QED BY <1>3, <1>4

LEMMA FinishedFields ==
    ASSUME SkillTypeOK, loop' = Skill!Finished
    PROVE  /\ loop' \in Loops
           /\ loop'.pc = "over" /\ loop'.cycle = loop.cycle /\ loop'.plan = loop.plan
           /\ loop'.success <=> loop.cycle > 0 /\ Skill!AllCollected
           /\ loop'.failure = (IF loop.cycle = 0 THEN "perception"
                               ELSE IF Skill!AllCollected THEN "none" ELSE loop.failure)
  <1> DEFINE all == Skill!AllCollected
  <1>1. all \in BOOLEAN
    BY DEF Skill!AllCollected
  <1>2. loop' = [loop EXCEPT !.pc = "over", !.success = loop.cycle > 0 /\ all,
                   !.failure = IF loop.cycle = 0 THEN "perception"
                               ELSE IF all THEN "none" ELSE loop.failure]
    BY DEF Skill!Finished, SkillTypeOK
  <1> HIDE DEF all
  <1>3. loop \in Loops
    BY DEF SkillTypeOK
  <1>4. loop' \in Loops
    BY <1>1, <1>2, <1>3 DEF Loops
  <1> QED BY <1>2, <1>3, <1>4 DEF Loops, all

LEMMA PlannedFields ==
    ASSUME SkillTypeOK, NEW plan \in Seq(PlanSteps), loop' = Skill!Planned(plan)
    PROVE  /\ loop' \in Loops
           /\ loop'.pc = "run" /\ loop'.cycle = loop.cycle + 1 /\ loop'.plan = plan
           /\ loop'.step = 1 /\ loop'.failure = "none"
  <1>1. loop \in Loops
    BY DEF SkillTypeOK
  <1> DEFINE p == [loop EXCEPT !.pc = "run", !.cycle = loop.cycle + 1, !.plan = plan, !.step = 1,
                     !.attempt = 0, !.failure = "none"]
  <1>2. loop' = p
    BY DEF Skill!Planned
  <1>3. p \in Loops
    <2>1. loop.cycle + 1 \in Nat /\ 1 \in Nat \ {0} /\ 0 \in Nat
      BY <1>1 DEF Loops
    <2> QED BY <1>1, <2>1 DEF Loops
  <1>4. /\ p.pc = "run" /\ p.cycle = loop.cycle + 1 /\ p.plan = plan
        /\ p.step = 1 /\ p.failure = "none"
    BY <1>1 DEF Loops
  <1> HIDE DEF p
  <1> QED BY <1>2, <1>3, <1>4

LEMMA PerceiveKeeps == ASSUME SkillNumbers, SkillInv, Skill!Perceive PROVE SkillInv'
  <1>1. /\ loop.pc = "perceive" /\ task.kind = "collection" /\ UNCHANGED <<task, robot, object>>
        /\ SkillTypeOK /\ GripperSound /\ CollectionSound
    BY DEF Skill!Perceive, SkillInv
  <1>2. PICK seen \in Skill!Perceptions :
            LET pending == {o \in task.targets \cap seen : ~object[o].collected}
            IN  loop' = IF loop.cycle = MaxCycles \/ pending = {} THEN Skill!Finished
                        ELSE Skill!Planned(Skill!CollectionSteps(pending))
    BY DEF Skill!Perceive
  <1>3. seen \subseteq Objects
    BY DEF Skill!Perceptions, Skill!Visible
  <1> DEFINE P == {o \in task.targets \cap seen : ~object[o].collected}
  <1>4. GripperSound'
    BY <1>1 DEF GripperSound
  <1>5. \/ loop' = Skill!Finished
        \/ P # {} /\ loop' = Skill!Planned(Skill!CollectionSteps(P))
    BY <1>2
  <1>6. P \in SUBSET Objects /\ P \subseteq task.targets
    BY <1>3
  <1> HIDE DEF P
  <1>7. CASE loop' = Skill!Finished
    <2>1. SkillTypeOK'
      BY <1>1, <1>7, FinishedFields DEF SkillTypeOK
    <2>2. Skill!AllCollected' <=> Skill!AllCollected
      BY <1>1 DEF Skill!AllCollected
    <2>3. \A o \in Objects : Skill!InPlan(o)' <=> Skill!InPlan(o)
      BY <1>1, <1>7, FinishedFields DEF Skill!InPlan
    <2>4. loop.cycle \in Nat
      BY <1>1 DEF SkillTypeOK, Loops
    <2>5. CollectionSound'
      BY <1>1, <1>7, <2>2, <2>3, <2>4, FinishedFields DEF CollectionSound
    <2> QED BY <1>1, <1>4, <2>1, <2>5 DEF SkillInv
  <1>8. CASE P # {} /\ loop' = Skill!Planned(Skill!CollectionSteps(P))
    <2> DEFINE plan == Skill!CollectionSteps(P)
    <2>1. plan \in Seq(PlanSteps) /\ \E fetch \in Seq(Objects) : Fetches(plan, fetch)
      BY <1>1, <1>6, CollectionPlan
    <2>2. PICK fetch \in Seq(Objects) : Fetches(plan, fetch)
      BY <2>1
    <2> HIDE DEF plan
    <2>3. loop' = Skill!Planned(plan)
      BY <1>8 DEF plan
    <2>4. SkillTypeOK'
      BY <1>1, <2>1, <2>3, PlannedFields DEF SkillTypeOK
    <2>5. loop.cycle \in Nat /\ Len(fetch) \in Nat /\ Len(plan) = 4 * Len(fetch) + 1
      BY <1>1, <2>2 DEF SkillTypeOK, Loops, Fetches
    <2>6. loop'.pc = "run" /\ loop'.cycle = loop.cycle + 1 /\ loop'.plan = plan
          /\ loop'.step = 1 /\ loop'.failure = "none"
      BY <1>1, <2>1, <2>3, PlannedFields
    <2>7. Fetches(loop.plan, fetch)'
      BY <1>1, <2>2, <2>6 DEF Fetches
    <2>8. CollectionRuns(fetch)'
      BY <1>1, <2>5, <2>6, <2>7 DEF CollectionRuns, OnWay, CollectionSound
    <2>9. task.targets \cap Objects # {}
      BY <1>6, <1>8
    <2>10. CollectionSound'
      BY <1>1, <2>5, <2>6, <2>8, <2>9 DEF CollectionSound
    <2> QED BY <1>1, <1>4, <2>4, <2>10 DEF SkillInv
  <1> QED BY <1>5, <1>7, <1>8

\* The object of a tabletop task, and its plan.
LEMMA TabletopPlan ==
    ASSUME SkillNumbers, SkillTypeOK, task.kind = "tabletop"
    PROVE  /\ Target \in Objects /\ Skill!TabletopSteps(Target) \in Seq(PlanSteps)
           /\ Len(Skill!TabletopSteps(Target)) = 6
           /\ \A p \in 1..6 : /\ Skill!TabletopSteps(Target)[p].object = Target
                              /\ Skill!TabletopSteps(Target)[p].name =
                                    <<"open", "approach", "grasp", "lift", "carry", "place">>[p]
  <1>1. Target \in Objects /\ Target \in Int
    BY ObjectNumbers DEF SkillTypeOK, SkillNumbers, Target
  <1>2. Skill!Nowhere \in Int
    BY DEF Skill!Nowhere
  <1>3. \A name \in {"open", "approach", "grasp", "lift", "carry", "place"} :
            /\ Skill!Step(name, Skill!Nowhere, Target) \in PlanSteps
            /\ Skill!Step(name, Skill!Nowhere, Target).name = name
            /\ Skill!Step(name, Skill!Nowhere, Target).object = Target
    BY <1>1, <1>2 DEF Skill!Step, PlanSteps, SkillNames
  <1> HIDE DEF Target
  <1> DEFINE plan == Skill!TabletopSteps(Target)
  <1>4. plan = << Skill!Step("open", Skill!Nowhere, Target), Skill!Step("approach", Skill!Nowhere, Target),
                  Skill!Step("grasp", Skill!Nowhere, Target), Skill!Step("lift", Skill!Nowhere, Target),
                  Skill!Step("carry", Skill!Nowhere, Target), Skill!Step("place", Skill!Nowhere, Target) >>
    BY DEF Skill!TabletopSteps
  <1> HIDE DEF plan
  <1>5. plan \in Seq(PlanSteps) /\ Len(plan) = 6
    BY <1>3, <1>4
  <1>6. \A p \in 1..6 : p = 1 \/ p = 2 \/ p = 3 \/ p = 4 \/ p = 5 \/ p = 6
    OBVIOUS
  <1>7. \A p \in 1..6 : /\ plan[p].object = Target
                        /\ plan[p].name = <<"open", "approach", "grasp", "lift", "carry", "place">>[p]
    BY <1>3, <1>4, <1>6
  <1> QED BY <1>1, <1>5, <1>7 DEF plan

LEMMA PlanTabletopKeeps == ASSUME SkillNumbers, SkillInv, Skill!PlanTabletop PROVE SkillInv'
  <1>1. /\ loop.pc = "perceive" /\ task.kind = "tabletop" /\ UNCHANGED <<task, robot, object>>
        /\ loop' = Skill!Planned(Skill!TabletopSteps(Target))
        /\ SkillTypeOK /\ GripperSound /\ TabletopSound
    BY DEF Skill!PlanTabletop, SkillInv, Target
  <1>2. GripperSound'
    BY <1>1 DEF GripperSound
  <1>3. /\ loop' \in Loops /\ loop'.pc = "run" /\ loop'.plan = Skill!TabletopSteps(Target)
        /\ loop'.step = 1 /\ loop'.failure = "none"
    BY <1>1, TabletopPlan, PlannedFields
  <1>4. SkillTypeOK'
    BY <1>1, <1>3 DEF SkillTypeOK
  <1>5. TabletopRuns'
    BY <1>1, <1>3 DEF TabletopRuns, TabletopSound, Target, Skill!TabletopSteps
  <1> QED BY <1>1, <1>2, <1>3, <1>4, <1>5 DEF SkillInv, TabletopSound

\* Steps that leave the world alone and at most report that the current step failed.
LEMMA StepFails ==
    ASSUME SkillNumbers, SkillInv, Skill!Running, UNCHANGED <<task, robot, object>>,
           NEW n \in Nat,
           \/ loop' = [loop EXCEPT !.attempt = n]
           \/ /\ loop' = [loop EXCEPT !.failure = Skill!Current.name]
              /\ task.kind = "collection" /\ task.drop = Skill!DropZone /\ robot.holding \in Objects
                   => Skill!Current.name \notin {"navigate", "deliver"}
    PROVE  SkillInv'
  <1>1. SkillTypeOK /\ GripperSound
    BY DEF SkillInv
  <1>2. /\ Skill!Current \in PlanSteps /\ Skill!Current.name \in SkillNames
        /\ loop.pc = "run" /\ loop.failure = "none" /\ loop.step \in 1..Len(loop.plan)
    BY <1>1, CurrentStep DEF PlanSteps, Skill!Running
  <1>3. loop \in Loops
    BY <1>1 DEF SkillTypeOK
  <1>4. /\ loop' \in Loops /\ loop'.pc = "run" /\ loop'.cycle = loop.cycle /\ loop'.plan = loop.plan
        /\ loop'.step = loop.step /\ loop'.failure \in {"none", Skill!Current.name}
    BY <1>2, <1>3 DEF Loops
  <1>5. SkillTypeOK' /\ GripperSound'
    BY <1>1, <1>4 DEF SkillTypeOK, GripperSound
  <1>6. CASE task.kind = "collection"
    <2>1. CollectionSound
      BY <1>6 DEF SkillInv
    <2>2. PICK fetch \in Seq(Objects) : CollectionRuns(fetch)
      BY <1>2, <2>1 DEF CollectionSound
    <2>3. CollectionRuns(fetch)'
      <3>1. Fetches(loop.plan, fetch)'
        BY <1>4, <2>2 DEF CollectionRuns, Fetches
      <3>2. \A e \in 1..Len(fetch) : OnWay(e)' <=> OnWay(e)
        BY <1>4 DEF OnWay
      <3>3. ASSUME task.drop = Skill!DropZone, loop'.failure # "none" \/ \A e \in 1..Len(fetch) : ~OnWay(e)
            PROVE  robot.holding = Skill!Nothing
        <4>1. CASE \A e \in 1..Len(fetch) : ~OnWay(e)
          BY <2>2, <3>3, <4>1 DEF CollectionRuns
        <4>2. ASSUME NEW e \in 1..Len(fetch), OnWay(e) PROVE FALSE
          <5>1. robot.holding = fetch[e] /\ fetch[e] \in Objects
            BY <2>2, <3>3, <4>2 DEF CollectionRuns
          <5>2. Skill!Current.name \in {"navigate", "deliver"}
            <6>1. loop.plan[loop.step] \in {Skill!Step("navigate", task.drop, fetch[e]), Skill!Step("deliver", task.drop, fetch[e])}
              BY <2>2, <4>2 DEF CollectionRuns, Fetches, OnWay
            <6> QED BY <6>1 DEF Skill!Current, Skill!Step
          <5>3. CASE loop'.failure = "none"
            BY <1>2, <1>3, <3>3, <4>2, <5>3
          <5> QED BY <1>2, <1>3, <1>6, <3>3, <5>1, <5>2, <5>3 DEF Loops
        <4> QED BY <4>1, <4>2
      <3> QED BY <1>4, <2>2, <3>1, <3>2, <3>3 DEF CollectionRuns
    <2>4. CollectionSound'
      BY <1>2, <1>4, <2>1, <2>3 DEF CollectionSound
    <2> QED BY <1>5, <1>6, <2>4 DEF SkillInv
  <1>7. CASE task.kind = "tabletop"
    <2>1. TabletopSound /\ TabletopRuns
      BY <1>2, <1>7 DEF SkillInv, TabletopSound
    <2>2. loop.step \in 4..6 => Skill!Current.name \in {"lift", "carry", "place"}
      <3>1. loop.step \in 1..6
        BY <1>1, <1>2, <1>7, <2>1, TabletopPlan DEF TabletopRuns
      <3>2. Skill!Current.name = <<"open", "approach", "grasp", "lift", "carry", "place">>[loop.step]
        BY <1>1, <1>7, <2>1, <3>1, TabletopPlan DEF TabletopRuns, Skill!Current
      <3>3. loop.step = 4 \/ loop.step = 5 \/ loop.step = 6 \/ loop.step \notin 4..6
        BY <3>1
      <3> QED BY <3>2, <3>3
    <2>3. TabletopRuns'
      BY <1>4, <2>1, <2>2 DEF TabletopRuns, Target, Skill!TabletopSteps
    <2>4. TabletopSound'
      BY <1>4, <2>1, <2>3 DEF TabletopSound
    <2> QED BY <1>5, <1>7, <2>4 DEF SkillInv
  <1>8. task.kind \in {"collection", "tabletop"}
    BY <1>1 DEF SkillTypeOK, SkillNumbers
  <1> QED BY <1>6, <1>7, <1>8

LEMMA RefuseKeeps == ASSUME SkillNumbers, SkillInv, Skill!Refuse PROVE SkillInv'
  <1>1. /\ Skill!Running /\ ~Skill!Allowed(Skill!Current) /\ UNCHANGED <<task, robot, object>>
        /\ loop' = [loop EXCEPT !.failure = Skill!Current.name]
    BY DEF Skill!Refuse
  <1>2. ASSUME task.kind = "collection", task.drop = Skill!DropZone, robot.holding \in Objects
        PROVE  Skill!Current.name \notin {"navigate", "deliver"}
    <2>1. SkillTypeOK /\ CollectionSound /\ loop.pc = "run"
      BY <1>1, <1>2 DEF SkillInv, Skill!Running
    <2>2. PICK fetch \in Seq(Objects) : CollectionRuns(fetch)
      BY <2>1 DEF CollectionSound
    <2>3. PICK e \in 1..Len(fetch) : OnWay(e)
      BY <1>2, <2>2, ObjectNumbers DEF CollectionRuns
    <2>4. Skill!Current \in {Skill!Step("navigate", task.drop, fetch[e]), Skill!Step("deliver", task.drop, fetch[e])}
      BY <2>2, <2>3 DEF CollectionRuns, Fetches, OnWay, Skill!Current
    <2>5. Skill!Allowed(Skill!Current)
      BY <1>2, <2>4, ObjectNumbers DEF Skill!Allowed, Skill!Step
    <2> QED BY <1>1, <2>5
  <1> QED BY <1>1, <1>2, StepFails

LEMMA FailKeeps == ASSUME SkillNumbers, SkillInv, Skill!Fail PROVE SkillInv'
  <1>1. /\ Skill!Running /\ FALSE \in Skill!Outcomes(Skill!Current) /\ UNCHANGED <<task, robot, object>>
        /\ \/ loop' = [loop EXCEPT !.failure = Skill!Current.name]
           \/ loop' = [loop EXCEPT !.attempt = loop.attempt + 1]
    BY DEF Skill!Fail, SkillInv, SkillTypeOK
  <1>2. Skill!Current.name \notin {"navigate", "deliver"}
    BY <1>1 DEF Skill!Outcomes
  <1>3. loop.attempt + 1 \in Nat
    BY DEF SkillInv, SkillTypeOK, Loops
  <1> QED BY <1>1, <1>2, <1>3, StepFails

LEMMA SucceedKeeps == ASSUME SkillNumbers, SkillInv, Skill!Succeed PROVE SkillInv'
  <1> DEFINE s == Skill!Current
  <1>1. SkillTypeOK /\ GripperSound /\ loop \in Loops
    BY DEF SkillInv, SkillTypeOK
  <1>2. /\ Skill!Running /\ Skill!Allowed(s) /\ Skill!Effect(s) /\ task' = task
        /\ loop' = [loop EXCEPT !.step = loop.step + 1, !.attempt = 0]
    BY DEF Skill!Succeed
  <1>3. s \in PlanSteps /\ loop.pc = "run" /\ loop.failure = "none" /\ loop.step \in 1..Len(loop.plan)
    BY <1>1, <1>2, CurrentStep DEF Skill!Running
  <1>4. /\ loop' \in Loops /\ loop'.pc = "run" /\ loop'.cycle = loop.cycle /\ loop'.plan = loop.plan
        /\ loop'.step = loop.step + 1 /\ loop'.failure = "none"
    <2>1. loop.step + 1 \in Nat \ {0} /\ 0 \in Nat
      BY <1>3
    <2> QED BY <1>1, <1>2, <1>3, <2>1 DEF Loops
  <1>5. task.kind \in {"collection", "tabletop"}
    BY <1>1 DEF SkillTypeOK, SkillNumbers
  <1>6. CASE task.kind = "collection"
    <2>1. CollectionSound
      BY <1>6 DEF SkillInv
    <2>2. PICK fetch \in Seq(Objects) : CollectionRuns(fetch)
      BY <1>3, <2>1 DEF CollectionSound
    <2> DEFINE n == Len(fetch)
    <2>3. n \in Nat /\ (\A e \in 1..n : fetch[e] \in Objects) /\ loop.step + 1 <= Len(loop.plan) + 1
      BY <1>3
    <2>4. Fetches(loop.plan, fetch)'
      BY <1>2, <1>4, <2>2 DEF CollectionRuns, Fetches
    <2>5. \/ loop.step = 1 /\ s.name = "observe"
          \/ \E e \in 1..n :
                \/ loop.step = 4 * e - 2 /\ s.name = "navigate"
                \/ loop.step = 4 * e - 1 /\ s = Skill!Step("pick", Skill!Nowhere, fetch[e])
                \/ loop.step = 4 * e /\ s = Skill!Step("navigate", task.drop, fetch[e])
                \/ loop.step = 4 * e + 1 /\ s = Skill!Step("deliver", task.drop, fetch[e])
      BY <1>1, <1>2, <2>2, CollectionStep
    <2>6. s.name \in {"pick", "grasp"} => s.object \in Objects /\ ~object[s.object].collected
      <3>1. s.name = "pick" => ~object[s.object].collected
        BY <1>2 DEF Skill!Allowed
      <3>2. s.name # "grasp" /\ (s.name = "pick" => s.object \in Objects)
        BY <2>3, <2>5 DEF Skill!Step
      <3> QED BY <3>1, <3>2
    <2> HIDE DEF s
    <2>7. SkillTypeOK' /\ GripperSound'
      BY <1>1, <1>2, <1>3, <1>4, <2>6, EffectKeeps DEF SkillTypeOK
    <2>8. /\ s.name = "navigate" => robot'.node = s.to
          /\ s.name # "navigate" => robot'.node = robot.node
          /\ s.name = "pick" => robot'.holding = s.object
          /\ s.name = "deliver" => robot'.holding = Skill!Nothing
          /\ s.name \notin {"pick", "grasp", "deliver", "place"} => robot'.holding = robot.holding
          /\ \A o \in Objects :
                object'[o].collected <=> object[o].collected \/ (s.name = "deliver" /\ o = robot.holding)
      BY <1>1, <1>2, <1>3, <2>6, EffectKeeps
    <2>9. s.name = "deliver" => task.drop = Skill!DropZone
      BY <1>2, <2>5 DEF Skill!Allowed, Skill!Step
    <2>10. /\ \A e \in 1..n : loop'.step >= 4 * e + 2 => object'[fetch[e]].collected
           /\ \A e \in 1..n : OnWay(e)' /\ task.drop = Skill!DropZone => robot'.holding = fetch[e]
           /\ \A e \in 1..n : loop'.step = 4 * e + 1 => robot'.node = task.drop
           /\ task.drop = Skill!DropZone /\ (\A e \in 1..n : ~OnWay(e)') => robot'.holding = Skill!Nothing
      <3>1. /\ \A e \in 1..n : loop.step >= 4 * e + 2 => object[fetch[e]].collected
            /\ \A e \in 1..n : OnWay(e) /\ task.drop = Skill!DropZone => robot.holding = fetch[e]
            /\ task.drop = Skill!DropZone /\ (\A e \in 1..n : ~OnWay(e)) => robot.holding = Skill!Nothing
        BY <2>2 DEF CollectionRuns
      <3>2. /\ \A e \in 1..n : OnWay(e) <=> loop.step \in {4 * e, 4 * e + 1}
            /\ \A e \in 1..n : OnWay(e)' <=> loop.step + 1 \in {4 * e, 4 * e + 1}
        BY <1>4 DEF OnWay
      <3> HIDE DEF OnWay, n
      <3>3. CASE loop.step = 1 /\ s.name = "observe"
        <4>1. \A e \in 1..n : ~OnWay(e) /\ ~OnWay(e)' /\ ~(loop.step + 1 >= 4 * e + 2)
          BY <2>3, <3>2, <3>3
        <4> QED BY <1>4, <2>3, <2>8, <3>1, <3>3, <4>1
      <3>4. CASE \E e \in 1..n : loop.step = 4 * e - 2 /\ s.name = "navigate"
        <4>1. \A e \in 1..n : ~OnWay(e) /\ ~OnWay(e)' /\ (loop.step + 1 >= 4 * e + 2 => loop.step >= 4 * e + 2)
          BY <2>3, <3>2, <3>4
        <4>2. \A e \in 1..n : loop.step + 1 # 4 * e + 1
          BY <2>3, <3>4
        <4> QED BY <1>4, <2>3, <2>8, <3>1, <3>4, <4>1, <4>2
      <3>5. CASE \E e \in 1..n : loop.step = 4 * e - 1 /\ s = Skill!Step("pick", Skill!Nowhere, fetch[e])
        <4>1. PICK e \in 1..n : loop.step = 4 * e - 1 /\ s = Skill!Step("pick", Skill!Nowhere, fetch[e])
          BY <3>5
        <4>2. s.name = "pick" /\ s.object = fetch[e]
          BY <4>1 DEF Skill!Step
        <4>3. \A d \in 1..n : (OnWay(d)' => d = e) /\ loop.step + 1 # 4 * d + 1
                              /\ (loop.step + 1 >= 4 * d + 2 => loop.step >= 4 * d + 2)
          BY <2>3, <3>2, <4>1
        <4>4. OnWay(e)'
          BY <2>3, <3>2, <4>1
        <4> QED BY <1>4, <2>3, <2>8, <3>1, <4>2, <4>3, <4>4
      <3>6. CASE \E e \in 1..n : loop.step = 4 * e /\ s = Skill!Step("navigate", task.drop, fetch[e])
        <4>1. PICK e \in 1..n : loop.step = 4 * e /\ s = Skill!Step("navigate", task.drop, fetch[e])
          BY <3>6
        <4>2. s.name = "navigate" /\ s.to = task.drop
          BY <4>1 DEF Skill!Step
        <4>3. \A d \in 1..n : (OnWay(d)' => d = e) /\ (loop.step + 1 >= 4 * d + 2 => loop.step >= 4 * d + 2)
          BY <2>3, <3>2, <4>1
        <4>4. OnWay(e)' /\ OnWay(e)
          BY <2>3, <3>2, <4>1
        <4> QED BY <1>4, <2>3, <2>8, <3>1, <4>2, <4>3, <4>4
      <3>7. CASE \E e \in 1..n : loop.step = 4 * e + 1 /\ s = Skill!Step("deliver", task.drop, fetch[e])
        <4>1. PICK e \in 1..n : loop.step = 4 * e + 1 /\ s = Skill!Step("deliver", task.drop, fetch[e])
          BY <3>7
        <4>2. s.name = "deliver" /\ task.drop = Skill!DropZone
          BY <2>9, <4>1 DEF Skill!Step
        <4>3. \A d \in 1..n : ~OnWay(d)' /\ loop.step + 1 # 4 * d + 1
                              /\ (loop.step + 1 >= 4 * d + 2 => d = e \/ loop.step >= 4 * d + 2)
          BY <2>3, <3>2, <4>1
        <4>4. OnWay(e) /\ robot.holding = fetch[e]
          BY <2>3, <3>1, <3>2, <4>1, <4>2
        <4> QED BY <1>4, <2>3, <2>8, <3>1, <4>2, <4>3, <4>4
      <3> QED BY <2>5, <3>3, <3>4, <3>5, <3>6, <3>7 DEF n
    <2>11. CollectionRuns(fetch)'
      BY <1>2, <1>4, <2>3, <2>4, <2>10 DEF CollectionRuns
    <2>12. CollectionSound'
      BY <1>2, <1>4, <2>1, <2>2, <2>8, <2>9, <2>11 DEF CollectionSound
    <2> QED BY <1>2, <1>6, <2>7, <2>12 DEF SkillInv
  <1>7. CASE task.kind = "tabletop"
    <2>1. (\A o \in Objects : ~object[o].collected) /\ TabletopRuns
      BY <1>3, <1>7 DEF SkillInv, TabletopSound
    <2>2. Target \in Objects /\ Target # Skill!Nothing
      BY <1>1, <1>7, TabletopPlan, ObjectNumbers
    <2>3. loop.step \in 1..6
      BY <1>1, <1>3, <1>7, <2>1, TabletopPlan DEF TabletopRuns
    <2>4. s.object = Target /\ s.name = <<"open", "approach", "grasp", "lift", "carry", "place">>[loop.step]
      BY <1>1, <1>7, <2>1, <2>3, TabletopPlan DEF TabletopRuns, Skill!Current
    <2>5. /\ loop.step = 3 <=> s.name = "grasp"
          /\ loop.step = 6 <=> s.name = "place"
          /\ s.name \notin {"pick", "deliver"}
      <3>1. loop.step = 1 \/ loop.step = 2 \/ loop.step = 3 \/ loop.step = 4 \/ loop.step = 5 \/ loop.step = 6
        BY <2>3
      <3> HIDE DEF s
      <3> QED BY <2>4, <3>1
    <2>6. s.name \in {"pick", "grasp"} => s.object \in Objects /\ ~object[s.object].collected
      BY <2>1, <2>2, <2>4
    <2> HIDE DEF s
    <2>7. SkillTypeOK' /\ GripperSound'
      BY <1>1, <1>2, <1>3, <1>4, <2>6, EffectKeeps DEF SkillTypeOK
    <2>8. /\ s.name = "grasp" => robot'.holding = s.object
          /\ s.name = "place" => robot'.holding = Skill!Nothing
          /\ s.name \notin {"pick", "grasp", "deliver", "place"} => robot'.holding = robot.holding
          /\ s.name = "place" => object'[robot.holding].placed
          /\ \A o \in Objects :
                object'[o].collected <=> object[o].collected \/ (s.name = "deliver" /\ o = robot.holding)
      BY <1>1, <1>2, <1>3, <2>6, EffectKeeps
    <2>9. \A o \in Objects : ~object'[o].collected
      BY <2>1, <2>5, <2>8
    <2>10. robot.holding = IF loop.step \in 4..6 THEN Target ELSE Skill!Nothing
      BY <2>1 DEF TabletopRuns
    <2>11. /\ robot'.holding = IF loop.step + 1 \in 4..6 THEN Target ELSE Skill!Nothing
           /\ loop.step + 1 = 7 => object'[Target].placed
      <3>1. CASE loop.step = 3
        BY <2>4, <2>5, <2>8, <3>1
      <3>2. CASE loop.step = 6
        BY <2>5, <2>8, <2>10, <3>2
      <3>3. CASE loop.step \notin {3, 6}
        BY <2>3, <2>5, <2>8, <2>10, <3>3
      <3> QED BY <3>1, <3>2, <3>3
    <2>12. TabletopRuns'
      <3>1. Target' = Target
        BY <1>2 DEF Target
      <3>2. loop.plan = Skill!TabletopSteps(Target)
        BY <2>1 DEF TabletopRuns
      <3>3. Skill!TabletopSteps(Target)' = Skill!TabletopSteps(Target)
        BY <3>1 DEF Skill!TabletopSteps, Skill!Step, Skill!Nowhere
      <3> HIDE DEF Target
      <3> QED BY <1>4, <2>3, <2>11, <3>1, <3>2, <3>3 DEF TabletopRuns
    <2>13. TabletopSound'
      BY <1>4, <2>9, <2>12 DEF TabletopSound
    <2> QED BY <1>2, <1>7, <2>7, <2>13 DEF SkillInv
  <1> QED BY <1>5, <1>6, <1>7

LEMMA ReturnKeeps == ASSUME SkillNumbers, SkillInv, Skill!Return PROVE SkillInv'
  <1>1. /\ loop.pc = "run" /\ ~Skill!Running /\ UNCHANGED <<task, robot, object>>
        /\ SkillTypeOK /\ GripperSound
        /\ task.kind \in {"collection", "tabletop"}
    BY DEF Skill!Return, SkillInv, SkillTypeOK, SkillNumbers
  <1>2. GripperSound'
    BY <1>1 DEF GripperSound
  <1>3. loop \in Loops /\ loop.cycle \in Nat /\ loop.step \in Nat \ {0}
    BY <1>1 DEF SkillTypeOK, Loops
  <1>4. CASE task.kind = "collection"
    <2>1. CollectionSound
      BY <1>4 DEF SkillInv
    <2>2. PICK fetch \in Seq(Objects) : CollectionRuns(fetch)
      BY <1>1, <2>1 DEF CollectionSound
    <2>3. /\ loop.cycle > 0
          /\ \/ Skill!AllCollected /\ loop' = Skill!Finished
             \/ loop' = [loop EXCEPT !.pc = "perceive"]
      BY <1>1, <1>4, <2>1 DEF Skill!Return, CollectionSound
    <2>4. Len(fetch) \in Nat /\ Len(loop.plan) = 4 * Len(fetch) + 1 /\ loop.step <= Len(loop.plan) + 1
      BY <2>2 DEF CollectionRuns, Fetches
    <2>5. loop.failure # "none" \/ loop.step = 4 * Len(fetch) + 2
      BY <1>1, <1>3, <2>4 DEF Skill!Running
    <2>6. task.drop = Skill!DropZone => robot.holding = Skill!Nothing
      <3>1. loop.failure # "none" \/ \A e \in 1..Len(fetch) : ~OnWay(e)
        BY <2>4, <2>5 DEF OnWay
      <3> QED BY <2>2, <3>1 DEF CollectionRuns
    <2>7. ASSUME loop.failure = "none", NEW o \in Objects, Skill!InPlan(o) PROVE object[o].collected
      <3>1. \A e \in 1..Len(fetch) : object[fetch[e]].collected
        BY <2>2, <2>4, <2>5, <2>7 DEF CollectionRuns
      <3>2. PICK p \in DOMAIN loop.plan : loop.plan[p].object = o
        BY <2>7 DEF Skill!InPlan
      <3>3. loop.plan \in Seq(PlanSteps)
        BY <1>3 DEF Loops
      <3>4. p \in 1..(4 * Len(fetch) + 1)
        BY <2>4, <3>2, <3>3
      <3>5. p # 1
        BY <2>2, <3>2, ObjectNumbers DEF CollectionRuns, Fetches, Skill!Step
      <3>6. PICK e \in 1..Len(fetch) : p \in {4 * e - 2, 4 * e - 1, 4 * e, 4 * e + 1}
        BY <2>4, <3>4, <3>5, StepOfErrand
      <3>7. /\ loop.plan[4 * e - 2].object = fetch[e] /\ loop.plan[4 * e - 1].object = fetch[e]
            /\ loop.plan[4 * e].object = fetch[e] /\ loop.plan[4 * e + 1].object = fetch[e]
        <4>1. /\ loop.plan[4 * e - 2].object = fetch[e]
              /\ loop.plan[4 * e - 1] = Skill!Step("pick", Skill!Nowhere, fetch[e])
              /\ loop.plan[4 * e] = Skill!Step("navigate", task.drop, fetch[e])
              /\ loop.plan[4 * e + 1] = Skill!Step("deliver", task.drop, fetch[e])
          BY <2>2 DEF CollectionRuns, Fetches
        <4>2. \A name, to : Skill!Step(name, to, fetch[e]).object = fetch[e]
          BY DEF Skill!Step
        <4> QED BY <4>1, <4>2
      <3>8. o = fetch[e]
        BY <3>2, <3>6, <3>7
      <3> QED BY <3>1, <3>8
    <2>8. Skill!AllCollected' <=> Skill!AllCollected
      BY <1>1 DEF Skill!AllCollected
    <2>9. CASE Skill!AllCollected /\ loop' = Skill!Finished
      <3>1. /\ loop' \in Loops /\ loop'.pc = "over" /\ loop'.cycle = loop.cycle
            /\ loop'.success /\ loop'.failure = "none"
        BY <1>1, <1>3, <2>3, <2>9, FinishedFields
      <3>2. CollectionSound'
        BY <1>1, <2>1, <2>3, <2>6, <2>8, <2>9, <3>1 DEF CollectionSound
      <3>3. SkillTypeOK'
        BY <1>1, <3>1 DEF SkillTypeOK
      <3> QED BY <1>1, <1>2, <1>4, <3>2, <3>3 DEF SkillInv
    <2>10. CASE loop' = [loop EXCEPT !.pc = "perceive"]
      <3>1. /\ loop' \in Loops /\ loop'.pc = "perceive" /\ loop'.cycle = loop.cycle
            /\ loop'.plan = loop.plan /\ loop'.failure = loop.failure
        BY <1>3, <2>10 DEF Loops
      <3>2. \A o \in Objects : Skill!InPlan(o)' <=> Skill!InPlan(o)
        BY <3>1 DEF Skill!InPlan
      <3>3. CollectionSound'
        BY <1>1, <2>1, <2>3, <2>6, <2>7, <3>1, <3>2 DEF CollectionSound
      <3>4. SkillTypeOK'
        BY <1>1, <3>1 DEF SkillTypeOK
      <3> QED BY <1>1, <1>2, <1>4, <3>3, <3>4 DEF SkillInv
    <2> QED BY <2>3, <2>9, <2>10
  <1>5. CASE task.kind = "tabletop"
    <2>1. TabletopSound /\ TabletopRuns
      BY <1>1, <1>5 DEF SkillInv, TabletopSound
    <2>2. loop' = [loop EXCEPT !.pc = "over", !.success = loop.failure = "none"]
      BY <1>1, <1>5 DEF Skill!Return
    <2>3. /\ loop' \in Loops /\ loop'.pc = "over" /\ loop'.plan = loop.plan /\ loop'.step = loop.step
          /\ loop'.failure = loop.failure /\ (loop'.success <=> loop.failure = "none")
      <3>1. (loop.failure = "none") \in BOOLEAN
        OBVIOUS
      <3> QED BY <1>3, <2>2, <3>1 DEF Loops
    <2>4. loop.failure = "none" => loop.step = 7
      <3>1. Len(loop.plan) = 6 /\ loop.step <= 7
        BY <1>1, <1>5, <2>1, TabletopPlan DEF TabletopRuns
      <3> QED BY <1>1, <1>3, <3>1 DEF Skill!Running
    <2>5. TabletopRuns'
      BY <1>1, <2>1, <2>3, <2>4 DEF TabletopRuns, Target, Skill!TabletopSteps
    <2>6. SkillTypeOK' /\ TabletopSound'
      BY <1>1, <2>1, <2>3, <2>5 DEF SkillTypeOK, TabletopSound
    <2> QED BY <1>1, <1>2, <1>5, <2>6 DEF SkillInv
  <1> QED BY <1>1, <1>4, <1>5

LEMMA SkillStep == SkillNumbers /\ SkillInv /\ [Skill!Next]_(Skill!vars) => SkillInv'
  <1> SUFFICES ASSUME SkillNumbers, SkillInv, [Skill!Next]_(Skill!vars) PROVE SkillInv'
    OBVIOUS
  <1>1. CASE UNCHANGED Skill!vars
    <2>1. task' = task /\ robot' = robot /\ object' = object /\ loop' = loop
      BY <1>1 DEF Skill!vars
    <2>2. SkillTypeOK' <=> SkillTypeOK
      BY <2>1 DEF SkillTypeOK
    <2>3. GripperSound' <=> GripperSound
      BY <2>1 DEF GripperSound
    <2>4. CollectionSound' <=> CollectionSound
      <3>1. \A fetch \in Seq(Objects) : CollectionRuns(fetch)' <=> CollectionRuns(fetch)
        BY <2>1 DEF CollectionRuns, Fetches, OnWay
      <3>2. \A o \in Objects : Skill!InPlan(o)' <=> Skill!InPlan(o)
        BY <2>1 DEF Skill!InPlan
      <3>3. Skill!AllCollected' <=> Skill!AllCollected
        BY <2>1 DEF Skill!AllCollected
      <3> QED BY <2>1, <3>1, <3>2, <3>3 DEF CollectionSound
    <2>5. TabletopSound' <=> TabletopSound
      BY <2>1 DEF TabletopSound, TabletopRuns, Target, Skill!TabletopSteps
    <2> QED BY <2>1, <2>2, <2>3, <2>4, <2>5 DEF SkillInv
  <1>2. CASE Skill!Next
    BY <1>2, PerceiveKeeps, PlanTabletopKeeps, RefuseKeeps, SucceedKeeps, FailKeeps, ReturnKeeps
       DEF Skill!Next
  <1> QED BY <1>1, <1>2

LEMMA SkillSound == SkillNumbers /\ SkillInv => Skill!TasksSound
  <1> SUFFICES ASSUME SkillNumbers, SkillInv PROVE Skill!TasksSound
    OBVIOUS
  <1> USE ObjectNumbers
  <1>1. /\ SkillTypeOK /\ GripperSound /\ task.kind \in {"collection", "tabletop"}
        /\ robot.holding \in Objects \cup {Skill!Nothing}
    BY DEF SkillInv, SkillTypeOK, SkillNumbers
  <1>2. Skill!Held = {robot.holding} \ {Skill!Nothing}
    BY <1>1 DEF Skill!Held, GripperSound
  <1>3. \A o \in Objects : object[o].held => object[o].station = Skill!Nowhere /\ ~object[o].collected
    BY <1>1 DEF GripperSound
  <1>4. ASSUME task.kind = "collection", loop.pc # "run"
        PROVE  IF task.drop = Skill!DropZone THEN Skill!Held = {} ELSE \A o \in Objects : ~object[o].collected
    BY <1>2, <1>4 DEF SkillInv, CollectionSound
  <1>5. ASSUME Skill!Running, Skill!Current.name = "deliver", Skill!Allowed(Skill!Current)
        PROVE  robot.node = Skill!DropZone
    <2>1. CASE task.kind = "collection"
      <3>1. PICK fetch \in Seq(Objects) : CollectionRuns(fetch)
        BY <1>5, <2>1 DEF SkillInv, CollectionSound, Skill!Running
      <3>2. PICK e \in 1..Len(fetch) :
                loop.step = 4 * e + 1 /\ Skill!Current = Skill!Step("deliver", task.drop, fetch[e])
        BY <1>1, <1>5, <3>1, CollectionStep DEF Skill!Step
      <3>3. robot.node = task.drop
        BY <3>1, <3>2 DEF CollectionRuns
      <3>4. task.drop = Skill!DropZone
        BY <1>5, <3>2 DEF Skill!Allowed, Skill!Step
      <3> QED BY <3>3, <3>4
    <2>2. CASE task.kind = "tabletop"
      <3>1. loop.pc = "run" /\ loop.step \in 1..Len(loop.plan) /\ TabletopRuns
        BY <1>1, <1>5, <2>2, CurrentStep DEF SkillInv, TabletopSound
      <3>2. loop.step \in 1..6 /\ loop.plan = Skill!TabletopSteps(Target)
        BY <1>1, <2>2, <3>1, TabletopPlan DEF TabletopRuns
      <3>3. loop.plan[loop.step].name = <<"open", "approach", "grasp", "lift", "carry", "place">>[loop.step]
        BY <1>1, <2>2, <3>2, TabletopPlan
      <3>4. loop.step = 1 \/ loop.step = 2 \/ loop.step = 3 \/ loop.step = 4 \/ loop.step = 5 \/ loop.step = 6
        BY <3>2
      <3>5. loop.plan[loop.step].name # "deliver"
        BY <3>3, <3>4
      <3> QED BY <1>5, <3>5 DEF Skill!Current
    <2> QED BY <1>1, <2>1, <2>2
  <1>6. ASSUME loop.pc = "over"
        PROVE  /\ loop.success => loop.failure = "none" /\ Skill!Held = {}
               /\ loop.success /\ task.kind = "tabletop" => object[Target].placed
               /\ ~loop.success /\ loop.failure = "none" =>
                    /\ task.kind = "collection"
                    /\ \A o \in Objects : Skill!InPlan(o) => object[o].collected
               /\ task.kind = "tabletop" /\ Skill!Held # {} => loop.failure \in {"lift", "carry", "place"}
    <2>1. CASE task.kind = "collection"
      <3>1. CollectionSound
        BY <2>1 DEF SkillInv
      <3>2. loop.success => Skill!Held = {}
        <4>1. CASE task.drop = Skill!DropZone
          BY <1>4, <1>6, <2>1, <4>1
        <4>2. CASE task.drop # Skill!DropZone
          BY <1>6, <3>1, <4>2 DEF CollectionSound, Skill!AllCollected
        <4> QED BY <4>1, <4>2
      <3> QED BY <1>6, <2>1, <3>1, <3>2 DEF CollectionSound
    <2>2. CASE task.kind = "tabletop"
      <3>1. TabletopRuns /\ loop.step \in Nat
        BY <1>1, <1>6, <2>2 DEF SkillInv, TabletopSound, SkillTypeOK, Loops
      <3>2. /\ loop.success <=> loop.failure = "none"
            /\ loop.failure = "none" => loop.step = 7
            /\ loop.step = 7 => object[Target].placed
            /\ robot.holding = IF loop.step \in 4..6 THEN Target ELSE Skill!Nothing
            /\ loop.step \in 4..6 /\ loop.failure # "none" => loop.failure \in {"lift", "carry", "place"}
        BY <1>6, <3>1 DEF TabletopRuns
      <3>3. Skill!Held # {} => loop.step \in 4..6
        BY <1>2, <3>2
      <3> HIDE DEF Target
      <3> QED BY <1>2, <2>2, <3>1, <3>2, <3>3
    <2> QED BY <1>1, <2>1, <2>2
  <1> QED BY <1>2, <1>3, <1>4, <1>5, <1>6 DEF Skill!TasksSound, Target

\* A collection or a tabletop task leaves the robot and the objects in agreement however
\* it was cut short, delivers only at the zone, and reports only what came about.
THEOREM TasksAreSound == SkillNumbers => (Skill!Spec => []Skill!TasksSound)
  <1> SUFFICES ASSUME SkillNumbers PROVE Skill!Spec => []Skill!TasksSound
    OBVIOUS
  <1>1. Skill!Init => SkillInv
    BY SkillInit
  <1>2. SkillInv /\ [Skill!Next]_(Skill!vars) => SkillInv'
    BY SkillStep
  <1>3. SkillInv => Skill!TasksSound
    BY SkillSound
  <1> QED BY <1>1, <1>2, <1>3, PTL DEF Skill!Spec

-----------------------------------------------------------------------------
(* All of them together.                                                   *)

WorkInv ==
    /\ world = "matrix" => MatrixInv
    /\ world = "phase 3" => PhaseInv
    /\ world = "reaper" => ReaperInv
    /\ world = "task" => SkillInv

LEMMA WorkBegins == ServicesInit => WorkInv
  <1> SUFFICES ASSUME ServicesInit PROVE WorkInv
    OBVIOUS
  <1>1. CASE InitMatrix
    BY <1>1, MatrixInit DEF InitMatrix, WorkInv
  <1>2. CASE InitPhase
    BY <1>2, PhaseInit DEF InitPhase, WorkInv
  <1>3. CASE InitReaper
    BY <1>3, ReaperInit DEF InitReaper, WorkInv
  <1>4. CASE InitTask
    BY <1>4, SkillAssumption, SkillInit DEF InitTask, WorkInv
  <1>5. CASE InitLog \/ InitCopilot \/ InitGrid
    BY <1>5 DEF InitLog, InitCopilot, InitGrid, WorkInv
  <1> QED BY <1>1, <1>2, <1>3, <1>4, <1>5 DEF ServicesInit

\* A step of all is one of the component whose world it is.
LEMMA WorkMoves ==
    ASSUME [ServicesNext]_allVars
    PROVE  /\ world' = world
           /\ world = "matrix" => [Next]_vars
           /\ world = "phase 3" => [Phase!Next]_(Phase!vars)
           /\ world = "reaper" => [Reaper!Next]_(Reaper!vars)
           /\ world = "task" => [Skill!Next]_(Skill!vars)
  <1>1. CASE InMatrix(Next) \/ InPhase(Phase!Next)
    BY <1>1 DEF InMatrix, InPhase
  <1>2. CASE ReaperStep \/ TaskStep
    BY <1>2 DEF ReaperStep, TaskStep
  <1>3. CASE LogStep \/ CopilotStep \/ GridStep
    BY <1>3 DEF LogStep, CopilotStep, GridStep
  <1>4. CASE UNCHANGED allVars
    BY <1>4 DEF allVars, vars, driverVars, reaperVars, taskVars, Phase!vars, Reaper!vars, Skill!vars
  <1> QED BY <1>1, <1>2, <1>3, <1>4 DEF ServicesNext

THEOREM WorkInvariant == ServicesSpec => []WorkInv
  <1>1. ServicesSpec => ServicesInit /\ [][ServicesNext]_allVars
    BY DEF ServicesSpec
  <1>2. WorkInv /\ [ServicesNext]_allVars => WorkInv'
    <2> SUFFICES ASSUME WorkInv, [ServicesNext]_allVars PROVE WorkInv'
      OBVIOUS
    <2>1. world' = world
      BY WorkMoves
    <2>2. world = "matrix" => MatrixInv'
      BY WorkMoves, MatrixStep DEF WorkInv
    <2>3. world = "phase 3" => PhaseInv'
      BY WorkMoves, PhaseStep DEF WorkInv
    <2>4. world = "reaper" => ReaperInv'
      BY WorkMoves, ReaperKeeps DEF WorkInv
    <2>5. world = "task" => SkillInv'
      BY WorkMoves, SkillAssumption, SkillStep DEF WorkInv
    <2> QED BY <2>1, <2>2, <2>3, <2>4, <2>5 DEF WorkInv
  <1> QED BY <1>1, <1>2, WorkBegins, PTL

\* No service does more than it was asked for, leaves behind what it began, or reports
\* what did not come about: the executor of a matrix, the driver of the phase-3
\* verification, the reaper of stale workers and tasks carried out by skills
\* (run_construction_experiment.py, phase3_verification.py, lab_registry.py, executor.py).
THEOREM WorkIsSound == ServicesSpec => []WorkSound
  <1>1. WorkInv => WorkSound
    BY SkillAssumption, AttemptsFollow, PhaseSound, SkillSound DEF WorkInv, WorkSound, ReaperInv
  <1> QED BY <1>1, WorkInvariant, PTL
=============================================================================
