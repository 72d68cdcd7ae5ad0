------------------------ MODULE PolicySelectionProofs ------------------------
(***************************************************************************)
(* Proofs about PolicySelection for every number of runs, of API threads   *)
(* and scripts, and of held-out jobs: a frozen selection keeps its         *)
(* evidence as long as nobody else opens the file, every copy of a         *)
(* selection that is used agrees with it, and no held-out evaluation does  *)
(* without the evidence of a selection.                                    *)
(*                                                                         *)
(* The argument: a copy is only taken where the registry has been found to *)
(* be complete (AllFrozen), from where on it cannot change any more; so it *)
(* is enough to follow what each handler and the job hold at each point.   *)
(* An evidence file that is not contested has one writer at most.          *)
(*                                                                         *)
(* Then about the decision rules of ResearchRules, for all numbers of the  *)
(* protocol: better evidence never costs a verdict.                        *)
(***************************************************************************)
EXTENDS Studies, FiniteSetTheorems, WellFoundedInduction, TLAPS

Points == {"idle", "evaluate", "open", "fill", "reopen", "refill", "freeze", "register",
           "collect", "check", "file", "fileFill", "heldout", "launch"}
HandlerType == [pc : Points, run : Runs, pick : Picks \cup {None},
                goal : {"one", "all", "heldout"}, read : Table]
JobType == [status : Kept \cup {"none", "failed", "cancelled", "interrupted"},
            cancel : BOOLEAN, file : Table, used : Table, count : 0..MaxJobs]
SuiteType == [used : Table, file : Table]

\* The types of what TypeOK leaves open.
FullTypeOK ==
    /\ TypeOK
    /\ handler \in [Handlers -> HandlerType]
    /\ job \in JobType
    /\ suites \subseteq SuiteType

\* Where a handler holds a selection of its own, and where a complete copy.
Selecting == {"open", "fill", "reopen", "refill", "freeze", "register"}
Copied    == {"file", "fileFill", "heldout", "launch"}

\* What a handler knows: the selection it has frozen; while it checks the
\* evidence, the part of the copy that it has read; then the whole copy.
HandlerHolds(h) ==
    /\ handler[h].pc \in Selecting => handler[h].pick \in Picks
    /\ At(h, "register") => frozen[handler[h].run] = handler[h].pick
    /\ At(h, "collect") => handler[h].run = 1
    /\ At(h, "check") =>
         AllFrozen /\ \A q \in Runs : q < handler[h].run => handler[h].read[q] = frozen[q]
    /\ handler[h].pc \in Copied => AllFrozen /\ handler[h].read = frozen
    /\ handler[h].goal = "heldout" => Root[h] = "api"
    /\ At(h, "launch") => collected["api"].state # None

\* A job is only there after a collection; it has read one that was whole.
JobHolds ==
    /\ job.status # "none" => collected["api"].state # None
    /\ job.status \in {"rows", "storing"} => AllFrozen /\ job.file = frozen
    /\ job.status = "storing" => job.used = frozen

PoliciesAgree   == \A r \in Runs : policy[r] \in {None, frozen[r]}
CollectedAgrees == \A o \in Roots : collected[o].state = "whole" =>
                       AllFrozen /\ collected[o].read = frozen
SuitesAgree     == \A s \in suites : AllFrozen /\ s.used = frozen /\ s.file = frozen

SelectionInv ==
    /\ FullTypeOK
    /\ PoliciesAgree /\ CollectedAgrees /\ SuitesAgree
    /\ (\A h \in Handlers : HandlerHolds(h)) /\ JobHolds

\* The evidence files: h is between opening that of run r and freezing.
OnFile(h, o, r) == Root[h] = o /\ handler[h].run = r /\ handler[h].pc \in Writing

\* An uncontested file belongs to its writer alone, and holds what it has filled in.
WriterHolds(h) ==
    LET o == Root[h]
        r == handler[h].run
    IN
    handler[h].pc \in Writing /\ <<o, r>> \notin contested =>
        /\ handler[h].pc \in {"reopen", "freeze"} => evidence[o][r] = handler[h].pick
        /\ \A g \in Handlers \ {h} : ~OnFile(g, o, r)

\* One root has the evidence of r, and nobody is writing it there.
HasEvidence(r) ==
    \E o \in Roots :
        \/ <<o, r>> \in contested
        \/ evidence[o][r] = frozen[r] /\ \A h \in Handlers : ~OnFile(h, o, r)

ReadAgrees == \A h \in Handlers, r \in Runs : handler[h].read[r] \in {None, frozen[r]}

EvidenceInv ==
    /\ \A h \in Handlers : WriterHolds(h)
    /\ \A r \in Runs : frozen[r] # None => HasEvidence(r)
    /\ ReadAgrees

USE DEF At, Go, Quit

-----------------------------------------------------------------------------
(* Types.                                                                   *)

LEMMA RunNumbers ==
    /\ 1 \in Runs
    /\ \A r \in Runs : r \in Nat /\ r >= 1 /\ (\A q \in Nat : 0 < q /\ q < r => q \in Runs)
    /\ \A r, q \in Runs : r + 1 \notin Runs => q <= r
  <1>1. Cardinality(Runs) \in Nat
    BY SelectionAssumption, FS_CardinalityType
  <1>2. \E n \in Nat : Runs = 1..n
    BY <1>1, SelectionAssumption
  <1> QED BY <1>2, SelectionAssumption

\* The values for nothing and for a torn file are no selections.
LEMMA Values ==
    /\ None \notin Picks /\ Torn \notin Picks /\ None # Torn
    /\ "whole" # None /\ "whole" # Torn
    /\ MaxJobs \in Nat
    /\ \A h \in Handlers : Root[h] \in {"api", "script"}
  BY SelectionAssumption

USE Values

LEMMA NothingTyped ==
    Nothing \in Table /\ Nobody \in HandlerType /\ Nobody.pc = "idle" /\ NoJob \in JobType
  <1>1. Nothing \in Table
    BY DEF Nothing, Table
  <1>2. Nobody \in HandlerType /\ Nobody.pc = "idle"
    BY <1>1, RunNumbers DEF Nobody, HandlerType, Points
  <1>3. NoJob \in JobType
    BY <1>1 DEF NoJob, JobType
  <1> QED BY <1>1, <1>2, <1>3

LEMMA TypeInit == Init => FullTypeOK
  BY NothingTyped DEF Init, FullTypeOK, TypeOK, NoFile, Roots, Table, HandlerType, JobType,
     Nothing, NoJob

\* What a step of a handler does to the handlers: its own record changes.
LEMMA HandlerStep ==
    ASSUME FullTypeOK, NEW h \in Handlers, NEW x \in HandlerType,
           handler' = [handler EXCEPT ![h] = x]
    PROVE  /\ (handler \in [Handlers -> HandlerType])'
           /\ handler'[h] = x
           /\ \A k \in Handlers \ {h} : handler'[k] = handler[k]
  BY DEF FullTypeOK

LEMMA GoTyped ==
    ASSUME FullTypeOK, NEW h \in Handlers, NEW pc \in Points, Go(h, pc)
    PROVE  (handler \in [Handlers -> HandlerType])'
  BY DEF FullTypeOK, HandlerType

LEMMA QuitTyped ==
    ASSUME FullTypeOK, NEW h \in Handlers, Quit(h)
    PROVE  (handler \in [Handlers -> HandlerType])'
  BY NothingTyped DEF FullTypeOK

LEMMA BeginTyped ==
    ASSUME FullTypeOK, NEW h \in Handlers, Begin(h)
    PROVE  (handler \in [Handlers -> HandlerType])'
  <1>1. \A r \in Runs : [Nobody EXCEPT !.pc = "evaluate", !.run = r] \in HandlerType
    BY NothingTyped DEF HandlerType, Points
  <1>2. [Nobody EXCEPT !.pc = "evaluate", !.goal = "all"] \in HandlerType
    BY NothingTyped DEF HandlerType, Points
  <1>3. [Nobody EXCEPT !.pc = "check", !.goal = "heldout"] \in HandlerType
    BY NothingTyped DEF HandlerType, Points
  <1>4. [Nobody EXCEPT !.pc = "heldout", !.read = collected["script"].read] \in HandlerType
    BY NothingTyped DEF HandlerType, Points, FullTypeOK, TypeOK, Roots
  <1>5. trained \subseteq Runs
    BY DEF FullTypeOK, TypeOK
  <1> QED BY <1>1, <1>2, <1>3, <1>4, <1>5, HandlerStep DEF Begin

LEMMA WriteEvidenceTyped ==
    ASSUME FullTypeOK, NEW h \in Handlers, WriteEvidence(h), HandlerHolds(h)
    PROVE  FullTypeOK'
  <1>1. handler[h].run \in Runs /\ handler[h].pick \in Picks /\ Root[h] \in Roots
    BY DEF FullTypeOK, HandlerType, WriteEvidence, HandlerHolds, Selecting, Roots
  <1>2. evidence' \in [Roots -> [Runs -> Picks \cup {None, Torn}]]
    <2>1. \E goes \in Points : Write(h, goes)
      BY DEF WriteEvidence, Points
    <2> QED BY <1>1, <2>1 DEF FullTypeOK, TypeOK, Write
  <1>3. (handler \in [Handlers -> HandlerType])'
    <2>1. \E pc \in Points : Go(h, pc)
      BY DEF WriteEvidence, Write, Points
    <2> QED BY <2>1, GoTyped
  <1>4. contested' \subseteq Roots \X Runs
    BY <1>1 DEF FullTypeOK, TypeOK, WriteEvidence, Write
  <1> QED BY <1>2, <1>3, <1>4 DEF FullTypeOK, TypeOK, WriteEvidence, Write, HandlerType

LEMMA FreezeTyped ==
    ASSUME FullTypeOK, NEW h \in Handlers, Freeze(h)
    PROVE  FullTypeOK'
  <1>1. handler[h].run \in Runs /\ handler[h].pick \in Picks \cup {None}
    BY DEF FullTypeOK, HandlerType
  <1>2. frozen' \in Table
    BY <1>1 DEF FullTypeOK, TypeOK, Freeze, Table
  <1>3. (handler \in [Handlers -> HandlerType])'
    BY GoTyped, QuitTyped DEF Freeze, Points
  <1> QED BY <1>2, <1>3 DEF FullTypeOK, TypeOK, Freeze, HandlerType

LEMMA RegisterTyped ==
    ASSUME FullTypeOK, NEW h \in Handlers, Register(h)
    PROVE  FullTypeOK'
  <1>1. handler[h] \in HandlerType
    BY DEF FullTypeOK
  <1>2. policy' \in Table
    BY <1>1 DEF FullTypeOK, TypeOK, Register, Table, HandlerType
  <1>3. (handler \in [Handlers -> HandlerType])'
    <2> DEFINE more == handler[h].goal = "all" /\ handler[h].run + 1 \in Runs
               x == [handler[h] EXCEPT !.pc = IF more THEN "evaluate" ELSE "collect",
                                       !.run = IF more THEN handler[h].run + 1 ELSE 1,
                                       !.pick = None]
    <2>1. x \in HandlerType
      BY <1>1, RunNumbers DEF HandlerType, Points
    <2>2. handler' = [handler EXCEPT ![h] = x]
      BY DEF Register, FullTypeOK
    <2> QED BY <2>1, <2>2, HandlerStep
  <1> QED BY <1>2, <1>3 DEF FullTypeOK, TypeOK, Register, HandlerType

LEMMA CheckTyped ==
    ASSUME FullTypeOK, NEW h \in Handlers, Check(h)
    PROVE  FullTypeOK'
  <1>1. handler[h] \in HandlerType /\ handler[h].run \in Runs /\ frozen \in Table
    BY DEF FullTypeOK, TypeOK, HandlerType
  <1>2. (handler \in [Handlers -> HandlerType])'
    <2> DEFINE r == handler[h].run
    <2>1. CASE evidence[Root[h]][r] = frozen[r]
      <3> DEFINE x == [handler[h] EXCEPT !.pc = IF r + 1 \in Runs THEN "check" ELSE "file",
                                         !.run = IF r + 1 \in Runs THEN r + 1 ELSE 1,
                                         !.read[r] = evidence[Root[h]][r]]
      <3>1. [handler[h].read EXCEPT ![r] = frozen[r]] \in Table
        BY <1>1 DEF HandlerType, Table
      <3>2. x \in HandlerType
        BY <1>1, <2>1, <3>1, RunNumbers DEF HandlerType, Points
      <3>3. handler' = [handler EXCEPT ![h] = x]
        BY <2>1 DEF Check, CheckFile, FullTypeOK
      <3> QED BY <3>2, <3>3, HandlerStep
    <2>2. CASE evidence[Root[h]][r] # frozen[r]
      BY <2>2, QuitTyped DEF Check, CheckFile
    <2> QED BY <2>1, <2>2
  <1> QED BY <1>2 DEF FullTypeOK, TypeOK, Check, CheckFile, HandlerType

LEMMA WriteCollectionTyped ==
    ASSUME FullTypeOK, NEW h \in Handlers, WriteCollection(h)
    PROVE  FullTypeOK'
  <1>1. handler[h] \in HandlerType /\ Root[h] \in Roots
    BY DEF FullTypeOK, Roots
  <1>2. (collected \in [Roots -> [state : {None, Torn, "whole"}, read : Table]])'
    BY <1>1, NothingTyped DEF FullTypeOK, TypeOK, WriteCollection, HandlerType
  <1>3. (handler \in [Handlers -> HandlerType])'
    <2>1. Quit(h) \/ \E pc \in Points : Go(h, pc)
      BY DEF WriteCollection, Points
    <2> QED BY <2>1, GoTyped, QuitTyped
  <1> QED BY <1>2, <1>3 DEF FullTypeOK, TypeOK, WriteCollection, HandlerType

LEMMA FreshTyped ==
    ASSUME FullTypeOK, job.count # MaxJobs
    PROVE  Fresh \in JobType
  <1>2. job.count \in 0..MaxJobs
    BY DEF FullTypeOK, TypeOK
  <1>3. job.count + 1 \in 0..MaxJobs
    BY <1>2
  <1> QED BY <1>3, NothingTyped DEF Fresh, JobType, Kept, Busy

LEMMA HandleTyped ==
    ASSUME FullTypeOK, NEW h \in Handlers, HandlerHolds(h), Handle(h)
    PROVE  FullTypeOK'
  <1>1. CASE Begin(h)
    BY <1>1, BeginTyped DEF FullTypeOK, TypeOK, Begin, HandlerType
  <1>2. CASE Evaluate(h)
    <2>1. (handler \in [Handlers -> HandlerType])'
      <3>1. PICK p \in Picks : handler' = [handler EXCEPT ![h].pc = "open", ![h].pick = p]
        BY <1>2 DEF Evaluate
      <3> DEFINE x == [handler[h] EXCEPT !.pc = "open", !.pick = p]
      <3>2. x \in HandlerType
        BY DEF FullTypeOK, HandlerType, Points
      <3>3. handler' = [handler EXCEPT ![h] = x]
        BY <3>1 DEF FullTypeOK
      <3> QED BY <3>2, <3>3, HandlerStep
    <2> QED BY <1>2, <2>1 DEF FullTypeOK, TypeOK, Evaluate, HandlerType
  <1>3. CASE Collect(h)
    <2>1. (handler \in [Handlers -> HandlerType])'
      BY <1>3, GoTyped, QuitTyped DEF Collect, Points
    <2> QED BY <1>3, <2>1 DEF FullTypeOK, TypeOK, Collect, HandlerType
  <1>4. CASE ScriptHeldout(h)
    <2>1. (handler \in [Handlers -> HandlerType])'
      BY <1>4, QuitTyped DEF ScriptHeldout
    <2>2. suites' \subseteq SuiteType
      BY <1>4 DEF FullTypeOK, TypeOK, ScriptHeldout, HandlerType, SuiteType, Suite
    <2> QED BY <1>4, <2>1, <2>2 DEF FullTypeOK, TypeOK, ScriptHeldout, HandlerType
  <1>5. CASE Launch(h)
    <2>1. (handler \in [Handlers -> HandlerType])'
      BY <1>5, QuitTyped DEF Launch
    <2>2. job' \in JobType
      BY <1>5, FreshTyped DEF FullTypeOK, Launch
    <2> QED BY <1>5, <2>1, <2>2 DEF FullTypeOK, TypeOK, Launch, HandlerType, JobType
  <1>6. CASE Crash(h)
    <2>1. (handler \in [Handlers -> HandlerType])'
      BY <1>6, QuitTyped DEF Crash
    <2> QED BY <1>6, <2>1 DEF FullTypeOK, TypeOK, Crash, HandlerType
  <1> QED BY <1>1, <1>2, <1>3, <1>4, <1>5, <1>6, WriteEvidenceTyped, FreezeTyped, RegisterTyped,
             CheckTyped, WriteCollectionTyped DEF Handle

LEMMA JobTyped ==
    ASSUME FullTypeOK, Job
    PROVE  FullTypeOK'
  <1> USE DEF FullTypeOK, TypeOK
  <1>1. CASE ResumeJob
    BY <1>1, FreshTyped DEF ResumeJob, JobType
  <1>2. CASE CancelJob \/ WorkerDies \/ StartJob \/ EndJob
    BY <1>2 DEF CancelJob, WorkerDies, StartJob, EndJob, JobType, Kept, Busy
  <1>3. CASE ReadCollection \/ ReadRows
    BY <1>3 DEF ReadCollection, ReadRows, JobType, Kept, Busy, Roots
  <1>4. CASE StoreSuite
    BY <1>4 DEF StoreSuite, JobType, Kept, Busy, SuiteType, Suite
  <1> QED BY <1>1, <1>2, <1>3, <1>4 DEF Job

-----------------------------------------------------------------------------
(* What every step keeps: selections once frozen, and a collection of the   *)
(* API once there is one, though it may be torn in between.                 *)

Preserved ==
    /\ \A r \in Runs : frozen[r] # None => frozen'[r] = frozen[r]
    /\ collected["api"].state # None => collected'["api"].state # None

LEMMA AlwaysKept ==
    ASSUME FullTypeOK, [Next]_vars
    PROVE  Preserved
  <1> USE DEF Preserved, FullTypeOK, TypeOK
  <1>1. ASSUME NEW h \in Handlers, Freeze(h) PROVE Preserved
    BY <1>1 DEF Freeze, Table
  <1>2. ASSUME NEW h \in Handlers, WriteCollection(h) PROVE Preserved
    BY <1>2 DEF WriteCollection, Roots
  <1>3. ASSUME NEW h \in Handlers, Handle(h), ~Freeze(h), ~WriteCollection(h) PROVE Preserved
    BY <1>3 DEF Handle, Begin, Evaluate, WriteEvidence, Write, Register, Collect, Check, CheckFile,
       ScriptHeldout, Launch, Crash
  <1>4. CASE Job
    BY <1>4 DEF Job, ResumeJob, CancelJob, WorkerDies, StartJob, ReadCollection, ReadRows,
       StoreSuite, EndJob
  <1>5. ASSUME NEW r \in Runs, Train(r) PROVE Preserved
    BY <1>5 DEF Train
  <1>6. CASE UNCHANGED vars
    BY <1>6 DEF vars
  <1> QED BY <1>1, <1>2, <1>3, <1>4, <1>5, <1>6 DEF Next

\* Once every selection is frozen, the table does not change any more.
LEMMA FrozenTable ==
    ASSUME FullTypeOK, FullTypeOK', Preserved, AllFrozen
    PROVE  AllFrozen' /\ frozen' = frozen
  <1>1. \A r \in Runs : frozen'[r] = frozen[r]
    BY DEF Preserved, AllFrozen
  <1>2. frozen \in Table /\ frozen' \in Table
    BY DEF FullTypeOK, TypeOK
  <1>3. frozen' = frozen
    BY <1>1, <1>2 DEF Table
  <1> QED BY <1>3 DEF AllFrozen

\* What a handler holds is not taken from it by the steps of others.
LEMMA OthersHold ==
    ASSUME SelectionInv, FullTypeOK', Preserved, NEW k \in Handlers, handler'[k] = handler[k]
    PROVE  HandlerHolds(k)'
  <1>1. HandlerHolds(k) /\ handler[k].run \in Runs
    BY DEF SelectionInv, FullTypeOK, HandlerType
  <1>2. AllFrozen => AllFrozen' /\ frozen' = frozen
    BY FrozenTable DEF SelectionInv
  <1>3. handler[k].pick \in Picks => handler[k].pick # None
    BY DEF SelectionInv
  <1> QED BY <1>1, <1>2, <1>3 DEF HandlerHolds, Preserved, Selecting

LEMMA SameHeld ==
    ASSUME SelectionInv, FullTypeOK', Preserved
    PROVE  /\ UNCHANGED policy => PoliciesAgree'
           /\ UNCHANGED collected => CollectedAgrees'
           /\ UNCHANGED suites => SuitesAgree'
           /\ UNCHANGED job => JobHolds'
  <1>1. AllFrozen => AllFrozen' /\ frozen' = frozen
    BY FrozenTable DEF SelectionInv
  <1>2. UNCHANGED policy => PoliciesAgree'
    BY DEF SelectionInv, PoliciesAgree, Preserved
  <1>3. UNCHANGED collected => CollectedAgrees'
    BY <1>1 DEF SelectionInv, CollectedAgrees
  <1>4. UNCHANGED suites => SuitesAgree'
    BY <1>1 DEF SelectionInv, SuitesAgree
  <1>5. UNCHANGED job => JobHolds'
    BY <1>1 DEF SelectionInv, JobHolds, Preserved
  <1> QED BY <1>2, <1>3, <1>4, <1>5

-----------------------------------------------------------------------------
(* The handlers.                                                            *)

\* What handler h holds after its own step.
LEMMA BeginHolds ==
    ASSUME SelectionInv, NEW h \in Handlers, Begin(h)
    PROVE  HandlerHolds(h)'
  <1> USE NothingTyped DEF SelectionInv, HandlerHolds, Selecting, Copied
  <1>1. UNCHANGED <<frozen, collected>> /\ h \in DOMAIN handler
    BY DEF Begin, FullTypeOK
  <1>2. CASE \E r \in trained :
               handler' = [handler EXCEPT ![h] = [Nobody EXCEPT !.pc = "evaluate", !.run = r]]
    BY <1>1, <1>2 DEF Nobody
  <1>3. CASE handler' = [handler EXCEPT ![h] = [Nobody EXCEPT !.pc = "evaluate", !.goal = "all"]]
    BY <1>1, <1>3 DEF Nobody
  <1>4. CASE /\ Root[h] = "api" /\ AllFrozen
             /\ handler' = [handler EXCEPT ![h] = [Nobody EXCEPT !.pc = "check", !.goal = "heldout"]]
    <2>1. handler'[h] = [Nobody EXCEPT !.pc = "check", !.goal = "heldout"]
      BY <1>1, <1>4
    <2>2. handler'[h].pc = "check" /\ handler'[h].run = 1
      BY <2>1 DEF Nobody
    <2>3. \A q \in Runs : ~(q < 1)
      BY RunNumbers
    <2> QED BY <1>1, <1>4, <2>2, <2>3 DEF AllFrozen
  <1>5. CASE /\ collected["script"].state = "whole"
             /\ handler' = [handler EXCEPT ![h] = [Nobody EXCEPT !.pc = "heldout",
                                                             !.read = collected["script"].read]]
    <2>1. AllFrozen /\ collected["script"].read = frozen
      BY <1>5 DEF CollectedAgrees, Roots
    <2> QED BY <1>1, <1>5, <2>1 DEF Nobody, AllFrozen
  <1> QED BY <1>2, <1>3, <1>4, <1>5 DEF Begin

LEMMA EvidenceHolds ==
    ASSUME SelectionInv, NEW h \in Handlers, Evaluate(h) \/ WriteEvidence(h)
    PROVE  HandlerHolds(h)'
  <1>1. UNCHANGED <<frozen, collected>> /\ handler[h] \in HandlerType /\ HandlerHolds(h)
    BY DEF Evaluate, WriteEvidence, Write, SelectionInv, FullTypeOK
  <1>2. CASE Evaluate(h)
    <2>1. PICK p \in Picks : handler' = [handler EXCEPT ![h].pc = "open", ![h].pick = p]
      BY <1>2 DEF Evaluate
    <2>2. /\ handler'[h].pc = "open" /\ handler'[h].pick = p
          /\ handler'[h].goal = handler[h].goal
      BY <1>1, <2>1 DEF SelectionInv, FullTypeOK, HandlerType
    <2> QED BY <1>1, <2>2 DEF HandlerHolds, Selecting, Copied
  <1>3. CASE WriteEvidence(h)
    <2>1. /\ handler[h].pc \in Selecting
          /\ handler'[h].pc \in {"fill", "reopen", "refill", "freeze"}
          /\ handler'[h].pick = handler[h].pick /\ handler'[h].goal = handler[h].goal
      BY <1>1, <1>3 DEF WriteEvidence, Write, Selecting, SelectionInv, FullTypeOK, HandlerType
    <2> QED BY <1>1, <2>1 DEF HandlerHolds, Selecting, Copied
  <1> QED BY <1>2, <1>3

LEMMA FreezeHolds ==
    ASSUME SelectionInv, NEW h \in Handlers, Freeze(h)
    PROVE  HandlerHolds(h)'
  <1>1. /\ handler[h] \in HandlerType /\ HandlerHolds(h) /\ UNCHANGED collected
        /\ handler[h].pick \in Picks
    BY DEF Freeze, SelectionInv, FullTypeOK, HandlerHolds, Selecting
  <1>2. CASE Go(h, "register") /\ frozen'[handler[h].run] = handler[h].pick
    <2>1. handler'[h] = [handler[h] EXCEPT !.pc = "register"]
      BY <1>2 DEF SelectionInv, FullTypeOK
    <2> QED BY <1>1, <1>2, <2>1 DEF HandlerHolds, Selecting, Copied, HandlerType
  <1>3. CASE Quit(h)
    <2>1. handler'[h] = Nobody
      BY <1>3 DEF SelectionInv, FullTypeOK
    <2> QED BY <2>1 DEF HandlerHolds, Selecting, Copied, Nobody
  <1> QED BY <1>1, <1>2, <1>3 DEF Freeze, SelectionInv, FullTypeOK, TypeOK, Table, HandlerType

LEMMA RegisterHolds ==
    ASSUME SelectionInv, NEW h \in Handlers, Register(h)
    PROVE  HandlerHolds(h)' /\ PoliciesAgree'
  <1>1. /\ handler[h] \in HandlerType /\ HandlerHolds(h) /\ UNCHANGED <<frozen, collected>>
        /\ frozen[handler[h].run] = handler[h].pick
    BY DEF Register, SelectionInv, FullTypeOK, HandlerHolds
  <1>2. /\ handler'[h].pc \in {"evaluate", "collect"} /\ handler'[h].goal = handler[h].goal
        /\ handler'[h].pc = "collect" => handler'[h].run = 1
    <2> DEFINE more == handler[h].goal = "all" /\ handler[h].run + 1 \in Runs
               x == [handler[h] EXCEPT !.pc = IF more THEN "evaluate" ELSE "collect",
                                       !.run = IF more THEN handler[h].run + 1 ELSE 1,
                                       !.pick = None]
    <2>1. handler'[h] = x
      BY DEF Register, SelectionInv, FullTypeOK
    <2> QED BY <1>1, <2>1 DEF HandlerType
  <1>3. HandlerHolds(h)'
    BY <1>1, <1>2 DEF HandlerHolds, Selecting, Copied
  <1>4. policy' = [policy EXCEPT ![handler[h].run] = handler[h].pick] /\ policy \in Table
    BY DEF Register, SelectionInv, FullTypeOK, TypeOK
  <1> QED BY <1>1, <1>3, <1>4 DEF PoliciesAgree, SelectionInv, Table

LEMMA CollectHolds ==
    ASSUME SelectionInv, NEW h \in Handlers, Collect(h)
    PROVE  HandlerHolds(h)'
  <1>1. /\ handler[h] \in HandlerType /\ HandlerHolds(h) /\ UNCHANGED <<frozen, collected>>
        /\ handler[h].run = 1
    BY DEF Collect, SelectionInv, FullTypeOK, HandlerHolds
  <1>2. CASE AllFrozen /\ Go(h, "check")
    <2>1. /\ handler'[h].pc = "check" /\ handler'[h].run = 1
          /\ handler'[h].goal = handler[h].goal
      BY <1>1, <1>2 DEF SelectionInv, FullTypeOK, HandlerType
    <2>2. \A q \in Runs : ~(q < 1)
      BY RunNumbers
    <2> QED BY <1>1, <1>2, <2>1, <2>2 DEF HandlerHolds, Selecting, Copied, AllFrozen
  <1>3. CASE Quit(h)
    <2>1. handler'[h] = Nobody
      BY <1>3 DEF SelectionInv, FullTypeOK
    <2> QED BY <2>1 DEF HandlerHolds, Selecting, Copied, Nobody
  <1> QED BY <1>2, <1>3 DEF Collect

\* The copy grows by the evidence of one run, and is whole after the last.
LEMMA CheckHolds ==
    ASSUME SelectionInv, NEW h \in Handlers, Check(h)
    PROVE  HandlerHolds(h)'
  <1> DEFINE r == handler[h].run
  <1>1. /\ handler[h] \in HandlerType /\ HandlerHolds(h) /\ UNCHANGED <<frozen, collected>>
        /\ r \in Runs /\ frozen \in Table /\ handler[h].read \in Table /\ AllFrozen
        /\ \A q \in Runs : q < r => handler[h].read[q] = frozen[q]
    BY DEF Check, CheckFile, SelectionInv, FullTypeOK, TypeOK, HandlerHolds, HandlerType
  <1>2. CASE evidence[Root[h]][r] = frozen[r]
    <2> DEFINE read == [handler[h].read EXCEPT ![r] = frozen[r]]
               x == [handler[h] EXCEPT !.pc = IF r + 1 \in Runs THEN "check" ELSE "file",
                                       !.run = IF r + 1 \in Runs THEN r + 1 ELSE 1,
                                       !.read[r] = evidence[Root[h]][r]]
    <2>1. handler' = [handler EXCEPT ![h] = x]
      BY <1>2 DEF Check, CheckFile, SelectionInv, FullTypeOK
    <2>2. /\ handler'[h].pc = IF r + 1 \in Runs THEN "check" ELSE "file"
          /\ handler'[h].run = IF r + 1 \in Runs THEN r + 1 ELSE 1
          /\ handler'[h].read = read /\ handler'[h].goal = handler[h].goal
      <3>1. handler'[h] = x
        BY <2>1 DEF SelectionInv, FullTypeOK
      <3> QED BY <1>1, <1>2, <3>1 DEF HandlerType
    <2>3. \A q \in Runs : q <= r => read[q] = frozen[q]
      BY <1>1, RunNumbers DEF Table
    <2>4. r + 1 \in Runs => \A q \in Runs : q < r + 1 => q <= r
      BY <1>1, RunNumbers
    <2>5. r + 1 \notin Runs => read = frozen
      <3>1. r + 1 \notin Runs => \A q \in Runs : read[q] = frozen[q]
        BY <1>1, <2>3, RunNumbers
      <3>2. read \in Table
        BY <1>1 DEF Table
      <3> QED BY <1>1, <3>1, <3>2 DEF Table
    <2>6. CASE r + 1 \in Runs
      BY <1>1, <2>2, <2>3, <2>4, <2>6 DEF HandlerHolds, Selecting, Copied, AllFrozen
    <2>7. CASE r + 1 \notin Runs
      BY <1>1, <2>2, <2>5, <2>7 DEF HandlerHolds, Selecting, Copied, AllFrozen
    <2> QED BY <2>6, <2>7
  <1>3. CASE evidence[Root[h]][r] # frozen[r]
    <2>1. handler'[h] = Nobody
      BY <1>3 DEF Check, CheckFile, SelectionInv, FullTypeOK
    <2> QED BY <2>1 DEF HandlerHolds, Selecting, Copied, Nobody
  <1> QED BY <1>2, <1>3

LEMMA WriteCollectionHolds ==
    ASSUME SelectionInv, NEW h \in Handlers, WriteCollection(h)
    PROVE  HandlerHolds(h)' /\ CollectedAgrees'
  <1>1. /\ handler[h] \in HandlerType /\ HandlerHolds(h) /\ UNCHANGED frozen
        /\ AllFrozen /\ handler[h].read = frozen /\ Root[h] \in Roots
    BY DEF WriteCollection, SelectionInv, FullTypeOK, HandlerHolds, Copied, Roots
  <1>2. CollectedAgrees'
    BY <1>1 DEF CollectedAgrees, SelectionInv, FullTypeOK, TypeOK, WriteCollection, AllFrozen
  <1>3. collected'[Root[h]].state # None
    BY <1>1 DEF SelectionInv, FullTypeOK, TypeOK, WriteCollection
  <1>4. CASE Quit(h)
    <2>1. handler'[h] = Nobody
      BY <1>4 DEF SelectionInv, FullTypeOK
    <2> QED BY <1>2, <2>1 DEF HandlerHolds, Selecting, Copied, Nobody
  <1>5. ASSUME NEW pc \in {"fileFill", "heldout", "launch"}, Go(h, pc),
               pc = "launch" => handler[h].goal = "heldout"
        PROVE  HandlerHolds(h)'
    <2>1. /\ handler'[h].pc = pc /\ handler'[h].read = handler[h].read
          /\ handler'[h].goal = handler[h].goal
      BY <1>1, <1>5 DEF SelectionInv, FullTypeOK, HandlerType
    <2>2. pc = "launch" => Root[h] = "api"
      BY <1>1, <1>5 DEF HandlerHolds
    <2> QED BY <1>1, <1>3, <2>1, <2>2 DEF HandlerHolds, Selecting, Copied, AllFrozen
  <1>6. \/ Quit(h) \/ Go(h, "fileFill") \/ Go(h, "heldout")
        \/ Go(h, "launch") /\ handler[h].goal = "heldout"
    BY <1>1 DEF WriteCollection, HandlerType
  <1> QED BY <1>2, <1>4, <1>5, <1>6

LEMMA LeaveHolds ==
    ASSUME SelectionInv, NEW h \in Handlers, Quit(h)
    PROVE  HandlerHolds(h)'
  <1>1. handler'[h] = Nobody
    BY DEF SelectionInv, FullTypeOK
  <1> QED BY <1>1 DEF HandlerHolds, Selecting, Copied, Nobody

\* Only the handlers that write a suite or start a job touch these.
LEMMA ScriptHeldoutHolds ==
    ASSUME SelectionInv, NEW h \in Handlers, ScriptHeldout(h)
    PROVE  SuitesAgree'
  <1>1. AllFrozen /\ handler[h].read = frozen /\ UNCHANGED frozen
    BY DEF ScriptHeldout, SelectionInv, HandlerHolds, Copied
  <1> QED BY <1>1 DEF ScriptHeldout, SelectionInv, SuitesAgree, Suite, AllFrozen

LEMMA LaunchHolds ==
    ASSUME SelectionInv, NEW h \in Handlers, Launch(h)
    PROVE  JobHolds'
  <1>1. collected["api"].state # None /\ UNCHANGED <<collected, frozen>>
    BY DEF Launch, SelectionInv, HandlerHolds
  <1>2. Fresh.status = "queued"
    BY DEF Fresh, NoJob
  <1> QED BY <1>1, <1>2 DEF Launch, SelectionInv, JobHolds, AllFrozen

LEMMA HandleHolds ==
    ASSUME SelectionInv, NEW h \in Handlers, Handle(h), FullTypeOK', Preserved
    PROVE  SelectionInv'
  <1>1. HandlerHolds(h)'
    BY BeginHolds, EvidenceHolds, FreezeHolds, RegisterHolds, CollectHolds, CheckHolds,
       WriteCollectionHolds, LeaveHolds DEF Handle, ScriptHeldout, Launch, Crash
  <1>2. \A k \in Handlers \ {h} : handler'[k] = handler[k]
    BY DEF Handle, Begin, Evaluate, WriteEvidence, Write, Freeze, Register, Collect, Check, CheckFile,
       WriteCollection, ScriptHeldout, Launch, Crash, SelectionInv, FullTypeOK
  <1>3. \A k \in Handlers : HandlerHolds(k)'
    BY <1>1, <1>2, OthersHold
  <1>4. PoliciesAgree'
    BY RegisterHolds, SameHeld DEF Handle, Begin, Evaluate, WriteEvidence, Write, Freeze, Collect, Check,
       CheckFile, WriteCollection, ScriptHeldout, Launch, Crash
  <1>5. CollectedAgrees'
    BY WriteCollectionHolds, SameHeld DEF Handle, Begin, Evaluate, WriteEvidence, Write, Freeze, Register,
       Collect, Check, CheckFile, ScriptHeldout, Launch, Crash
  <1>6. SuitesAgree'
    BY ScriptHeldoutHolds, SameHeld DEF Handle, Begin, Evaluate, WriteEvidence, Write, Freeze, Register,
       Collect, Check, CheckFile, WriteCollection, Launch, Crash
  <1>7. JobHolds'
    BY LaunchHolds, SameHeld DEF Handle, Begin, Evaluate, WriteEvidence, Write, Freeze, Register,
       Collect, Check, CheckFile, WriteCollection, ScriptHeldout, Crash
  <1> QED BY <1>3, <1>4, <1>5, <1>6, <1>7 DEF SelectionInv

-----------------------------------------------------------------------------
(* The held-out job.                                                        *)

LEMMA JobStepHolds ==
    ASSUME SelectionInv, Job, FullTypeOK', Preserved
    PROVE  SelectionInv'
  <1>1. /\ job \in JobType /\ JobHolds /\ SuitesAgree /\ UNCHANGED <<frozen, collected, policy, handler>>
        /\ AllFrozen' = AllFrozen
    BY DEF Job, ResumeJob, CancelJob, WorkerDies, StartJob, ReadCollection, ReadRows, StoreSuite,
       EndJob, SelectionInv, FullTypeOK, AllFrozen
  <1>2. SuitesAgree'
    <2>1. CASE StoreSuite
      BY <1>1, <2>1 DEF StoreSuite, SuitesAgree, JobHolds, Suite
    <2> QED BY <1>1, <2>1 DEF Job, ResumeJob, CancelJob, WorkerDies, StartJob, ReadCollection,
               ReadRows, EndJob, SuitesAgree
  <1>3. JobHolds'
    <2>1. CASE ResumeJob \/ CancelJob \/ WorkerDies \/ StartJob \/ StoreSuite \/ EndJob
      <3>1. /\ job.status # "none"
            /\ job'.status \in {"rows", "storing"} =>
                 /\ job'.status = job.status
                 /\ job'.file = job.file /\ job'.used = job.used
        BY <1>1, <2>1 DEF ResumeJob, CancelJob, WorkerDies, StartJob, StoreSuite, EndJob, Fresh,
           NoJob, JobType, Busy
      <3> QED BY <1>1, <3>1 DEF JobHolds
    <2>2. CASE ReadCollection
      <3>1. collected["api"].state = Torn \/ (AllFrozen /\ collected["api"].read = frozen)
        BY <1>1, <2>2 DEF ReadCollection, JobHolds, SelectionInv, FullTypeOK, TypeOK,
           CollectedAgrees, Roots
      <3> QED BY <1>1, <2>2, <3>1 DEF ReadCollection, JobHolds, JobType
    <2>3. CASE ReadRows
      BY <1>1, <2>3 DEF ReadRows, JobHolds, JobType
    <2> QED BY <2>1, <2>2, <2>3 DEF Job
  <1>4. \A k \in Handlers : HandlerHolds(k)'
    BY <1>1, OthersHold
  <1> QED BY <1>1, <1>2, <1>3, <1>4, SameHeld DEF SelectionInv

-----------------------------------------------------------------------------
(* The evidence files.                                                      *)

\* No step but WriteEvidence touches a file, or lets a handler open one.
LEMMA FilesUntouched ==
    ASSUME EvidenceInv, UNCHANGED <<evidence, contested>>,
           \A k \in Handlers : handler'[k].pc \in Writing => handler'[k] = handler[k]
    PROVE  /\ \A k \in Handlers : WriterHolds(k)'
           /\ \A r \in Runs : HasEvidence(r) /\ frozen'[r] = frozen[r] => HasEvidence(r)'
  <1>1. \A k \in Handlers, o \in {"api", "script"}, r \in Runs : OnFile(k, o, r)' => OnFile(k, o, r)
    BY DEF OnFile
  <1>2. ASSUME NEW k \in Handlers PROVE WriterHolds(k)'
    <2>1. CASE handler'[k].pc \in Writing
      <3>1. handler'[k] = handler[k] /\ WriterHolds(k)
        BY <2>1 DEF EvidenceInv
      <3>2. \A g \in Handlers : OnFile(g, Root[k], handler[k].run)' => OnFile(g, Root[k], handler[k].run)
        BY <3>1 DEF OnFile
      <3> QED BY <3>1, <3>2 DEF WriterHolds
    <2>2. CASE handler'[k].pc \notin Writing
      BY <2>2 DEF WriterHolds
    <2> QED BY <2>1, <2>2
  <1>3. ASSUME NEW r \in Runs, HasEvidence(r), frozen'[r] = frozen[r] PROVE HasEvidence(r)'
    BY <1>1, <1>3 DEF HasEvidence, Roots
  <1> QED BY <1>2, <1>3

\* A handler that freezes has the file to itself, or it is contested.
LEMMA FreezeKeepsEvidence ==
    ASSUME SelectionInv, EvidenceInv, NEW h \in Handlers, Freeze(h)
    PROVE  /\ \A k \in Handlers : WriterHolds(k)'
           /\ \A r \in Runs : frozen'[r] # None => HasEvidence(r)'
  <1> DEFINE o == Root[h]
             q == handler[h].run
  <1>1. /\ handler[h] \in HandlerType /\ q \in Runs /\ o \in Roots /\ frozen \in Table
        /\ handler[h].pc = "freeze" /\ UNCHANGED <<evidence, contested>>
    BY DEF SelectionInv, FullTypeOK, TypeOK, HandlerType, Freeze, Roots
  <1>2. /\ \A k \in Handlers \ {h} : handler'[k] = handler[k]
        /\ handler'[h].pc \notin Writing
    BY <1>1 DEF Freeze, SelectionInv, FullTypeOK, Nobody, Writing, HandlerType
  <1>3. \A k \in Handlers : handler'[k].pc \in Writing => handler'[k] = handler[k]
    BY <1>2
  <1>4. ASSUME NEW r \in Runs, frozen'[r] # None PROVE HasEvidence(r)'
    <2>1. CASE frozen'[r] = frozen[r]
      BY <1>1, <1>3, <1>4, <2>1, FilesUntouched DEF EvidenceInv
    <2>2. CASE frozen'[r] # frozen[r]
      <3>1. r = q /\ frozen'[r] = handler[h].pick
        BY <1>1, <2>2 DEF Freeze, Table
      <3>2. \/ <<o, q>> \in contested
            \/ evidence[o][q] = handler[h].pick /\ \A g \in Handlers \ {h} : ~OnFile(g, o, q)
        BY <1>1 DEF EvidenceInv, WriterHolds, Writing
      <3>3. PICK p \in Roots : p = o
        BY <1>1
      <3>4. \A g \in Handlers : OnFile(g, p, r)' => g # h /\ OnFile(g, p, r)
        BY <1>2 DEF OnFile
      <3>5. \/ <<p, r>> \in contested
            \/ evidence[p][r] = frozen'[r] /\ \A g \in Handlers : ~OnFile(g, p, r)'
        BY <3>1, <3>2, <3>3, <3>4
      <3> QED BY <1>1, <3>5 DEF HasEvidence
    <2> QED BY <2>1, <2>2
  <1> QED BY <1>1, <1>3, <1>4, FilesUntouched

\* What a step of writing does.
LEMMA WriteSteps ==
    ASSUME SelectionInv, NEW h \in Handlers, WriteEvidence(h)
    PROVE  LET o == Root[h]
               q == handler[h].run
           IN
           /\ handler[h].pc \in {"open", "fill", "reopen", "refill"} /\ UNCHANGED frozen
           /\ \A k \in Handlers \ {h} : handler'[k] = handler[k]
           /\ handler'[h].pc \in Writing /\ handler'[h].run = q
           /\ handler'[h].pick = handler[h].pick /\ handler'[h].read = handler[h].read
           /\ handler'[h].pc \in {"reopen", "freeze"} => evidence'[o][q] = handler[h].pick
           /\ \A p \in Roots, r \in Runs : <<p, r>> # <<o, q>> =>
                 /\ evidence'[p][r] = evidence[p][r]
                 /\ <<p, r>> \in contested' <=> <<p, r>> \in contested
           /\ contested \subseteq contested'
           /\ /\ handler[h].pc = "open"
              /\ (\E g \in Handlers \ {h} : OnFile(g, o, q)) \/ frozen[q] # None
              => <<o, q>> \in contested'
  <1> DEFINE o == Root[h]
             q == handler[h].run
  <1>1. /\ handler[h] \in HandlerType /\ q \in Runs /\ o \in Roots
        /\ evidence \in [Roots -> [Runs -> Picks \cup {None, Torn}]]
        /\ handler \in [Handlers -> HandlerType]
    BY DEF SelectionInv, FullTypeOK, TypeOK, HandlerType, Roots
  <1>2. /\ handler[h].pc \in {"open", "fill", "reopen", "refill"} /\ UNCHANGED frozen
        /\ \E goes \in Writing : Write(h, goes)
    BY DEF WriteEvidence, Write, Writing
  <1>3. PICK goes \in Writing : Go(h, goes)
    BY <1>2 DEF Write
  <1>4. handler'[h] = [handler[h] EXCEPT !.pc = goes] /\ \A k \in Handlers \ {h} : handler'[k] = handler[k]
    BY <1>1, <1>3
  <1>5. /\ handler'[h].pc = goes /\ handler'[h].run = q
        /\ handler'[h].pick = handler[h].pick /\ handler'[h].read = handler[h].read
    BY <1>1, <1>4 DEF HandlerType
  <1>6. handler'[h].pc \in {"reopen", "freeze"} => evidence'[o][q] = handler[h].pick
    <2>1. handler'[h].pc \in {"reopen", "freeze"} => handler[h].pc \in {"fill", "refill"}
      BY <1>1 DEF WriteEvidence, Write, SelectionInv, FullTypeOK, HandlerType
    <2> QED BY <1>1, <1>2, <2>1 DEF Write
  <1>7. \A p \in Roots, r \in Runs : <<p, r>> # <<o, q>> => evidence'[p][r] = evidence[p][r]
    BY <1>1, <1>2 DEF Write
  <1>8. /\ \A p \in Roots, r \in Runs : <<p, r>> # <<o, q>> =>
               (<<p, r>> \in contested' <=> <<p, r>> \in contested)
        /\ contested \subseteq contested'
    BY <1>2 DEF Write
  <1>9. /\ handler[h].pc = "open"
        /\ (\E g \in Handlers \ {h} : OnFile(g, o, q)) \/ frozen[q] # None
        => <<o, q>> \in contested'
    BY <1>2 DEF Write, OnFile
  <1> QED BY <1>2, <1>3, <1>4, <1>5, <1>6, <1>7, <1>8, <1>9

LEMMA WriteKeepsEvidence ==
    ASSUME SelectionInv, EvidenceInv, NEW h \in Handlers, WriteEvidence(h)
    PROVE  /\ \A k \in Handlers : WriterHolds(k)'
           /\ \A r \in Runs : frozen'[r] # None => HasEvidence(r)'
  <1> DEFINE o == Root[h]
             q == handler[h].run
  <1>1. q \in Runs /\ o \in Roots /\ handler \in [Handlers -> HandlerType]
    BY DEF SelectionInv, FullTypeOK, HandlerType, Roots
  <1>2. handler[h].pc \in Writing \/ handler[h].pc = "open"
    BY WriteSteps DEF Writing
  <1>3. ASSUME NEW k \in Handlers \ {h}, OnFile(k, o, q) PROVE <<o, q>> \in contested'
    <2>1. CASE handler[h].pc = "open"
      BY <1>3, <2>1, WriteSteps
    <2>2. CASE handler[h].pc \in Writing
      <3>1. OnFile(h, o, q) /\ WriterHolds(k)
        BY <2>2 DEF OnFile, EvidenceInv
      <3>2. <<o, q>> \in contested
        BY <1>3, <3>1 DEF WriterHolds, OnFile
      <3> QED BY <3>2, WriteSteps
    <2> QED BY <1>2, <2>1, <2>2
  <1>4. \A g \in Handlers, p \in Roots, r \in Runs :
           OnFile(g, p, r)' => (g = h /\ p = o /\ r = q) \/ (g # h /\ OnFile(g, p, r))
    <2>1. handler'[h].run = q /\ \A g \in Handlers \ {h} : handler'[g] = handler[g]
      BY WriteSteps
    <2> TAKE g \in Handlers, p \in Roots, r \in Runs
    <2>2. CASE g = h
      BY <2>1, <2>2 DEF OnFile
    <2>3. CASE g # h
      BY <2>1, <2>3 DEF OnFile
    <2> QED BY <2>2, <2>3
  <1>5. WriterHolds(h)'
    BY <1>1, <1>3, <1>4, WriteSteps DEF WriterHolds
  <1>6. ASSUME NEW k \in Handlers \ {h} PROVE WriterHolds(k)'
    <2> DEFINE p == Root[k]
               r == handler[k].run
    <2>1. handler'[k] = handler[k] /\ r \in Runs /\ p \in Roots /\ WriterHolds(k)
      BY <1>1, WriteSteps DEF HandlerType, Roots, EvidenceInv
    <2>2. CASE <<p, r>> = <<o, q>>
      <3>1. p = o /\ r = q
        BY <2>2
      <3> QED BY <1>3, <2>1, <3>1 DEF WriterHolds, OnFile
    <2>3. CASE <<p, r>> # <<o, q>>
      <3>1. /\ evidence'[p][r] = evidence[p][r]
            /\ <<p, r>> \in contested' <=> <<p, r>> \in contested
        BY <2>1, <2>3, WriteSteps
      <3>2. \A g \in Handlers : OnFile(g, p, r)' => OnFile(g, p, r)
        BY <1>4, <2>1, <2>3
      <3> QED BY <2>1, <3>1, <3>2 DEF WriterHolds
    <2> QED BY <2>2, <2>3
  <1>7. ASSUME NEW r \in Runs, frozen'[r] # None PROVE HasEvidence(r)'
    <2>1. frozen' = frozen /\ frozen[r] # None /\ HasEvidence(r)
      BY <1>7, WriteSteps DEF EvidenceInv
    <2>2. PICK p \in Roots : \/ <<p, r>> \in contested
                             \/ evidence[p][r] = frozen[r] /\ \A g \in Handlers : ~OnFile(g, p, r)
      BY <2>1 DEF HasEvidence
    <2>3. CASE <<p, r>> \in contested
      BY <2>2, <2>3, WriteSteps DEF HasEvidence
    <2>4. CASE <<p, r>> \notin contested /\ <<p, r>> = <<o, q>>
      <3>1. p = o /\ r = q
        BY <2>4
      <3>2. handler[h].pc = "open"
        BY <1>2, <2>2, <2>4, <3>1 DEF OnFile
      <3>3. <<p, r>> \in contested'
        BY <2>1, <3>1, <3>2, WriteSteps
      <3> QED BY <2>2, <3>3 DEF HasEvidence
    <2>5. CASE <<p, r>> \notin contested /\ <<p, r>> # <<o, q>>
      <3>1. evidence'[p][r] = evidence[p][r]
        BY <2>2, <2>5, WriteSteps
      <3>2. \A g \in Handlers : ~OnFile(g, p, r)'
        BY <1>4, <2>2, <2>5
      <3> QED BY <2>1, <2>2, <2>5, <3>1, <3>2 DEF HasEvidence
    <2> QED BY <2>3, <2>4, <2>5
  <1> QED BY <1>5, <1>6, <1>7

\* A request reads the evidence where it agrees with the registry.
LEMMA ReadKept ==
    ASSUME SelectionInv, EvidenceInv, Preserved, [Next]_vars
    PROVE  ReadAgrees'
  <1>1. \A k \in Handlers, r \in Runs : handler[k].read[r] \in {None, frozen[r]}
    BY DEF EvidenceInv, ReadAgrees
  <1>2. ASSUME NEW k \in Handlers, handler'[k].read = handler[k].read \/ handler'[k].read = Nothing,
               NEW r \in Runs
        PROVE  handler'[k].read[r] \in {None, frozen'[r]}
    BY <1>1, <1>2 DEF Preserved, Nothing
  <1>3. ASSUME NEW h \in Handlers, Handle(h) PROVE ReadAgrees'
    <2>1. \A k \in Handlers \ {h} : handler'[k] = handler[k]
      BY <1>3 DEF Handle, Begin, Evaluate, WriteEvidence, Write, Freeze, Register, Collect, Check,
         CheckFile, WriteCollection, ScriptHeldout, Launch, Crash, SelectionInv, FullTypeOK
    <2>2. handler[h] \in HandlerType /\ handler \in [Handlers -> HandlerType]
      BY DEF SelectionInv, FullTypeOK
    <2>3. ASSUME handler'[h].read = handler[h].read \/ handler'[h].read = Nothing PROVE ReadAgrees'
      BY <1>2, <2>1, <2>3 DEF ReadAgrees
    <2>4. CASE Begin(h)
      <3>1. CASE handler'[h].read = Nothing
        BY <2>3, <3>1
      <3>2. CASE handler'[h].read # Nothing
        <4>1. /\ collected["script"].state = "whole"
              /\ handler'[h].read = collected["script"].read
          BY <2>2, <2>4, <3>2 DEF Begin, Nobody
        <4>2. handler'[h].read = frozen /\ UNCHANGED frozen
          BY <2>4, <4>1 DEF Begin, SelectionInv, CollectedAgrees, Roots
        <4>3. \A k \in Handlers \ {h}, r \in Runs : handler'[k].read[r] \in {None, frozen'[r]}
          BY <1>2, <2>1
        <4> QED BY <4>2, <4>3 DEF ReadAgrees
      <3> QED BY <3>1, <3>2
    <2>5. CASE Check(h)
      <3> DEFINE q == handler[h].run
      <3>1. CASE evidence[Root[h]][q] = frozen[q]
        <4>1. /\ handler'[h].read = [handler[h].read EXCEPT ![q] = frozen[q]]
              /\ UNCHANGED frozen
          BY <2>2, <2>5, <3>1 DEF Check, CheckFile, HandlerType
        <4>2. handler[h].read \in Table
          BY <2>2 DEF HandlerType
        <4>3. \A r \in Runs : handler'[h].read[r] \in {None, frozen'[r]}
          BY <1>1, <4>1, <4>2 DEF Table
        <4>4. \A k \in Handlers \ {h}, r \in Runs : handler'[k].read[r] \in {None, frozen'[r]}
          BY <1>2, <2>1
        <4> QED BY <4>3, <4>4 DEF ReadAgrees
      <3>2. CASE evidence[Root[h]][q] # frozen[q]
        <4>1. handler'[h] = Nobody
          BY <2>2, <2>5, <3>2 DEF Check, CheckFile
        <4> QED BY <2>3, <4>1 DEF Nobody
      <3> QED BY <3>1, <3>2
    <2>6. CASE Evaluate(h)
      <3>1. PICK p \in Picks : handler' = [handler EXCEPT ![h].pc = "open", ![h].pick = p]
        BY <2>6 DEF Evaluate
      <3>2. handler'[h].read = handler[h].read
        BY <2>2, <3>1 DEF HandlerType
      <3> QED BY <2>3, <3>2
    <2>7. CASE Register(h)
      <3>1. handler'[h].read = handler[h].read
        BY <2>2, <2>7 DEF Register, HandlerType
      <3> QED BY <2>3, <3>1
    <2>8. CASE Quit(h)
      <3>1. handler'[h].read = Nothing
        BY <2>2, <2>8 DEF Nobody
      <3> QED BY <2>3, <3>1
    <2>9. ASSUME NEW goes \in Points, Go(h, goes) PROVE ReadAgrees'
      <3>1. handler'[h].read = handler[h].read
        BY <2>2, <2>9 DEF HandlerType
      <3> QED BY <2>3, <3>1
    <2>10. CASE WriteEvidence(h)
      BY <2>3, <2>10, WriteSteps
    <2>11. CASE Freeze(h) \/ Collect(h) \/ WriteCollection(h) \/ ScriptHeldout(h) \/ Launch(h) \/ Crash(h)
      <3>1. Quit(h) \/ \E goes \in Points : Go(h, goes)
        BY <2>11 DEF Freeze, Collect, WriteCollection, ScriptHeldout, Launch, Crash, Points
      <3> QED BY <2>8, <2>9, <3>1
    <2> QED BY <1>3, <2>4, <2>5, <2>6, <2>7, <2>10, <2>11 DEF Handle
  <1>4. ASSUME UNCHANGED handler PROVE ReadAgrees'
    BY <1>2, <1>4 DEF ReadAgrees
  <1>5. CASE Job
    BY <1>4, <1>5 DEF Job, ResumeJob, CancelJob, WorkerDies, StartJob, ReadCollection, ReadRows,
       StoreSuite, EndJob
  <1>6. CASE (\E r \in Runs : Train(r)) \/ UNCHANGED vars
    BY <1>4, <1>6 DEF Train, vars
  <1> QED BY <1>3, <1>5, <1>6 DEF Next

LEMMA EvidenceInit == Init => EvidenceInv
  BY NothingTyped DEF Init, EvidenceInv, WriterHolds, ReadAgrees, Nothing, Nobody, Writing

LEMMA EvidenceStep == SelectionInv /\ EvidenceInv /\ [Next]_vars => EvidenceInv'
  <1> SUFFICES ASSUME SelectionInv, EvidenceInv, [Next]_vars PROVE EvidenceInv'
    OBVIOUS
  <1>1. Preserved /\ ReadAgrees'
    BY AlwaysKept, ReadKept DEF SelectionInv
  <1>2. ASSUME UNCHANGED <<evidence, contested, frozen>>,
               \A k \in Handlers : handler'[k].pc \in Writing => handler'[k] = handler[k]
        PROVE  EvidenceInv'
    <2>1. \A r \in Runs : frozen'[r] # None => HasEvidence(r)'
      BY <1>2, FilesUntouched DEF EvidenceInv
    <2> QED BY <1>1, <1>2, <2>1, FilesUntouched DEF EvidenceInv
  <1>3. ASSUME NEW h \in Handlers, Handle(h) PROVE EvidenceInv'
    <2>1. CASE WriteEvidence(h)
      BY <1>1, <2>1, WriteKeepsEvidence DEF EvidenceInv
    <2>2. CASE Freeze(h)
      BY <1>1, <2>2, FreezeKeepsEvidence DEF EvidenceInv
    <2>3. CASE ~WriteEvidence(h) /\ ~Freeze(h)
      <3>1. handler \in [Handlers -> HandlerType] /\ handler[h] \in HandlerType
        BY DEF SelectionInv, FullTypeOK
      <3>2. UNCHANGED <<evidence, contested, frozen>>
        BY <1>3, <2>3 DEF Handle, Begin, Evaluate, Register, Collect, Check, CheckFile,
           WriteCollection, ScriptHeldout, Launch, Crash
      <3>3. \A k \in Handlers \ {h} : handler'[k] = handler[k]
        BY <1>3, <2>3, <3>1 DEF Handle, Begin, Evaluate, Register, Collect, Check, CheckFile,
           WriteCollection, ScriptHeldout, Launch, Crash
      <3>4. handler'[h].pc \notin Writing
        <4>1. CASE Begin(h)
          BY <3>1, <4>1 DEF Begin, Nobody, Writing
        <4>2. CASE Evaluate(h)
          BY <3>1, <4>2 DEF Evaluate, Writing, HandlerType
        <4>3. CASE Register(h)
          BY <3>1, <4>3 DEF Register, Writing, HandlerType
        <4>4. CASE Check(h)
          BY <3>1, <4>4 DEF Check, CheckFile, Nobody, Writing, HandlerType
        <4>5. CASE Quit(h)
          BY <3>1, <4>5 DEF Nobody, Writing
        <4>6. ASSUME NEW goes \in {"check", "fileFill", "heldout", "launch"}, Go(h, goes)
              PROVE  handler'[h].pc \notin Writing
          BY <3>1, <4>6 DEF Writing, HandlerType
        <4> QED BY <1>3, <2>3, <4>1, <4>2, <4>3, <4>4, <4>5, <4>6 DEF Handle, Collect,
                   WriteCollection, ScriptHeldout, Launch, Crash
      <3> QED BY <1>2, <3>2, <3>3, <3>4
    <2> QED BY <2>1, <2>2, <2>3
  <1>4. CASE Job
    BY <1>2, <1>4 DEF Job, ResumeJob, CancelJob, WorkerDies, StartJob, ReadCollection, ReadRows,
       StoreSuite, EndJob
  <1>5. CASE (\E r \in Runs : Train(r)) \/ UNCHANGED vars
    BY <1>2, <1>5 DEF Train, vars
  <1> QED BY <1>3, <1>4, <1>5 DEF Next

-----------------------------------------------------------------------------
(* The invariant, and the theorems.                                         *)

LEMMA SelectionInit == Init => SelectionInv
  <1> SUFFICES ASSUME Init PROVE SelectionInv
    OBVIOUS
  <1>1. \A h \in Handlers : HandlerHolds(h)
    BY DEF Init, HandlerHolds, Nobody, Selecting, Copied
  <1>2. PoliciesAgree /\ CollectedAgrees /\ SuitesAgree /\ JobHolds
    BY DEF Init, PoliciesAgree, CollectedAgrees, SuitesAgree, JobHolds, NoFile, NoJob, Nothing
  <1> QED BY <1>1, <1>2, TypeInit DEF SelectionInv

LEMMA TypeStep == SelectionInv /\ [Next]_vars => FullTypeOK'
  <1> SUFFICES ASSUME SelectionInv, [Next]_vars PROVE FullTypeOK'
    OBVIOUS
  <1>1. ASSUME NEW r \in Runs, Train(r) PROVE FullTypeOK'
    BY <1>1 DEF Train, SelectionInv, FullTypeOK, TypeOK
  <1>2. CASE UNCHANGED vars
    BY <1>2 DEF vars, SelectionInv, FullTypeOK, TypeOK
  <1> QED BY <1>1, <1>2, HandleTyped, JobTyped DEF Next, SelectionInv

LEMMA SelectionStep == SelectionInv /\ [Next]_vars => SelectionInv'
  <1> SUFFICES ASSUME SelectionInv, [Next]_vars PROVE SelectionInv'
    OBVIOUS
  <1>1. FullTypeOK' /\ Preserved
    BY TypeStep, AlwaysKept DEF SelectionInv
  <1>2. ASSUME NEW h \in Handlers, Handle(h) PROVE SelectionInv'
    BY <1>1, <1>2, HandleHolds
  <1>3. CASE Job
    BY <1>1, <1>3, JobStepHolds
  <1>4. CASE (\E r \in Runs : Train(r)) \/ UNCHANGED vars
    <2>1. UNCHANGED <<policy, collected, suites, job, handler>>
      BY <1>4 DEF Train, vars
    <2>2. \A k \in Handlers : HandlerHolds(k)'
      BY <1>1, <2>1, OthersHold
    <2> QED BY <1>1, <2>1, <2>2, SameHeld DEF SelectionInv
  <1> QED BY <1>2, <1>3, <1>4 DEF Next

\* The inductive invariant: what is held at each point of a handler and of the job.
THEOREM SelectionInvariant == Spec => []SelectionInv
  <1> QED BY SelectionInit, SelectionStep, PTL DEF Spec

\* A frozen selection has its evidence on file in the root that froze it, unless
\* another evaluation of its run has opened that file meanwhile or since; what a
\* request has read of the evidence stays that of the frozen selections.
THEOREM EvidenceIsKept == Spec => []EvidenceKept
  <1>1. EvidenceInv => EvidenceKept
    BY DEF EvidenceInv, EvidenceKept, HasEvidence, ReadAgrees
  <1>2. Spec => []EvidenceInv
    BY SelectionInvariant, EvidenceInit, EvidenceStep, PTL DEF Spec
  <1> QED BY <1>1, <1>2, PTL

\* The registered policies, the collections that can be read and what the held-out
\* evaluations used and compared with are the frozen selections, although the
\* evidence files that they were read from may have been overwritten since.
THEOREM CopiesAreOfFrozen == Spec => []CopiesAgree
  <1>1. SelectionInv => CopiesAgree
    BY DEF SelectionInv, FullTypeOK, CopiesAgree, PoliciesAgree, CollectedAgrees, SuitesAgree
  <1> QED BY <1>1, SelectionInvariant, PTL

\* Every held-out evaluation had the evidence of every selection, even one that
\* was asked for while selections were being repeated.
THEOREM HeldoutIsBacked == Spec => []HeldoutHasEvidence
  <1>1. SelectionInv => HeldoutHasEvidence
    BY DEF SelectionInv, HeldoutHasEvidence, SuitesAgree, AllFrozen
  <1> QED BY <1>1, SelectionInvariant, PTL

-----------------------------------------------------------------------------
(* The decision rules.                                                      *)

Results == [Checkpoints -> [rate : Rates, span : Spans]]

\* Evidence d is at least as good as e in every part.
Improves(e, d) ==
    /\ d.rule = e.rule
    /\ e.rule = "selection" =>
        /\ d.candidate = e.candidate
        /\ \A c \in Checkpoints \ {e.candidate} :
            d.results[c].rate <= e.results[c].rate /\ d.results[c].span >= e.results[c].span
        /\ d.results[e.candidate].rate >= e.results[e.candidate].rate
        /\ d.results[e.candidate].span <= e.results[e.candidate].span
    /\ e.rule \in {"cloning", "curriculum"} => d.full >= e.full /\ d.ablated <= e.ablated
    /\ e.rule = "cloning" =>
        \A c \in Checkpoints : d.curve[c] >= e.curve[c] /\ d.ablatedCurve[c] <= e.ablatedCurve[c]
    /\ e.rule = "curriculum" => d.failure >= e.failure /\ d.ablatedFailure <= e.ablatedFailure
    /\ e.rule = "acceptance" =>
        /\ d.mappo >= e.mappo /\ d.ippo >= e.ippo /\ d.failure >= e.failure
        /\ d.makespan <= e.makespan /\ d.optimum >= e.optimum
    /\ e.rule = "release" =>
        /\ e.trained \subseteq d.trained /\ e.selected \subseteq d.selected
        /\ e.evaluated \subseteq d.evaluated /\ e.decided \subseteq d.decided
        /\ (e.accepted => d.accepted) /\ (e.report => d.report) /\ (e.artifacts => d.artifacts)
        /\ (d.leak => e.leak)

LEMMA Numbers ==
    ASSUME ProtocolNumbers
    PROVE  /\ (\A x \in Rates : x \in Nat) /\ (\A x \in Spans : x \in Nat)
           /\ (\A c \in Checkpoints : c \in Nat)
           /\ CompletionMin \in Int /\ FailureMin \in Int /\ GainMin \in Int
           /\ FailureGainMin \in Int /\ DeltaMin \in Int /\ RatioMax \in Nat
  BY DEF ProtocolNumbers

LEMMA Products ==
    ASSUME NEW k \in Nat, NEW x \in Nat, NEW y \in Nat, x <= y
    PROVE  k * x <= k * y /\ k * x \in Nat /\ k * y \in Nat
  <1>1. PICK n \in Nat : y = x + n
    <2>1. y - x \in Nat /\ y = x + (y - x)
      OBVIOUS
    <2> QED BY <2>1
  <1>2. k * y = k * x + k * n
    BY <1>1
  <1>3. k * n \in Nat /\ k * x \in Nat
    OBVIOUS
  <1> QED BY <1>2, <1>3

\* A set of numbers has a least element.
LEMMA LeastNumber == ASSUME NEW S \in SUBSET Nat, S # {} PROVE \E x \in S : \A y \in S : x <= y
  <1> DEFINE R == {ss \in Nat \X Nat : ss[1] < ss[2]}
  <1>1. IsWellFoundedOn(R, Nat)
    BY NatLessThanWellFounded DEF OpToRel
  <1>2. \E x \in S : \A y \in S : ~ (<<y, x>> \in R)
    <2> HIDE DEF R
    <2> QED BY <1>1, WFMin
  <1>3. \A x, y \in Nat : ~ (<<y, x>> \in R) => x <= y
    <2> SUFFICES ASSUME NEW x \in Nat, NEW y \in Nat, y < x PROVE <<y, x>> \in R
      OBVIOUS
    <2> QED OBVIOUS
  <1> HIDE DEF R
  <1> QED BY <1>2, <1>3

LEMMA LeastOfRules ==
    ASSUME NEW S \in SUBSET Nat, S # {}
    PROVE  Rules!Min(S) \in S /\ \A y \in S : Rules!Min(S) <= y
  BY LeastNumber DEF Rules!Min

\* One checkpoint is better than all others, and it is the one selected.
LEMMA BestSelected ==
    ASSUME ProtocolNumbers, NEW results \in Results, NEW c \in Checkpoints
    PROVE  Rules!Selected(results) = c
             <=> \A d \in Checkpoints \ {c} : Rules!Better(results, c, d)
  <1> DEFINE Best(b) == \A d \in Checkpoints \ {b} : Rules!Better(results, b, d)
             rate(d) == results[d].rate
             span(d) == results[d].span
             missing == {100 - rate(d) : d \in Checkpoints}
  <1>1. \A d \in Checkpoints : /\ rate(d) \in 0..100 /\ span(d) \in Nat
                               /\ Transitions[d] \in Nat /\ d \in Nat
    BY DEF ProtocolNumbers, Results
  <1>2. PICK r \in Checkpoints : \A d \in Checkpoints : rate(d) <= rate(r)
    <2>1. missing \subseteq Nat /\ missing # {}
      BY <1>1 DEF ProtocolNumbers
    <2> HIDE DEF missing
    <2>2. PICK x \in missing : \A y \in missing : x <= y
      BY <2>1, LeastNumber
    <2> USE DEF missing
    <2>3. PICK r \in Checkpoints : x = 100 - rate(r)
      BY <2>2
    <2>4. \A d \in Checkpoints : 100 - rate(r) <= 100 - rate(d)
      BY <2>2, <2>3
    <2> HIDE DEF missing, rate
    <2> QED BY <1>1, <2>4
  <1> DEFINE A == {d \in Checkpoints : rate(d) = rate(r)}
             spans == {span(d) : d \in A}
  <1>3. PICK s \in A : \A d \in A : span(s) <= span(d)
    <2>1. spans \subseteq Nat /\ spans # {}
      BY <1>1
    <2> HIDE DEF spans
    <2>2. PICK x \in spans : \A y \in spans : x <= y
      BY <2>1, LeastNumber
    <2> USE DEF spans
    <2>3. PICK s \in A : x = span(s)
      BY <2>2
    <2> QED BY <2>2, <2>3
  <1> DEFINE B == {d \in A : span(d) = span(s)}
             transitions == {Transitions[d] : d \in B}
  <1>4. PICK t \in B : \A d \in B : Transitions[t] <= Transitions[d]
    <2>1. transitions \subseteq Nat /\ transitions # {}
      BY <1>1
    <2> HIDE DEF transitions
    <2>2. PICK x \in transitions : \A y \in transitions : x <= y
      BY <2>1, LeastNumber
    <2> USE DEF transitions
    <2>3. PICK t \in B : x = Transitions[t]
      BY <2>2
    <2> QED BY <2>2, <2>3
  <1> DEFINE C == {d \in B : Transitions[d] = Transitions[t]}
  <1>5. PICK b \in C : \A d \in C : b <= d
    <2>1. C \subseteq Nat /\ C # {}
      BY <1>1
    <2> HIDE DEF C
    <2> QED BY <2>1, LeastNumber
  <1>6. b \in Checkpoints /\ Best(b)
    <2>1. b \in Checkpoints /\ rate(b) = rate(r) /\ span(b) = span(s) /\ Transitions[b] = Transitions[t]
      OBVIOUS
    <2>2. ASSUME NEW d \in Checkpoints, d # b PROVE Rules!Better(results, b, d)
      <3>1. CASE rate(d) # rate(r)
        <4>1. rate(d) <= rate(r) /\ rate(d) \in Int /\ rate(r) \in Int
          BY <1>1, <1>2, <2>2
        <4>2. rate(b) > rate(d)
          <5> HIDE DEF rate
          <5> QED BY <2>1, <3>1, <4>1
        <4> QED BY <4>2 DEF Rules!Better
      <3>2. CASE d \in A /\ span(d) # span(s)
        BY <1>1, <1>3, <2>1, <3>2 DEF Rules!Better
      <3>3. CASE d \in B /\ Transitions[d] # Transitions[t]
        BY <1>1, <1>4, <2>1, <3>3 DEF Rules!Better
      <3>4. CASE d \in C
        BY <1>1, <1>5, <2>1, <2>2, <3>4 DEF Rules!Better
      <3> QED BY <3>1, <3>2, <3>3, <3>4
    <2> QED BY <2>1, <2>2
  <1> HIDE DEF A, B, C
  <1>7. \A x, y \in Checkpoints : ~(Rules!Better(results, x, y) /\ Rules!Better(results, y, x))
    <2> SUFFICES ASSUME NEW x \in Checkpoints, NEW y \in Checkpoints
                 PROVE  ~(Rules!Better(results, x, y) /\ Rules!Better(results, y, x))
      OBVIOUS
    <2>1. /\ results[x].rate \in Int /\ results[y].rate \in Int /\ results[x].span \in Int
          /\ results[y].span \in Int /\ Transitions[x] \in Int /\ Transitions[y] \in Int
          /\ x \in Int /\ y \in Int
      BY <1>1
    <2> QED BY <2>1 DEF Rules!Better
  <1>8. \A x, y \in Checkpoints : Best(x) /\ Best(y) => x = y
    BY <1>7
  <1> HIDE DEF Best
  <1>9. Rules!Selected(results) = CHOOSE x \in Checkpoints : Best(x)
    BY DEF Rules!Selected, Best
  <1>10. Rules!Selected(results) \in Checkpoints /\ Best(Rules!Selected(results))
    BY <1>6, <1>9
  <1>11. Rules!Selected(results) = c <=> Best(c)
    BY <1>8, <1>10
  <1> QED BY <1>11 DEF Best

-----------------------------------------------------------------------------
\* Evidence by its rule.
LEMMA EvidenceParts ==
    ASSUME NEW e \in Rules!Evidence
    PROVE  /\ e.rule \in {"selection", "cloning", "curriculum", "acceptance", "release"}
           /\ e.rule = "selection" =>
                e \in [rule : {"selection"}, candidate : Checkpoints, results : Results]
           /\ e.rule = "cloning" =>
                e \in [rule : {"cloning"}, full : Rates, ablated : Rates,
                       curve : [Checkpoints -> Rates], ablatedCurve : [Checkpoints -> Rates]]
           /\ e.rule = "curriculum" =>
                e \in [rule : {"curriculum"}, full : Rates, ablated : Rates, failure : Rates,
                       ablatedFailure : Rates]
           /\ e.rule = "acceptance" =>
                e \in [rule : {"acceptance"}, mappo : Rates, ippo : Rates, failure : Rates,
                       makespan : Spans, optimum : Spans]
           /\ e.rule = "release" =>
                e \in [rule : {"release"}, trained : SUBSET Runs, selected : SUBSET Runs,
                       evaluated : SUBSET Runs, decided : SUBSET Rules!Hypotheses,
                       accepted : BOOLEAN, report : BOOLEAN, artifacts : BOOLEAN, leak : BOOLEAN]
  BY DEF Rules!Evidence, Rules!Curves, Results

\* The best checkpoint stays the best when it gains and others lose.
LEMMA SelectionMonotone ==
    ASSUME ProtocolNumbers, NEW old \in Results, NEW new \in Results, NEW c \in Checkpoints,
           new[c].rate >= old[c].rate, new[c].span <= old[c].span,
           \A d \in Checkpoints \ {c} : new[d].rate <= old[d].rate /\ new[d].span >= old[d].span,
           Rules!Selected(old) = c
    PROVE  Rules!Selected(new) = c
  <1>1. \A d \in Checkpoints \ {c} : Rules!Better(old, c, d)
    BY BestSelected
  <1>2. ASSUME NEW d \in Checkpoints \ {c} PROVE Rules!Better(new, c, d)
    <2>1. /\ old[c].rate \in Int /\ old[d].rate \in Int /\ old[c].span \in Int /\ old[d].span \in Int
          /\ new[c].rate \in Int /\ new[d].rate \in Int /\ new[c].span \in Int /\ new[d].span \in Int
      BY Numbers DEF Results
    <2>2. /\ new[c].rate >= old[c].rate /\ new[c].span <= old[c].span
          /\ new[d].rate <= old[d].rate /\ new[d].span >= old[d].span
      OBVIOUS
    <2>3. Rules!Better(old, c, d)
      BY <1>1
    <2> QED BY <2>1, <2>2, <2>3 DEF Rules!Better
  <1> QED BY <1>2, BestSelected

\* A curve that is nowhere lower reaches the rate no later.
LEMMA ReachesNoLater ==
    ASSUME ProtocolNumbers, NEW low \in [Checkpoints -> Rates], NEW high \in [Checkpoints -> Rates],
           \A c \in Checkpoints : high[c] >= low[c]
    PROVE  /\ Rules!TransitionsTo(low) \in Nat /\ Rules!TransitionsTo(high) \in Nat
           /\ Rules!TransitionsTo(low) # Rules!Never =>
                /\ Rules!TransitionsTo(high) # Rules!Never
                /\ Rules!TransitionsTo(high) <= Rules!TransitionsTo(low)
  <1> DEFINE reached(curve) == {c \in Checkpoints : curve[c] >= CompletionMin}
  <1>1. ASSUME NEW curve \in [Checkpoints -> Rates]
        PROVE  /\ Rules!TransitionsTo(curve) =
                    IF reached(curve) = {} THEN 0 ELSE Transitions[Rules!Min(reached(curve))]
               /\ reached(curve) # {} =>
                    /\ Rules!Min(reached(curve)) \in reached(curve)
                    /\ \A c \in reached(curve) : Rules!Min(reached(curve)) <= c
    <2>1. reached(curve) \in SUBSET Nat
      BY DEF ProtocolNumbers
    <2> QED BY <2>1, LeastOfRules DEF Rules!TransitionsTo, Rules!Never
  <1>2. reached(low) \subseteq reached(high)
    <2>1. \A c \in Checkpoints : low[c] \in Int /\ high[c] \in Int
      BY Numbers
    <2>2. ASSUME NEW c \in Checkpoints, low[c] >= CompletionMin PROVE high[c] >= CompletionMin
      <3>1. high[c] >= low[c] /\ CompletionMin \in Int
        BY Numbers
      <3> QED BY <2>1, <2>2, <3>1
    <2> QED BY <2>2
  <1>3. \A curve : reached(curve) \subseteq Checkpoints
    OBVIOUS
  <1> HIDE DEF reached
  <1>4. \A c \in Checkpoints : Transitions[c] \in Nat /\ Transitions[c] # 0
    BY DEF ProtocolNumbers
  <1>5. Rules!TransitionsTo(low) \in Nat /\ Rules!TransitionsTo(high) \in Nat
    BY <1>1, <1>3, <1>4
  <1>6. ASSUME Rules!TransitionsTo(low) # 0
        PROVE  Rules!TransitionsTo(high) # 0 /\ Rules!TransitionsTo(high) <= Rules!TransitionsTo(low)
    <2> DEFINE a == Rules!Min(reached(high))
               b == Rules!Min(reached(low))
    <2>1. reached(low) # {} /\ reached(high) # {}
      BY <1>1, <1>2, <1>6
    <2>2. a \in Checkpoints /\ b \in Checkpoints /\ a <= b
      BY <1>1, <1>2, <1>3, <2>1
    <2>3. Rules!TransitionsTo(low) = Transitions[b] /\ Rules!TransitionsTo(high) = Transitions[a]
      BY <1>1, <2>1
    <2> HIDE DEF a, b
    <2>4. Transitions[a] <= Transitions[b]
      <3>1. a \in Nat /\ b \in Nat
        BY <2>2 DEF ProtocolNumbers
      <3>2. CASE a = b
        BY <1>4, <2>2, <3>2
      <3>3. CASE a < b
        BY <2>2, <3>3 DEF ProtocolNumbers
      <3> QED BY <2>2, <3>1, <3>2, <3>3
    <2> QED BY <1>4, <2>2, <2>3, <2>4
  <1> QED BY <1>5, <1>6 DEF Rules!Never

\* A reduction stays large enough when the full variant needs less, or the ablated more.
LEMMA ReductionMonotone ==
    ASSUME ProtocolNumbers, NEW f \in Nat, NEW a \in Nat, NEW f2 \in Nat, NEW a2 \in Nat,
           f # Rules!Never => f2 # Rules!Never /\ f2 <= f,
           a2 # Rules!Never => a # Rules!Never /\ a <= a2,
           Rules!Reduced(f, a)
    PROVE  Rules!Reduced(f2, a2)
  <1> USE DEF Rules!Never
  <1>1. f # 0 /\ f2 # 0 /\ f2 <= f
    BY DEF Rules!Reduced
  <1>2. CASE a2 = 0
    BY <1>1, <1>2 DEF Rules!Reduced
  <1>3. CASE a2 # 0
    <2>1. a # 0 /\ a <= a2 /\ (a - f) * 100 >= ReductionMin * a
      BY <1>3 DEF Rules!Reduced
    <2>2. PICK k \in Nat : k + ReductionMin = 100
      <3>1. 100 - ReductionMin \in Nat /\ (100 - ReductionMin) + ReductionMin = 100
        BY DEF ProtocolNumbers
      <3> QED BY <3>1
    <2>3. ReductionMin \in Nat
      BY DEF ProtocolNumbers
    <2>4. /\ (a - f) * 100 = k * a + ReductionMin * a - 100 * f
          /\ (a2 - f2) * 100 = k * a2 + ReductionMin * a2 - 100 * f2
      <3>1. \A x \in Nat : 100 * x = k * x + ReductionMin * x
        <4> TAKE x \in Nat
        <4>1. (k + ReductionMin) * x = k * x + ReductionMin * x
          BY <2>2, <2>3
        <4> QED BY <2>2, <4>1
      <3>2. \A x, y \in Nat : (x - y) * 100 = 100 * x - 100 * y
        OBVIOUS
      <3> QED BY <2>3, <3>1, <3>2
    <2>5. k * a <= k * a2
      BY <2>1, <2>2, Products
    <2>6. /\ k * a \in Nat /\ k * a2 \in Nat
          /\ ReductionMin * a \in Nat /\ ReductionMin * a2 \in Nat
      BY <2>2, <2>3
    <2>7. (a2 - f2) * 100 >= ReductionMin * a2
      BY <1>1, <2>1, <2>4, <2>5, <2>6
    <2> QED BY <1>1, <2>7 DEF Rules!Reduced
  <1> QED BY <1>2, <1>3

LEMMA VerdictMonotone ==
    ASSUME ProtocolNumbers, NEW e \in Rules!Evidence, NEW d \in Rules!Evidence,
           Improves(e, d), Rules!Verdict(e)
    PROVE  Rules!Verdict(d)
  <1>1. d.rule = e.rule
    BY DEF Improves
  <1>2. CASE e.rule = "selection"
    <2>1. /\ e.results \in Results /\ d.results \in Results /\ e.candidate \in Checkpoints
          /\ d.candidate = e.candidate /\ Rules!Selected(e.results) = e.candidate
      BY <1>1, <1>2, EvidenceParts DEF Improves, Rules!Verdict
    <2>2. Rules!Selected(d.results) = d.candidate
      BY <1>2, <2>1, SelectionMonotone DEF Improves
    <2> QED BY <1>1, <1>2, <2>2 DEF Rules!Verdict
  <1>3. CASE e.rule = "cloning"
    <2>1. /\ e.curve \in [Checkpoints -> Rates] /\ e.ablatedCurve \in [Checkpoints -> Rates]
          /\ d.curve \in [Checkpoints -> Rates] /\ d.ablatedCurve \in [Checkpoints -> Rates]
          /\ e.full \in Rates /\ e.ablated \in Rates /\ d.full \in Rates /\ d.ablated \in Rates
      BY <1>1, <1>3, EvidenceParts
    <2>2. /\ d.full >= e.full /\ d.ablated <= e.ablated
          /\ \A c \in Checkpoints : d.curve[c] >= e.curve[c]
          /\ \A c \in Checkpoints : d.ablatedCurve[c] <= e.ablatedCurve[c]
      BY <1>3 DEF Improves
    <2>3. CASE e.full - e.ablated >= GainMin
      <3>1. d.full - d.ablated >= GainMin
        <4>1. e.full \in Int /\ e.ablated \in Int /\ d.full \in Int /\ d.ablated \in Int /\ GainMin \in Int
          BY <2>1, Numbers
        <4> QED BY <2>2, <2>3, <4>1
      <3> QED BY <1>1, <1>3, <3>1 DEF Rules!Verdict, Rules!CloningSupported
    <2>4. CASE Rules!Reduced(Rules!TransitionsTo(e.curve), Rules!TransitionsTo(e.ablatedCurve))
      <3>1. \A c \in Checkpoints : e.ablatedCurve[c] >= d.ablatedCurve[c]
        <4>1. \A c \in Checkpoints : e.ablatedCurve[c] \in Int /\ d.ablatedCurve[c] \in Int
          BY <2>1, Numbers
        <4> QED BY <2>2, <4>1
      <3>2. Rules!Reduced(Rules!TransitionsTo(d.curve), Rules!TransitionsTo(d.ablatedCurve))
        <4>1. /\ Rules!TransitionsTo(e.curve) \in Nat /\ Rules!TransitionsTo(d.curve) \in Nat
              /\ Rules!TransitionsTo(e.curve) # Rules!Never =>
                    /\ Rules!TransitionsTo(d.curve) # Rules!Never
                    /\ Rules!TransitionsTo(d.curve) <= Rules!TransitionsTo(e.curve)
          BY <2>1, <2>2, ReachesNoLater
        <4>2. /\ Rules!TransitionsTo(e.ablatedCurve) \in Nat /\ Rules!TransitionsTo(d.ablatedCurve) \in Nat
              /\ Rules!TransitionsTo(d.ablatedCurve) # Rules!Never =>
                    /\ Rules!TransitionsTo(e.ablatedCurve) # Rules!Never
                    /\ Rules!TransitionsTo(e.ablatedCurve) <= Rules!TransitionsTo(d.ablatedCurve)
          BY <2>1, <3>1, ReachesNoLater
        <4> QED BY <2>4, <4>1, <4>2, ReductionMonotone
      <3> QED BY <1>1, <1>3, <3>2 DEF Rules!Verdict, Rules!CloningSupported
    <2> QED BY <1>3, <2>3, <2>4 DEF Rules!Verdict, Rules!CloningSupported
  <1>4. CASE e.rule = "curriculum"
    <2>1. /\ e.full \in Int /\ e.ablated \in Int /\ e.failure \in Int /\ e.ablatedFailure \in Int
          /\ d.full \in Int /\ d.ablated \in Int /\ d.failure \in Int /\ d.ablatedFailure \in Int
      <3>1. /\ e.full \in Rates /\ e.ablated \in Rates /\ e.failure \in Rates /\ e.ablatedFailure \in Rates
            /\ d.full \in Rates /\ d.ablated \in Rates /\ d.failure \in Rates /\ d.ablatedFailure \in Rates
        BY <1>1, <1>4, EvidenceParts
      <3> QED BY <3>1, Numbers
    <2>2. /\ d.full >= e.full /\ d.ablated <= e.ablated
          /\ d.failure >= e.failure /\ d.ablatedFailure <= e.ablatedFailure
      BY <1>4 DEF Improves
    <2>3. Rules!CurriculumSupported(d)
      BY <1>4, <2>1, <2>2, Numbers DEF Rules!Verdict, Rules!CurriculumSupported
    <2> QED BY <1>1, <1>4, <2>3 DEF Rules!Verdict
  <1>5. CASE e.rule = "acceptance"
    <2>1. /\ e.mappo \in Nat /\ e.ippo \in Nat /\ e.failure \in Nat /\ e.makespan \in Nat /\ e.optimum \in Nat
          /\ d.mappo \in Nat /\ d.ippo \in Nat /\ d.failure \in Nat /\ d.makespan \in Nat /\ d.optimum \in Nat
      <3>1. /\ e.mappo \in Rates /\ e.ippo \in Rates /\ e.failure \in Rates /\ e.makespan \in Spans
            /\ d.mappo \in Rates /\ d.ippo \in Rates /\ d.failure \in Rates /\ d.makespan \in Spans
            /\ e.optimum \in Spans /\ d.optimum \in Spans
        BY <1>1, <1>5, EvidenceParts
      <3> QED BY <3>1, Numbers
    <2>2. /\ d.mappo >= e.mappo /\ d.ippo >= e.ippo /\ d.failure >= e.failure
          /\ d.makespan <= e.makespan /\ d.optimum >= e.optimum
      BY <1>5 DEF Improves
    <2>3. Rules!Accepted(e)
      BY <1>5 DEF Rules!Verdict
    <2>4. RatioMax * e.optimum <= RatioMax * d.optimum /\ RatioMax * e.optimum \in Nat
                                                       /\ RatioMax * d.optimum \in Nat
      <3>1. RatioMax \in Nat /\ e.optimum <= d.optimum
        BY <2>1, <2>2, Numbers
      <3> QED BY <2>1, <3>1, Products
    <2>5. d.makespan * 100 <= RatioMax * d.optimum
      BY <2>1, <2>2, <2>3, <2>4 DEF Rules!Accepted
    <2>6. Rules!Accepted(d)
      BY <2>1, <2>2, <2>3, <2>5, Numbers DEF Rules!Accepted
    <2> QED BY <1>1, <1>5, <2>6 DEF Rules!Verdict
  <1>6. CASE e.rule = "release"
    <2>1. Rules!Complete(e)
      BY <1>6 DEF Rules!Verdict
    <2>2. Rules!Complete(d)
      BY <1>1, <1>6, <2>1, EvidenceParts DEF Rules!Complete, Improves
    <2> QED BY <1>1, <1>6, <2>2 DEF Rules!Verdict
  <1> QED BY <1>2, <1>3, <1>4, <1>5, <1>6, EvidenceParts

\* Each step makes the evidence better in one part and leaves the others as they are.
LEMMA NumberImproves ==
    ASSUME ProtocolNumbers, basis \in Rules!Evidence, Rules!ImproveNumber
    PROVE  basis' \in Rules!Evidence /\ Improves(basis, basis')
  <1>1. PICK f \in DOMAIN basis \cap (Rules!More \cup Rules!Less), v \in Rates \cup Spans :
            /\ IF f \in Rules!More THEN v > basis[f] ELSE v < basis[f]
            /\ basis' = [basis EXCEPT ![f] = v]
            /\ basis' \in Rules!Evidence
    BY DEF Rules!ImproveNumber
  <1>2. /\ f \in {"full", "failure", "mappo", "ippo", "optimum", "ablated", "ablatedFailure", "makespan"}
        /\ f \in DOMAIN basis
        /\ f \in {"full", "failure", "mappo", "ippo", "optimum"} => v > basis[f]
        /\ f \in {"ablated", "ablatedFailure", "makespan"} => v < basis[f]
    BY <1>1 DEF Rules!More, Rules!Less
  <1>3. CASE basis.rule = "selection"
    BY <1>1, <1>2, <1>3, EvidenceParts
  <1>4. CASE basis.rule = "cloning"
    <2>1. /\ basis \in [rule : {"cloning"}, full : Rates, ablated : Rates,
                           curve : [Checkpoints -> Rates], ablatedCurve : [Checkpoints -> Rates]]
      BY <1>4, EvidenceParts
    <2>2. /\ basis'.rule = basis.rule /\ basis'.curve = basis.curve
          /\ basis'.ablatedCurve = basis.ablatedCurve
          /\ basis'.full = IF f = "full" THEN v ELSE basis.full
          /\ basis'.ablated = IF f = "ablated" THEN v ELSE basis.ablated
      BY <1>1, <1>2, <2>1
    <2>3. basis.full \in Nat /\ basis.ablated \in Nat /\ v \in Nat
      BY <1>1, <2>1, Numbers
    <2>4. \A c \in Checkpoints : basis.curve[c] \in Nat /\ basis.ablatedCurve[c] \in Nat
      BY <2>1, Numbers
    <2>5. basis'.full >= basis.full /\ basis'.ablated <= basis.ablated
      BY <1>2, <2>2, <2>3
    <2> QED BY <1>1, <1>4, <2>2, <2>4, <2>5 DEF Improves
  <1>5. CASE basis.rule = "curriculum"
    <2>1. basis \in [rule : {"curriculum"}, full : Rates, ablated : Rates, failure : Rates,
                        ablatedFailure : Rates]
      BY <1>5, EvidenceParts
    <2>2. /\ basis'.rule = basis.rule
          /\ basis'.full = IF f = "full" THEN v ELSE basis.full
          /\ basis'.ablated = IF f = "ablated" THEN v ELSE basis.ablated
          /\ basis'.failure = IF f = "failure" THEN v ELSE basis.failure
          /\ basis'.ablatedFailure = IF f = "ablatedFailure" THEN v ELSE basis.ablatedFailure
      BY <1>1, <1>2, <2>1
    <2>3. /\ basis.full \in Nat /\ basis.ablated \in Nat /\ v \in Nat
          /\ basis.failure \in Nat /\ basis.ablatedFailure \in Nat
      BY <1>1, <2>1, Numbers
    <2>4. /\ basis'.full >= basis.full /\ basis'.ablated <= basis.ablated
          /\ basis'.failure >= basis.failure /\ basis'.ablatedFailure <= basis.ablatedFailure
      BY <1>2, <2>2, <2>3
    <2> QED BY <1>1, <1>5, <2>2, <2>4 DEF Improves
  <1>6. CASE basis.rule = "acceptance"
    <2>1. basis \in [rule : {"acceptance"}, mappo : Rates, ippo : Rates, failure : Rates,
                        makespan : Spans, optimum : Spans]
      BY <1>6, EvidenceParts
    <2>2. /\ basis'.rule = basis.rule
          /\ basis'.mappo = IF f = "mappo" THEN v ELSE basis.mappo
          /\ basis'.ippo = IF f = "ippo" THEN v ELSE basis.ippo
          /\ basis'.failure = IF f = "failure" THEN v ELSE basis.failure
          /\ basis'.makespan = IF f = "makespan" THEN v ELSE basis.makespan
          /\ basis'.optimum = IF f = "optimum" THEN v ELSE basis.optimum
      BY <1>1, <1>2, <2>1
    <2>3. /\ basis.mappo \in Nat /\ basis.ippo \in Nat /\ basis.failure \in Nat /\ v \in Nat
          /\ basis.makespan \in Nat /\ basis.optimum \in Nat
      BY <1>1, <2>1, Numbers
    <2>4. /\ basis'.mappo >= basis.mappo /\ basis'.ippo >= basis.ippo
          /\ basis'.failure >= basis.failure /\ basis'.makespan <= basis.makespan
          /\ basis'.optimum >= basis.optimum
      BY <1>2, <2>2, <2>3
    <2> QED BY <1>1, <1>6, <2>2, <2>4 DEF Improves
  <1>7. CASE basis.rule = "release"
    BY <1>1, <1>2, <1>7, EvidenceParts
  <1> QED BY <1>3, <1>4, <1>5, <1>6, <1>7, EvidenceParts

LEMMA CurveImproves ==
    ASSUME ProtocolNumbers, basis \in Rules!Evidence, Rules!ImproveCurve
    PROVE  basis' \in Rules!Evidence /\ Improves(basis, basis')
  <1>1. basis \in [rule : {"cloning"}, full : Rates, ablated : Rates,
                      curve : [Checkpoints -> Rates], ablatedCurve : [Checkpoints -> Rates]]
    BY EvidenceParts DEF Rules!ImproveCurve
  <1>2. PICK c \in Checkpoints, v \in Rates :
            \/ v > basis.curve[c] /\ basis' = [basis EXCEPT !.curve[c] = v]
            \/ v < basis.ablatedCurve[c] /\ basis' = [basis EXCEPT !.ablatedCurve[c] = v]
    BY DEF Rules!ImproveCurve
  <1> DEFINE up == [basis.curve EXCEPT ![c] = v]
             down == [basis.ablatedCurve EXCEPT ![c] = v]
  <1>3. /\ up \in [Checkpoints -> Rates] /\ down \in [Checkpoints -> Rates]
        /\ \A d \in Checkpoints : /\ up[d] = IF d = c THEN v ELSE basis.curve[d]
                                  /\ down[d] = IF d = c THEN v ELSE basis.ablatedCurve[d]
    BY <1>1, <1>2
  <1>4. /\ basis.full \in Nat /\ basis.ablated \in Nat /\ v \in Nat
        /\ \A d \in Checkpoints : basis.curve[d] \in Nat /\ basis.ablatedCurve[d] \in Nat
    BY <1>1, <1>2, Numbers
  <1>5. \/ v > basis.curve[c] /\ basis' = [basis EXCEPT !.curve = up]
        \/ v < basis.ablatedCurve[c] /\ basis' = [basis EXCEPT !.ablatedCurve = down]
    BY <1>1, <1>2
  <1> HIDE DEF up, down
  <1>6. /\ basis' \in [rule : {"cloning"}, full : Rates, ablated : Rates,
                          curve : [Checkpoints -> Rates], ablatedCurve : [Checkpoints -> Rates]]
        /\ basis'.full = basis.full /\ basis'.ablated = basis.ablated
        /\ basis.rule = "cloning" /\ basis'.rule = "cloning"
        /\ \/ /\ v > basis.curve[c] /\ basis'.curve = up
              /\ basis'.ablatedCurve = basis.ablatedCurve
           \/ /\ v < basis.ablatedCurve[c] /\ basis'.ablatedCurve = down
              /\ basis'.curve = basis.curve
    BY <1>1, <1>3, <1>5
  <1>7. basis' \in Rules!Evidence
    BY <1>6 DEF Rules!Evidence, Rules!Curves
  <1>8. ASSUME NEW d \in Checkpoints
        PROVE  basis'.curve[d] >= basis.curve[d] /\ basis'.ablatedCurve[d] <= basis.ablatedCurve[d]
    BY <1>3, <1>4, <1>6
  <1>9. basis'.full >= basis.full /\ basis'.ablated <= basis.ablated
    BY <1>4, <1>6
  <1> QED BY <1>6, <1>7, <1>8, <1>9 DEF Improves

LEMMA CandidateImproves ==
    ASSUME ProtocolNumbers, basis \in Rules!Evidence, Rules!ImproveCandidate
    PROVE  basis' \in Rules!Evidence /\ Improves(basis, basis')
  <1>1. basis \in [rule : {"selection"}, candidate : Checkpoints, results : Results]
    BY EvidenceParts DEF Rules!ImproveCandidate
  <1>2. PICK c \in Checkpoints, rate \in Rates, span \in Spans :
            /\ IF c = basis.candidate
               THEN rate >= basis.results[c].rate /\ span <= basis.results[c].span
               ELSE rate <= basis.results[c].rate /\ span >= basis.results[c].span
            /\ basis' = [basis EXCEPT !.results[c] = [rate |-> rate, span |-> span]]
    BY DEF Rules!ImproveCandidate
  <1> DEFINE x == [rate |-> rate, span |-> span]
             new == [basis.results EXCEPT ![c] = x]
  <1>3. x \in [rate : Rates, span : Spans] /\ x.rate = rate /\ x.span = span
    OBVIOUS
  <1> HIDE DEF x
  <1>4. /\ new \in Results
        /\ \A d \in Checkpoints : new[d] = IF d = c THEN x ELSE basis.results[d]
    BY <1>1, <1>3 DEF Results
  <1>5. basis' = [basis EXCEPT !.results = new]
    BY <1>1, <1>2 DEF x
  <1> HIDE DEF new
  <1>6. /\ basis' \in [rule : {"selection"}, candidate : Checkpoints, results : Results]
        /\ basis'.candidate = basis.candidate /\ basis'.results = new
        /\ basis.rule = "selection" /\ basis'.rule = "selection"
    BY <1>1, <1>4, <1>5
  <1>7. \A d \in Checkpoints : basis.results[d].rate \in Nat /\ basis.results[d].span \in Nat
    BY <1>1, Numbers DEF Results
  <1>8. basis' \in Rules!Evidence
    BY <1>6 DEF Rules!Evidence, Results
  <1>9. ASSUME NEW d \in Checkpoints
        PROVE  IF d = basis.candidate
               THEN new[d].rate >= basis.results[d].rate /\ new[d].span <= basis.results[d].span
               ELSE new[d].rate <= basis.results[d].rate /\ new[d].span >= basis.results[d].span
    <2>1. CASE d = c
      BY <1>2, <1>3, <1>4, <2>1
    <2>2. CASE d # c
      <3>1. new[d] = basis.results[d]
        BY <1>4, <2>2
      <3> QED BY <1>7, <3>1
    <2> QED BY <2>1, <2>2
  <1>10. basis.candidate \in Checkpoints
    BY <1>1
  <1> QED BY <1>6, <1>8, <1>9, <1>10 DEF Improves

LEMMA ReleaseImproves ==
    ASSUME ProtocolNumbers, basis \in Rules!Evidence, Rules!ImproveRelease
    PROVE  basis' \in Rules!Evidence /\ Improves(basis, basis')
  <1> DEFINE Releases ==
                [rule : {"release"}, trained : SUBSET Runs, selected : SUBSET Runs,
                 evaluated : SUBSET Runs, decided : SUBSET Rules!Hypotheses,
                 accepted : BOOLEAN, report : BOOLEAN, artifacts : BOOLEAN, leak : BOOLEAN]
  <1>1. basis \in Releases /\ basis.rule = "release"
    BY EvidenceParts DEF Rules!ImproveRelease
  <1>2. ASSUME basis' \in Releases, basis'.rule = "release",
               /\ basis.trained \subseteq basis'.trained
               /\ basis.selected \subseteq basis'.selected
               /\ basis.evaluated \subseteq basis'.evaluated
               /\ basis.decided \subseteq basis'.decided
               /\ (basis.accepted => basis'.accepted) /\ (basis.report => basis'.report)
               /\ (basis.artifacts => basis'.artifacts) /\ (basis'.leak => basis.leak)
        PROVE  basis' \in Rules!Evidence /\ Improves(basis, basis')
    BY <1>1, <1>2 DEF Rules!Evidence, Improves
  <1>3. CASE \E f \in Rules!Sets : \E x \in IF f = "decided" THEN Rules!Hypotheses ELSE Runs :
                basis' = [basis EXCEPT ![f] = @ \cup {x}]
    <2>1. PICK f \in Rules!Sets : \E x \in IF f = "decided" THEN Rules!Hypotheses ELSE Runs :
                basis' = [basis EXCEPT ![f] = @ \cup {x}]
      BY <1>3
    <2>2. PICK x \in IF f = "decided" THEN Rules!Hypotheses ELSE Runs :
                basis' = [basis EXCEPT ![f] = @ \cup {x}]
      BY <2>1
    <2> DEFINE s == basis[f] \cup {x}
    <2>3. CASE f = "trained"
      <3>1. basis' = [basis EXCEPT !.trained = s] /\ s \in SUBSET Runs /\ basis.trained \subseteq s
        BY <1>1, <2>2, <2>3
      <3> HIDE DEF s
      <3> QED BY <1>1, <1>2, <3>1
    <2>4. CASE f = "selected"
      <3>1. basis' = [basis EXCEPT !.selected = s] /\ s \in SUBSET Runs /\ basis.selected \subseteq s
        BY <1>1, <2>2, <2>4
      <3> HIDE DEF s
      <3> QED BY <1>1, <1>2, <3>1
    <2>5. CASE f = "evaluated"
      <3>1. basis' = [basis EXCEPT !.evaluated = s] /\ s \in SUBSET Runs /\ basis.evaluated \subseteq s
        BY <1>1, <2>2, <2>5
      <3> HIDE DEF s
      <3> QED BY <1>1, <1>2, <3>1
    <2>6. CASE f = "decided"
      <3>1. /\ basis' = [basis EXCEPT !.decided = s] /\ s \in SUBSET Rules!Hypotheses
            /\ basis.decided \subseteq s
        BY <1>1, <2>2, <2>6
      <3> HIDE DEF s
      <3> QED BY <1>1, <1>2, <3>1
    <2> QED BY <2>3, <2>4, <2>5, <2>6 DEF Rules!Sets
  <1>4. CASE \E f \in Rules!Flags : basis' = [basis EXCEPT ![f] = TRUE]
    <2>1. \/ basis' = [basis EXCEPT !.accepted = TRUE]
          \/ basis' = [basis EXCEPT !.report = TRUE]
          \/ basis' = [basis EXCEPT !.artifacts = TRUE]
      BY <1>4 DEF Rules!Flags
    <2> QED BY <1>1, <1>2, <2>1
  <1>5. CASE basis' = [basis EXCEPT !.leak = FALSE]
    BY <1>1, <1>2, <1>5
  <1> QED BY <1>3, <1>4, <1>5 DEF Rules!ImproveRelease

\* Better evidence never costs a verdict, for any protocol numbers, curves and results:
\* select_validation_checkpoint, decide_ablation_support with its reduction that divides,
\* audit_primary_acceptance and decide_release_completeness.
THEOREM VerdictsAreMonotone == ProtocolNumbers => (Rules!Spec => Rules!EvidenceMonotone)
  <1> SUFFICES ASSUME ProtocolNumbers PROVE Rules!Spec => Rules!EvidenceMonotone
    OBVIOUS
  <1>1. Rules!Init => basis \in Rules!Evidence
    BY DEF Rules!Init
  <1>2. basis \in Rules!Evidence /\ Rules!Next =>
            basis' \in Rules!Evidence /\ Improves(basis, basis')
    BY NumberImproves, CurveImproves, CandidateImproves, ReleaseImproves DEF Rules!Next
  <1>3. basis \in Rules!Evidence /\ [Rules!Next]_basis => (basis \in Rules!Evidence)'
    BY <1>2
  <1>4. basis \in Rules!Evidence /\ [Rules!Next]_basis =>
            [Rules!Verdict(basis) => Rules!Verdict(basis')]_basis
    BY <1>2, VerdictMonotone
  <1> QED BY <1>1, <1>3, <1>4, PTL DEF Rules!Spec, Rules!EvidenceMonotone

\* What the rules are given is evidence, and nothing else touches it.
BasisInv == world \in {"api", "script", "rules"} /\ (world = "rules" => basis \in Rules!Evidence)

\* The same in the composition, for the numbers that every run of it uses.
THEOREM EvidenceOnlyHelps == StudiesSpec => EvidenceMonotone
  <1>1. StudiesInit => BasisInv
    BY DEF StudiesInit, InitRegistry, InitRules, Rules!Init, BasisInv
  <1>2. ASSUME BasisInv, [StudiesNext]_allVars
        PROVE  BasisInv' /\ [Rules!Verdict(basis) => Rules!Verdict(basis')]_basis
    <2>1. CASE RulesStep
      <3>1. /\ basis \in Rules!Evidence /\ Rules!Next /\ world' = world
            /\ world \in {"api", "script", "rules"}
        BY <1>2, <2>1 DEF RulesStep, BasisInv
      <3>2. basis' \in Rules!Evidence /\ Improves(basis, basis')
        BY <3>1, ProtocolAssumption, NumberImproves, CurveImproves, CandidateImproves, ReleaseImproves
           DEF Rules!Next
      <3>3. Rules!Verdict(basis) => Rules!Verdict(basis')
        BY <3>1, <3>2, ProtocolAssumption, VerdictMonotone
      <3> QED BY <3>1, <3>2, <3>3 DEF BasisInv
    <2>2. ASSUME UNCHANGED <<world, basis>>
          PROVE  BasisInv' /\ [Rules!Verdict(basis) => Rules!Verdict(basis')]_basis
      BY <1>2, <2>2 DEF BasisInv
    <2> QED BY <1>2, <2>1, <2>2 DEF StudiesNext, ApiStep, ScriptStep, allVars
  <1>3. BasisInv /\ [StudiesNext]_allVars => BasisInv'
    BY <1>2
  <1>4. BasisInv /\ [StudiesNext]_allVars => [Rules!Verdict(basis) => Rules!Verdict(basis')]_basis
    BY <1>2
  <1> QED BY <1>1, <1>3, <1>4, PTL DEF StudiesSpec, EvidenceMonotone, Rules!EvidenceMonotone
=============================================================================
