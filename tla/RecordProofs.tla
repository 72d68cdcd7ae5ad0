---------------------------- MODULE RecordProofs ----------------------------
(***************************************************************************)
(* What the records of a run promise: its event log and those who read it  *)
(* (LabEvents), for any finite number of API threads and any jobs,         *)
(* the record of a copilot command (CopilotRunner), for any commands, and  *)
(* the grids of an evaluation (EvidenceGrid), for any entries and seeds.   *)
(***************************************************************************)
EXTENDS Services, FoldTheorems, SequenceTheorems, FiniteSetTheorems, TLAPS

Threads == [pc : {"submitted", "working", "failing", "over", "idle"},
            payload : Log!Names \cup {"none"}, sequence : Nat]
Streams == [pc : {"read", "send", "check", "closed"}, cursor : Nat, batch : Seq(Log!Names),
            received : Seq(Log!Names)]

LogTypeOK ==
    /\ events \in Seq(Log!Names) /\ mirror \in Seq(Nat)
    /\ thread \in [Log!Writers -> Threads]
    /\ stream \in Streams
    /\ owed \in [Log!Names -> Nat]

\* A thread has one thing to write at a time, and nothing before it has begun; no
\* two are about to write the same event to the file.
ThreadsSound ==
    /\ \A w \in Log!Writers :
        /\ thread[w].payload # "none" => thread[w].sequence = 0
        /\ thread[w].pc \in {"submitted", "idle", "failing"} => Log!Settled(w)
        /\ thread[w].sequence <= Len(events)
    /\ \A v, w \in Log!Writers :
        v # w /\ thread[v].sequence = thread[w].sequence => thread[w].sequence = 0

EventsCounted == \A e \in Log!Names : Log!Count(e) + Log!InFlight(e) = owed[e]

\* What is lost is no longer about to be written.
MirrorSound ==
    /\ Len(mirror) = Len(events) /\ cut \subseteq 1..Len(events)
    /\ \A w \in Log!Writers : thread[w].sequence \notin cut
    /\ \A n \in 1..Len(events) :
        mirror[n] = IF n \in cut \cup {thread[w].sequence : w \in Log!Writers} THEN 0 ELSE 1

\* What the client has received and what was read for it, event by event.
StreamSound ==
    /\ Len(stream.received) = stream.cursor /\ stream.cursor <= Len(events)
    /\ \A i \in 1..stream.cursor : stream.received[i] = events[i]
    /\ stream.pc = "send" =>
        /\ stream.cursor + Len(stream.batch) <= Len(events)
        /\ \A i \in 1..Len(stream.batch) : stream.batch[i] = events[stream.cursor + i]

LogInv == LogTypeOK /\ ThreadsSound /\ EventsCounted /\ MirrorSound /\ StreamSound

LEMMA LogOperators == \A S : Log!Cardinality(S) = Cardinality(S)
  BY DEF Cardinality, Log!Cardinality

LEMMA EventLength ==
    ASSUME LogTypeOK
    PROVE  Len(events) \in Nat /\ DOMAIN events = 1..Len(events) /\ Len(events) + 1 \in Nat
  BY LenProperties DEF LogTypeOK

\* How an event that is appended is counted.
LEMMA CountAppended ==
    ASSUME NEW s \in Seq(Log!Names), NEW n \in Log!Names, NEW e \in Log!Names
    PROVE  LET C(x) == Cardinality({i \in DOMAIN x : x[i] = e})
           IN  C(s) \in Nat /\ C(Append(s, n)) = C(s) + (IF n = e THEN 1 ELSE 0)
  <1> DEFINE A == {i \in DOMAIN s : s[i] = e}
             B == {i \in DOMAIN Append(s, n) : Append(s, n)[i] = e}
  <1>1. /\ Len(s) \in Nat /\ DOMAIN s = 1..Len(s)
        /\ DOMAIN Append(s, n) = 1..(Len(s) + 1)
        /\ \A i \in 1..Len(s) : Append(s, n)[i] = s[i]
        /\ Append(s, n)[Len(s) + 1] = n
    BY LenProperties, AppendProperties
  <1>2. IsFiniteSet(A) /\ Cardinality(A) \in Nat
    <2>1. IsFiniteSet(1..Len(s)) /\ A \subseteq 1..Len(s)
      BY <1>1, FS_Interval
    <2> QED BY <2>1, FS_Subset, FS_CardinalityType
  <1>3. Len(s) + 1 \notin A
    BY <1>1
  <1>4. B = IF n = e THEN A \cup {Len(s) + 1} ELSE A
    BY <1>1
  <1> HIDE DEF A, B
  <1>5. Cardinality(A \cup {Len(s) + 1}) = Cardinality(A) + 1
    BY <1>2, <1>3, FS_AddElement
  <1>6. Cardinality(B) = Cardinality(A) + (IF n = e THEN 1 ELSE 0)
    BY <1>2, <1>4, <1>5
  <1> QED BY <1>2, <1>6 DEF A, B

\* How the events in flight change with one thread.
LEMMA FlightChanged ==
    ASSUME IsFiniteSet(Users), NEW t \in [Log!Writers -> Threads], NEW w \in Log!Writers, NEW x \in Threads,
           NEW e \in Log!Names
    PROVE  LET F(u) == Cardinality({v \in Log!Writers : u[v].payload = e})
           IN  /\ F(t) \in Nat
               /\ F([t EXCEPT ![w] = x]) = F(t) + (IF x.payload = e THEN 1 ELSE 0)
                                                - (IF t[w].payload = e THEN 1 ELSE 0)
  <1> DEFINE u == [t EXCEPT ![w] = x]
             A == {v \in Log!Writers : t[v].payload = e}
             B == {v \in Log!Writers : u[v].payload = e}
             C == A \ {w}
  <1>1. \A v \in Log!Writers : u[v] = IF v = w THEN x ELSE t[v]
    OBVIOUS
  <1> HIDE DEF u
  <1>2. IsFiniteSet(A) /\ Cardinality(A) \in Nat
    <2>1. IsFiniteSet(Log!Writers) /\ A \subseteq Log!Writers
      BY FS_AddElement DEF Log!Writers
    <2> QED BY <2>1, FS_Subset, FS_CardinalityType
  <1>3. IsFiniteSet(C) /\ Cardinality(C) = Cardinality(A) - (IF t[w].payload = e THEN 1 ELSE 0)
    <2>1. w \in A <=> t[w].payload = e
      OBVIOUS
    <2>2. Cardinality(C) = IF w \in A THEN Cardinality(A) - 1 ELSE Cardinality(A)
      BY <1>2, FS_RemoveElement
    <2> HIDE DEF A, C
    <2>3. IsFiniteSet(A \ {w})
      BY <1>2, FS_RemoveElement
    <2> QED BY <1>2, <2>1, <2>2, <2>3 DEF C
  <1>4. B = IF x.payload = e THEN C \cup {w} ELSE C
    BY <1>1
  <1>5. w \notin C
    OBVIOUS
  <1> HIDE DEF A, B, C
  <1>6. Cardinality(C \cup {w}) = Cardinality(C) + 1 /\ Cardinality(C) \in Nat
    BY <1>3, <1>5, FS_AddElement, FS_CardinalityType
  <1>7. Cardinality(B) = Cardinality(A) + (IF x.payload = e THEN 1 ELSE 0)
                                        - (IF t[w].payload = e THEN 1 ELSE 0)
    BY <1>2, <1>3, <1>4, <1>6
  <1> QED BY <1>2, <1>7 DEF A, B, u

LEMMA LogInit == ASSUME IsFiniteSet(Users), Log!Init PROVE LogInv
  <1> USE DEF Log!Init
  <1>1. \A w \in Log!Writers : thread[w] = Log!At(IF w = "job" THEN "submitted" ELSE "idle")
    OBVIOUS
  <1>2. \A w \in Log!Writers : /\ thread[w].payload = "none" /\ thread[w].sequence = 0
                           /\ thread[w] \in Threads
    BY <1>1 DEF Log!At, Threads
  <1>3. LogTypeOK
    BY <1>2 DEF LogTypeOK, Streams, Log!Names, Log!Unread
  <1>4. ThreadsSound
    BY <1>2 DEF ThreadsSound, Log!Settled
  <1>5. EventsCounted
    <2> SUFFICES ASSUME NEW e \in Log!Names PROVE Log!Count(e) + Log!InFlight(e) = owed[e]
      BY DEF EventsCounted
    <2>1. Log!InFlight(e) = 0
      <3>1. {w \in Log!Writers : thread[w].payload = e} = {}
        BY <1>2 DEF Log!Names
      <3> QED BY <3>1, FS_EmptySet, LogOperators DEF Log!InFlight
    <2>2. Log!Count(e) = IF e = "run_created" THEN 1 ELSE 0
      <3>1. {i \in DOMAIN events : events[i] = e} = IF e = "run_created" THEN {1} ELSE {}
        OBVIOUS
      <3> QED BY <3>1, FS_EmptySet, FS_Singleton, LogOperators DEF Log!Count
    <2> QED BY <2>1, <2>2
  <1>6. MirrorSound
    <2>1. Len(events) = 1 /\ Len(mirror) = 1 /\ mirror[1] = 1 /\ 1..1 = {1}
      OBVIOUS
    <2> QED BY <1>2, <2>1 DEF MirrorSound
  <1>7. StreamSound
    BY DEF StreamSound, Log!Unread
  <1> QED BY <1>3, <1>4, <1>5, <1>6, <1>7 DEF LogInv

\* A thread that has nothing to write commits a change of status and owes its event.
LEMMA StatusChange ==
    ASSUME LogInv, IsFiniteSet(Users), NEW w \in Log!Writers, NEW n \in Log!Names,
           NEW place \in {"working", "over"},
           Log!Settled(w), Log!Then(w, place, n), Log!Owe(n), UNCHANGED <<events, mirror, cut, stream>>
    PROVE  LogInv'
  <1> DEFINE x == [Log!At(place) EXCEPT !.payload = n]
  <1> USE DEF LogInv
  <1>1. x \in Threads /\ x.pc = place /\ x.payload = n /\ x.sequence = 0 /\ n # "none"
    BY DEF Log!At, Threads, Log!Names
  <1>2. thread' = [thread EXCEPT ![w] = x] /\ thread \in [Log!Writers -> Threads]
    BY DEF Log!Then, LogTypeOK
  <1> HIDE DEF x
  <1>3. \A v \in Log!Writers : thread'[v] = IF v = w THEN x ELSE thread[v]
    BY <1>2
  <1>4. thread[w].payload = "none" /\ thread[w].sequence = 0
    BY DEF Log!Settled
  <1>5. LogTypeOK'
    BY <1>1, <1>2 DEF LogTypeOK, Log!Owe
  <1>6. ThreadsSound'
    BY <1>1, <1>3, <1>4, EventLength DEF ThreadsSound, Log!Settled
  <1>7. EventsCounted'
    <2> SUFFICES ASSUME NEW e \in Log!Names PROVE (Log!Count(e) + Log!InFlight(e))' = owed'[e]
      BY DEF EventsCounted
    <2>1. Log!InFlight(e)' = Log!InFlight(e) + (IF n = e THEN 1 ELSE 0) /\ Log!InFlight(e) \in Nat
      <3>1. thread[w].payload # e
        BY <1>4 DEF Log!Names
      <3> QED BY <1>1, <1>2, <3>1, FlightChanged, LogOperators DEF Log!InFlight
    <2>2. Log!Count(e)' = Log!Count(e) /\ Log!Count(e) \in Nat
      BY CountAppended, LogOperators DEF Log!Count, LogTypeOK
    <2>3. owed'[e] = owed[e] + (IF n = e THEN 1 ELSE 0) /\ owed[e] \in Nat
      BY DEF Log!Owe, LogTypeOK
    <2> QED BY <2>1, <2>2, <2>3 DEF EventsCounted
  <1>8. MirrorSound'
    <2>1. \A v \in Log!Writers : thread'[v].sequence = thread[v].sequence
      BY <1>1, <1>3, <1>4
    <2> QED BY <2>1 DEF MirrorSound
  <1>9. StreamSound'
    BY DEF StreamSound
  <1> QED BY <1>5, <1>6, <1>7, <1>8, <1>9

\* What a client has received stays what the table begins with.
LEMMA StreamKeeps ==
    ASSUME LogInv, NEW n \in Log!Names, events' = Append(events, n), UNCHANGED stream
    PROVE  StreamSound'
  <1> USE DEF LogInv
  <1>1. /\ Len(events) \in Nat /\ Len(events') = Len(events) + 1
        /\ \A i \in 1..Len(events) : events'[i] = events[i]
    BY EventLength, AppendProperties DEF LogTypeOK
  <1>2. stream.cursor \in Nat /\ Len(stream.batch) \in Nat
    BY LenProperties DEF LogTypeOK, Streams
  <1>3. \A i \in 1..stream.cursor : i \in 1..Len(events)
    BY <1>1, <1>2 DEF StreamSound
  <1>4. stream.pc = "send" => \A i \in 1..Len(stream.batch) : stream.cursor + i \in 1..Len(events)
    BY <1>1, <1>2 DEF StreamSound
  <1> QED BY <1>1, <1>2, <1>3, <1>4 DEF StreamSound

\* The file does not have the next event.
NotYetWritten == mirror' = Append(mirror, 0)

\* An event becomes the next of the table and is to be written to the file.
LEMMA Appended ==
    ASSUME LogInv, IsFiniteSet(Users), NEW w \in Log!Writers, NEW n \in Log!Names, NEW x \in Threads,
           thread[w].sequence = 0, x.pc \notin {"submitted", "idle", "failing"},
           x.payload = "none", x.sequence = Len(events) + 1,
           thread' = [thread EXCEPT ![w] = x], events' = Append(events, n),
           \/ thread[w].payload = n /\ UNCHANGED owed
           \/ thread[w].payload = "none" /\ Log!Owe(n),
           NotYetWritten, UNCHANGED <<cut, stream>>
    PROVE  LogInv'
  <1> USE DEF LogInv
  <1>1. /\ Len(events) \in Nat /\ DOMAIN events = 1..Len(events) /\ Len(events') = Len(events) + 1
        /\ DOMAIN events' = 1..(Len(events) + 1) /\ events' \in Seq(Log!Names)
    BY EventLength, AppendProperties, LenProperties DEF LogTypeOK
  <1>2. thread \in [Log!Writers -> Threads]
    BY DEF LogTypeOK
  <1>3. \A v \in Log!Writers : thread'[v] = IF v = w THEN x ELSE thread[v]
    BY <1>2
  <1>4. \A v \in Log!Writers : thread[v].sequence \in Nat /\ thread[v].sequence <= Len(events)
    BY <1>2 DEF ThreadsSound, Threads
  <1>5. LogTypeOK'
    <2>1. thread' \in [Log!Writers -> Threads]
      BY <1>2
    <2>2. owed' \in [Log!Names -> Nat]
      <3>1. owed \in [Log!Names -> Nat]
        BY DEF LogTypeOK
      <3>2. \A k \in Nat : k + 1 \in Nat
        OBVIOUS
      <3> HIDE DEF LogInv
      <3>3. CASE UNCHANGED owed
        BY <3>1, <3>3
      <3>4. CASE Log!Owe(n)
        BY <3>1, <3>2, <3>4 DEF Log!Owe
      <3> QED BY <3>3, <3>4
    <2>3. mirror' \in Seq(Nat)
      BY AppendProperties DEF LogTypeOK, NotYetWritten
    <2> QED BY <1>1, <2>1, <2>2, <2>3 DEF LogTypeOK
  <1>6. ThreadsSound'
    BY <1>1, <1>3, <1>4 DEF ThreadsSound, Log!Settled
  <1>7. EventsCounted'
    <2> SUFFICES ASSUME NEW e \in Log!Names PROVE (Log!Count(e) + Log!InFlight(e))' = owed'[e]
      BY DEF EventsCounted
    <2>1. Log!InFlight(e)' = Log!InFlight(e) - (IF thread[w].payload = e THEN 1 ELSE 0) /\ Log!InFlight(e) \in Nat
      <3>1. x.payload # e
        BY DEF Log!Names
      <3> DEFINE F(u) == Cardinality({v \in Log!Writers : u[v].payload = e})
      <3>2. /\ F(thread) \in Nat
            /\ F([thread EXCEPT ![w] = x]) = F(thread) + (IF x.payload = e THEN 1 ELSE 0)
                                             - (IF thread[w].payload = e THEN 1 ELSE 0)
        BY <1>2, FlightChanged
      <3>3. Log!InFlight(e) = F(thread) /\ Log!InFlight(e)' = F(thread')
        BY LogOperators DEF Log!InFlight
      <3> HIDE DEF F, LogInv
      <3> QED BY <3>1, <3>2, <3>3
    <2>2. Log!Count(e)' = Log!Count(e) + (IF n = e THEN 1 ELSE 0) /\ Log!Count(e) \in Nat
      <3>1. events \in Seq(Log!Names)
        BY DEF LogTypeOK
      <3> DEFINE C(s) == Cardinality({i \in DOMAIN s : s[i] = e})
      <3>2. C(events) \in Nat /\ C(Append(events, n)) = C(events) + (IF n = e THEN 1 ELSE 0)
        BY <3>1, CountAppended
      <3>3. Log!Count(e) = C(events) /\ Log!Count(e)' = C(events')
        BY LogOperators DEF Log!Count
      <3> HIDE DEF C
      <3> QED BY <3>2, <3>3
    <2>3. /\ owed'[e] = owed[e] + (IF thread[w].payload = "none" /\ n = e THEN 1 ELSE 0)
          /\ owed[e] \in Nat
      BY DEF Log!Owe, LogTypeOK, Log!Names
    <2>4. Log!Count(e) + Log!InFlight(e) = owed[e] /\ e # "none" /\ n # "none"
      BY DEF EventsCounted, Log!Names
    <2> QED BY <2>1, <2>2, <2>3, <2>4
  <1>8. MirrorSound'
    <2>1. /\ Len(mirror') = Len(events') /\ mirror'[Len(events) + 1] = 0
          /\ \A i \in 1..Len(events) : mirror'[i] = mirror[i]
      BY <1>1, AppendProperties, LenProperties DEF LogTypeOK, MirrorSound, NotYetWritten
    <2>2. \A v \in Log!Writers : thread'[v].sequence \notin cut
      BY <1>1, <1>3 DEF MirrorSound
    <2>3. ASSUME NEW i \in 1..(Len(events) + 1)
          PROVE  mirror'[i] = IF i \in cut \cup {thread'[v].sequence : v \in Log!Writers} THEN 0 ELSE 1
      <3>1. CASE i = Len(events) + 1
        BY <1>3, <2>1, <3>1
      <3>2. CASE i # Len(events) + 1
        <4>1. i \in 1..Len(events) /\ i # 0
          BY <1>1, <3>2
        <4>2. i \in {thread'[v].sequence : v \in Log!Writers} <=> i \in {thread[v].sequence : v \in Log!Writers}
          BY <1>3, <3>2, <4>1
        <4>3. mirror[i] = IF i \in cut \cup {thread[v].sequence : v \in Log!Writers} THEN 0 ELSE 1
          BY <4>1 DEF MirrorSound
        <4> QED BY <2>1, <4>1, <4>2, <4>3
      <3> QED BY <3>1, <3>2
    <2>4. cut \subseteq 1..Len(events')
      BY <1>1 DEF MirrorSound
    <2> QED BY <1>1, <2>1, <2>2, <2>3, <2>4 DEF MirrorSound
  <1>9. StreamSound'
    BY StreamKeeps
  <1> QED BY <1>5, <1>6, <1>7, <1>8, <1>9

LEMMA AppendKeeps ==
    ASSUME LogInv, IsFiniteSet(Users), NEW w \in Log!Writers, Log!AppendEvent(w)
    PROVE  LogInv'
  <1> USE DEF LogInv
  <1> DEFINE x == [thread[w] EXCEPT !.payload = "none", !.sequence = Len(events) + 1]
  <1>1. thread[w] \in Threads /\ thread[w].payload \in Log!Names
    BY DEF LogTypeOK, Log!AppendEvent, Threads
  <1>2. /\ x \in Threads /\ x.payload = "none" /\ x.sequence = Len(events) + 1
        /\ x.pc = thread[w].pc
    BY <1>1, EventLength DEF Threads
  <1>3. thread' = [thread EXCEPT ![w] = x]
    BY <1>1 DEF Log!AppendEvent, LogTypeOK, Threads
  <1>4. thread[w].sequence = 0 /\ thread[w].pc \notin {"submitted", "idle", "failing"}
    BY DEF Log!AppendEvent, ThreadsSound, Log!Settled
  <1> HIDE DEF x
  <1> QED BY <1>1, <1>2, <1>3, <1>4, Appended DEF Log!AppendEvent, NotYetWritten

LEMMA FinalizeKeeps ==
    ASSUME LogInv, IsFiniteSet(Users), NEW n \in Log!Names, Log!Settled("job"), Log!Finalize(n)
    PROVE  LogInv'
  <1> USE DEF LogInv
  <1> DEFINE x == [Log!At("over") EXCEPT !.sequence = Len(events) + 1]
  <1>1. /\ x \in Threads /\ x.payload = "none" /\ x.sequence = Len(events) + 1 /\ x.pc = "over"
    BY EventLength DEF Log!At, Threads
  <1>2. "job" \in Log!Writers /\ thread["job"].payload = "none" /\ thread["job"].sequence = 0
    BY DEF Log!Settled, Log!Writers
  <1>3. thread' = [thread EXCEPT !["job"] = x]
    BY DEF Log!Finalize
  <1> HIDE DEF x
  <1> QED BY <1>1, <1>2, <1>3, Appended DEF Log!Finalize, NotYetWritten

LEMMA MirrorKeeps ==
    ASSUME LogInv, IsFiniteSet(Users), NEW w \in Log!Writers, Log!WriteMirror(w)
    PROVE  LogInv'
  <1> USE DEF LogInv
  <1> DEFINE x == [thread[w] EXCEPT !.sequence = 0]
             n == thread[w].sequence
  <1>1. thread \in [Log!Writers -> Threads] /\ thread[w] \in Threads /\ n \in Nat /\ n # 0
    BY DEF LogTypeOK, Log!WriteMirror, Threads
  <1>2. x \in Threads /\ x.payload = thread[w].payload /\ x.pc = thread[w].pc /\ x.sequence = 0
    BY <1>1 DEF Threads
  <1>3. thread' = [thread EXCEPT ![w] = x] /\ mirror' = [mirror EXCEPT ![n] = @ + 1]
    BY <1>1 DEF Log!WriteMirror
  <1>4. UNCHANGED <<events, cut, stream, owed>>
    BY DEF Log!WriteMirror
  <1>5. n \in 1..Len(events) /\ n \notin cut /\ Len(events) \in Nat
    BY <1>1, EventLength DEF ThreadsSound, MirrorSound
  <1>6. \A v \in Log!Writers : v # w => thread[v].sequence # n
    BY <1>1 DEF ThreadsSound
  <1> HIDE DEF x
  <1>7. \A v \in Log!Writers : thread'[v] = IF v = w THEN x ELSE thread[v]
    BY <1>1, <1>3
  <1>8. n \in {thread[v].sequence : v \in Log!Writers}
    OBVIOUS
  <1> HIDE DEF n
  <1>9. mirror \in Seq(Nat) /\ mirror[n] = 0 /\ Len(mirror) = Len(events)
    BY <1>5, <1>8 DEF MirrorSound, LogTypeOK
  <1>10. /\ mirror' \in Seq(Nat) /\ Len(mirror') = Len(events)
         /\ mirror'[n] = 1 /\ \A i \in 1..Len(events) : i # n => mirror'[i] = mirror[i]
    <2>1. DOMAIN mirror = 1..Len(events) /\ 0 + 1 = 1
      BY <1>9, LenProperties
    <2>2. mirror' = [mirror EXCEPT ![n] = 1]
      BY <1>3, <1>9, <2>1
    <2>3. mirror' \in Seq(Nat) /\ Len(mirror') = Len(mirror)
      BY <1>5, <1>9, <2>1, <2>2, ExceptSeq
    <2> QED BY <1>5, <1>9, <2>1, <2>2, <2>3
  <1>11. LogTypeOK'
    BY <1>1, <1>2, <1>3, <1>4, <1>10 DEF LogTypeOK
  <1>12. ThreadsSound'
    BY <1>2, <1>4, <1>7, EventLength DEF ThreadsSound, Log!Settled
  <1>13. EventsCounted'
    <2> SUFFICES ASSUME NEW e \in Log!Names PROVE (Log!Count(e) + Log!InFlight(e))' = owed'[e]
      BY DEF EventsCounted
    <2>1. Log!InFlight(e)' = Log!InFlight(e)
      BY <1>2, <1>7 DEF Log!InFlight
    <2> QED BY <1>4, <2>1 DEF EventsCounted, Log!Count
  <1>14. MirrorSound'
    <2>1. \A v \in Log!Writers : thread'[v].sequence = IF v = w THEN 0 ELSE thread[v].sequence
      BY <1>2, <1>7
    <2>2. \A v \in Log!Writers : thread'[v].sequence \notin cut
      BY <1>5, <2>1 DEF MirrorSound
    <2>3. ASSUME NEW i \in 1..Len(events)
          PROVE  mirror'[i] = IF i \in cut \cup {thread'[v].sequence : v \in Log!Writers} THEN 0 ELSE 1
      <3>1. CASE i = n
        <4>1. i \notin {thread'[v].sequence : v \in Log!Writers}
          BY <1>1, <1>6, <2>1, <3>1
        <4> QED BY <1>5, <1>10, <3>1, <4>1
      <3>2. CASE i # n
        <4>1. i # 0 /\ thread[w].sequence = n
          BY <1>5 DEF n
        <4>2. i \in {thread'[v].sequence : v \in Log!Writers} <=> i \in {thread[v].sequence : v \in Log!Writers}
          BY <2>1, <3>2, <4>1
        <4>3. mirror[i] = IF i \in cut \cup {thread[v].sequence : v \in Log!Writers} THEN 0 ELSE 1
          BY DEF MirrorSound
        <4> QED BY <1>10, <3>2, <4>2, <4>3
      <3> QED BY <3>1, <3>2
    <2> QED BY <1>4, <1>10, <2>2, <2>3 DEF MirrorSound
  <1>15. StreamSound'
    BY <1>4 DEF StreamSound
  <1> QED BY <1>11, <1>12, <1>13, <1>14, <1>15

\* A record that is not written is lost, and with it what the thread had yet to do.
LEMMA LoseKeeps ==
    ASSUME LogInv, IsFiniteSet(Users), NEW w \in Log!Writers, Log!LoseRecord(w)
    PROVE  LogInv'
  <1> USE DEF LogInv
  <1> DEFINE x == Log!AfterFault(w)
             n == thread[w].sequence
  <1>1. /\ thread \in [Log!Writers -> Threads] /\ n \in Nat /\ n # 0
        /\ thread[w].payload = "none"
    BY DEF LogTypeOK, ThreadsSound, Log!LoseRecord, Threads
  <1>2. x \in Threads /\ x.payload = "none" /\ x.sequence = 0
    BY DEF Log!AfterFault, Log!At, Threads
  <1>3. /\ thread' = [thread EXCEPT ![w] = x] /\ cut' = cut \cup {n}
        /\ UNCHANGED <<events, mirror, stream, owed>>
    BY DEF Log!LoseRecord
  <1>4. n \in 1..Len(events) /\ Len(events) \in Nat
    BY <1>1, EventLength DEF ThreadsSound
  <1>5. \A v \in Log!Writers : v # w => thread[v].sequence # n
    BY <1>1 DEF ThreadsSound
  <1> HIDE DEF x
  <1>6. \A v \in Log!Writers : thread'[v] = IF v = w THEN x ELSE thread[v]
    BY <1>1, <1>3
  <1>7. LogTypeOK'
    BY <1>1, <1>2, <1>3 DEF LogTypeOK
  <1>8. ThreadsSound'
    BY <1>2, <1>3, <1>6, EventLength DEF ThreadsSound, Log!Settled
  <1>9. EventsCounted'
    <2> SUFFICES ASSUME NEW e \in Log!Names PROVE (Log!Count(e) + Log!InFlight(e))' = owed'[e]
      BY DEF EventsCounted
    <2>1. Log!InFlight(e)' = Log!InFlight(e)
      BY <1>1, <1>2, <1>6 DEF Log!InFlight
    <2> QED BY <1>3, <2>1 DEF EventsCounted, Log!Count
  <1>10. MirrorSound'
    <2>1. \A v \in Log!Writers : thread'[v].sequence = IF v = w THEN 0 ELSE thread[v].sequence
      BY <1>2, <1>6
    <2>2. cut' \subseteq 1..Len(events)
      BY <1>3, <1>4 DEF MirrorSound
    <2>3. \A v \in Log!Writers : thread'[v].sequence \notin cut'
      <3> TAKE v \in Log!Writers
      <3>1. CASE v = w
        BY <2>1, <2>2, <3>1
      <3>2. CASE v # w
        BY <1>3, <1>5, <2>1, <3>2 DEF MirrorSound
      <3> QED BY <3>1, <3>2
    <2>4. ASSUME NEW i \in 1..Len(events)
          PROVE  mirror'[i] = IF i \in cut' \cup {thread'[v].sequence : v \in Log!Writers} THEN 0 ELSE 1
      <3>1. i # 0 /\ n = thread[w].sequence
        BY <1>4
      <3> HIDE DEF n
      <3>2. i \in cut' \cup {thread'[v].sequence : v \in Log!Writers}
                <=> i \in cut \cup {thread[v].sequence : v \in Log!Writers}
        BY <1>3, <2>1, <3>1
      <3>3. mirror[i] = IF i \in cut \cup {thread[v].sequence : v \in Log!Writers} THEN 0 ELSE 1
        BY DEF MirrorSound
      <3> QED BY <1>3, <3>2, <3>3
    <2> QED BY <1>3, <2>2, <2>3, <2>4 DEF MirrorSound
  <1>11. StreamSound'
    BY <1>3 DEF StreamSound
  <1> QED BY <1>7, <1>8, <1>9, <1>10, <1>11

\* With the process go the events that its threads had not appended, and the records
\* that they had not written.
LEMMA DieLogKeeps == ASSUME LogInv, IsFiniteSet(Users), Log!Die PROVE LogInv'
  <1> USE DEF LogInv
  <1> DEFINE pending == {thread[w].sequence : w \in Log!Writers}
  <1>1. /\ cut' = cut \cup (pending \ {0}) /\ stream' = Log!Unread /\ UNCHANGED <<events, mirror>>
        /\ owed' = [e \in Log!Names |-> owed[e] - Log!InFlight(e)]
        /\ thread' = [w \in Log!Writers |-> IF thread[w].pc = "idle" THEN thread[w] ELSE Log!At("over")]
    BY DEF Log!Die
  <1>2. thread \in [Log!Writers -> Threads] /\ Len(events) \in Nat
    BY EventLength DEF LogTypeOK
  <1>3. \A w \in Log!Writers : /\ thread'[w] \in Threads
                               /\ thread'[w].payload = "none" /\ thread'[w].sequence = 0
    BY <1>1, <1>2 DEF ThreadsSound, Log!Settled, Log!At, Threads
  <1>4. pending \ {0} \subseteq 1..Len(events)
    BY <1>2 DEF ThreadsSound, Threads
  <1> HIDE DEF pending
  <1>5. ASSUME NEW e \in Log!Names
        PROVE  Log!InFlight(e)' = 0 /\ owed'[e] = Log!Count(e) /\ Log!Count(e) \in Nat
    <2>1. {w \in Log!Writers : thread'[w].payload = e} = {}
      BY <1>3 DEF Log!Names
    <2>2. Log!Count(e) \in Nat
      BY CountAppended, LogOperators DEF Log!Count, LogTypeOK
    <2>3. Log!InFlight(e) \in Nat
      <3>1. "job" \in Log!Writers
        BY DEF Log!Writers
      <3> QED BY <1>2, <3>1, FlightChanged, LogOperators DEF Log!InFlight
    <2>4. Log!Count(e) + Log!InFlight(e) = owed[e]
      BY DEF EventsCounted
    <2>5. Log!InFlight(e)' = 0
      BY <2>1, FS_EmptySet, LogOperators DEF Log!InFlight
    <2>6. owed'[e] = owed[e] - Log!InFlight(e) /\ owed[e] \in Nat
      BY <1>1 DEF LogTypeOK
    <2> HIDE DEF LogInv
    <2> QED BY <2>2, <2>3, <2>4, <2>5, <2>6
  <1>6. LogTypeOK'
    <2>1. thread' \in [Log!Writers -> Threads]
      BY <1>1, <1>3
    <2>2. owed' \in [Log!Names -> Nat]
      BY <1>1, <1>5
    <2>3. stream' \in Streams
      BY <1>1 DEF Log!Unread, Streams
    <2> QED BY <1>1, <2>1, <2>2, <2>3 DEF LogTypeOK
  <1>7. ThreadsSound'
    BY <1>1, <1>2, <1>3 DEF ThreadsSound, Log!Settled
  <1>8. EventsCounted'
    <2> SUFFICES ASSUME NEW e \in Log!Names PROVE (Log!Count(e) + Log!InFlight(e))' = owed'[e]
      BY DEF EventsCounted
    <2>1. Log!Count(e)' = Log!Count(e)
      BY <1>1 DEF Log!Count
    <2> QED BY <1>5, <2>1
  <1>9. MirrorSound'
    <2>1. cut' \subseteq 1..Len(events)
      BY <1>1, <1>4 DEF MirrorSound
    <2>2. \A w \in Log!Writers : thread'[w].sequence \notin cut'
      BY <1>3, <2>1
    <2>3. ASSUME NEW i \in 1..Len(events)
          PROVE  mirror'[i] = IF i \in cut' \cup {thread'[v].sequence : v \in Log!Writers} THEN 0 ELSE 1
      <3>1. i # 0
        OBVIOUS
      <3>2. i \notin {thread'[v].sequence : v \in Log!Writers}
        BY <1>3, <3>1
      <3>3. i \in cut' <=> i \in cut \cup pending
        BY <1>1, <3>1
      <3>4. mirror[i] = IF i \in cut \cup pending THEN 0 ELSE 1
        BY DEF MirrorSound, pending
      <3> QED BY <1>1, <3>2, <3>3, <3>4
    <2> QED BY <1>1, <2>1, <2>2, <2>3 DEF MirrorSound
  <1>10. StreamSound'
    BY <1>1, <1>2 DEF StreamSound, Log!Unread
  <1> QED BY <1>6, <1>7, <1>8, <1>9, <1>10

\* What StreamSound says, with the bounds that it needs.
LEMMA StreamTypes ==
    ASSUME LogInv
    PROVE  /\ stream \in Streams /\ Len(events) \in Nat /\ DOMAIN events = 1..Len(events)
           /\ stream.cursor \in Nat /\ Len(stream.batch) \in Nat /\ stream.batch \in Seq(Log!Names)
           /\ stream.received \in Seq(Log!Names) /\ Len(stream.received) = stream.cursor
           /\ \A i \in 1..Len(events) : events[i] \in Log!Names
  <1>1. stream \in Streams /\ events \in Seq(Log!Names)
    BY DEF LogInv, LogTypeOK
  <1>2. stream.batch \in Seq(Log!Names) /\ stream.received \in Seq(Log!Names) /\ stream.cursor \in Nat
    BY <1>1 DEF Streams
  <1> QED BY <1>1, <1>2, LenProperties, ElementOfSeq, EventLength DEF LogInv, StreamSound

\* A step of the client leaves the rest as it is.
LEMMA ClientKeeps ==
    ASSUME LogInv, stream' \in Streams, StreamSound',
           UNCHANGED <<events, mirror, cut, thread, owed>>
    PROVE  LogInv'
  <1> USE DEF LogInv
  <1>1. LogTypeOK' /\ MirrorSound'
    BY DEF LogTypeOK, MirrorSound
  <1>2. ThreadsSound'
    BY DEF ThreadsSound, Log!Settled
  <1>3. EventsCounted'
    BY DEF EventsCounted, Log!Count, Log!InFlight
  <1> QED BY <1>1, <1>2, <1>3

LEMMA ReadKeeps == ASSUME LogInv, Log!ReadEvents PROVE LogInv'
  <1> DEFINE b == SubSeq(events, stream.cursor + 1, Len(events))
  <1>1. stream.cursor <= Len(events) /\ \A i \in 1..stream.cursor : stream.received[i] = events[i]
    BY DEF LogInv, StreamSound
  <1>2. /\ b \in Seq(Log!Names) /\ Len(b) = Len(events) - stream.cursor
        /\ \A i \in 1..Len(b) : b[i] = events[stream.cursor + i]
    <2>1. \A i \in (stream.cursor + 1)..Len(events) : events[i] \in Log!Names
      BY StreamTypes
    <2>2. /\ b \in Seq(Log!Names)
          /\ Len(b) = IF stream.cursor + 1 <= Len(events)
                      THEN Len(events) - (stream.cursor + 1) + 1 ELSE 0
          /\ \A i \in 1..(Len(events) - (stream.cursor + 1) + 1) :
                b[i] = events[(stream.cursor + 1) + i - 1]
      <3>1. stream.cursor + 1 \in Int /\ Len(events) \in Int
        BY StreamTypes
      <3> QED BY <2>1, <3>1, SubSeqProperties
    <2> HIDE DEF b
    <2>3. Len(b) = Len(events) - stream.cursor
      BY <1>1, <2>2, StreamTypes
    <2>4. \A i \in 1..Len(b) : (stream.cursor + 1) + i - 1 = stream.cursor + i
      BY <2>3, StreamTypes
    <2>5. \A i \in 1..Len(b) : b[i] = events[stream.cursor + i]
      BY <2>2, <2>3, <2>4, StreamTypes
    <2> QED BY <2>2, <2>3, <2>5
  <1> HIDE DEF b
  <1>3. PICK place \in {"check", "send"} : stream' = [[stream EXCEPT !.pc = place] EXCEPT !.batch = b]
    BY StreamTypes DEF Log!ReadEvents, Streams, b
  <1>4. /\ stream' \in Streams /\ stream'.cursor = stream.cursor /\ stream'.batch = b
        /\ stream'.received = stream.received
    BY <1>2, <1>3, StreamTypes DEF Streams
  <1>5. StreamSound'
    <2>1. UNCHANGED events
      BY DEF Log!ReadEvents
    <2> QED BY <1>1, <1>2, <1>4, <2>1, StreamTypes DEF StreamSound
  <1> QED BY <1>4, <1>5, ClientKeeps DEF Log!ReadEvents

LEMMA SendKeeps == ASSUME LogInv, Log!Send PROVE LogInv'
  <1> DEFINE r == stream.received \o stream.batch
             c == stream.cursor + Len(stream.batch)
  <1>1. /\ \A i \in 1..stream.cursor : stream.received[i] = events[i]
        /\ c <= Len(events)
        /\ \A i \in 1..Len(stream.batch) : stream.batch[i] = events[stream.cursor + i]
    BY DEF LogInv, StreamSound, Log!Send
  <1>2. /\ r \in Seq(Log!Names) /\ Len(r) = c
        /\ \A i \in 1..c : r[i] = IF i <= stream.cursor THEN stream.received[i]
                                                        ELSE stream.batch[i - stream.cursor]
    <2>1. /\ r \in Seq(Log!Names) /\ Len(r) = Len(stream.received) + Len(stream.batch)
          /\ \A i \in 1..(Len(stream.received) + Len(stream.batch)) :
                r[i] = IF i <= Len(stream.received) THEN stream.received[i]
                       ELSE stream.batch[i - Len(stream.received)]
      <3>1. stream.received \in Seq(Log!Names) /\ stream.batch \in Seq(Log!Names)
        BY StreamTypes
      <3> QED BY <3>1, ConcatProperties
    <2> QED BY <2>1, StreamTypes
  <1>3. c \in Nat
    BY StreamTypes
  <1> HIDE DEF r
  <1>4. \A i \in 1..c : r[i] = events[i]
    <2> TAKE i \in 1..c
    <2>1. CASE i <= stream.cursor
      BY <1>1, <1>2, <2>1, StreamTypes
    <2>2. CASE ~(i <= stream.cursor)
      <3>1. i - stream.cursor \in 1..Len(stream.batch) /\ stream.cursor + (i - stream.cursor) = i
        BY <2>2, StreamTypes
      <3>2. stream.batch[i - stream.cursor] = events[i]
        BY <1>1, <3>1
      <3> QED BY <1>2, <2>2, <3>2
    <2> QED BY <2>1, <2>2
  <1> HIDE DEF c
  <1>5. stream' = [pc |-> "read", cursor |-> c, batch |-> <<>>, received |-> r]
    BY DEF Log!Send, c, r
  <1>6. /\ stream' \in Streams /\ stream'.cursor = c /\ stream'.received = r /\ stream'.pc = "read"
    BY <1>2, <1>3, <1>5, StreamTypes DEF Streams
  <1>7. StreamSound'
    <2>1. UNCHANGED events
      BY DEF Log!Send
    <2>2. c <= Len(events)
      BY <1>1 DEF c
    <2> QED BY <1>2, <1>4, <1>6, <2>1, <2>2 DEF StreamSound
  <1> QED BY <1>6, <1>7, ClientKeeps DEF Log!Send

LEMMA CheckKeeps == ASSUME LogInv, Log!CheckStatus PROVE LogInv'
  <1>1. PICK place \in {"closed", "read"} : stream' = [stream EXCEPT !.pc = place]
    BY DEF Log!CheckStatus
  <1>2. /\ stream' \in Streams /\ stream'.cursor = stream.cursor /\ stream'.pc = place
        /\ stream'.received = stream.received
    BY <1>1, StreamTypes DEF Streams
  <1>3. StreamSound'
    BY <1>2 DEF LogInv, StreamSound, Log!CheckStatus
  <1> QED BY <1>2, <1>3, ClientKeeps DEF Log!CheckStatus

LEMMA LogKeeps == IsFiniteSet(Users) /\ LogInv /\ [Log!Next]_(Log!vars) => LogInv'
  <1> SUFFICES ASSUME IsFiniteSet(Users), LogInv, [Log!Next]_(Log!vars) PROVE LogInv'
    OBVIOUS
  <1>1. CASE Log!StartJob
    <2>1. "job" \in Log!Writers /\ "started" \in Log!Names
      BY DEF Log!Writers, Log!Names
    <2>2. Log!Settled("job")
      BY <1>1, <2>1 DEF Log!StartJob, LogInv, ThreadsSound
    <2> QED BY <1>1, <2>1, <2>2, StatusChange DEF Log!StartJob
  <1>2. CASE Log!Progress
    <2>1. "job" \in Log!Writers /\ "progress" \in Log!Names
      BY DEF Log!Writers, Log!Names
    <2> QED BY <1>2, <2>1, StatusChange DEF Log!Progress, Log!Working
  <1>3. CASE Log!EndJob
    <2>1. PICK n \in {"completed", "cancelled", "failed"} :
            (Log!Working \/ thread["job"].pc = "failing") /\ Log!Finalize(n)
      BY <1>3 DEF Log!EndJob
    <2>2. n \in Log!Names /\ "job" \in Log!Writers
      BY DEF Log!Names, Log!Writers
    <2>3. Log!Settled("job")
      BY <2>1, <2>2 DEF Log!Working, LogInv, ThreadsSound
    <2> QED BY <2>1, <2>2, <2>3, FinalizeKeeps
  <1>4. ASSUME NEW w \in Log!Writers, Log!AppendEvent(w) \/ Log!WriteMirror(w) \/ Log!LoseRecord(w)
        PROVE  LogInv'
    BY <1>4, AppendKeeps, MirrorKeeps, LoseKeeps
  <1>5. ASSUME NEW u \in Users, Log!RequestCancel(u) PROVE LogInv'
    <2>1. PICK n \in {"cancelled", "cancel_requested"} :
            Log!Owe(n) /\ Log!Then(u, "over", n) /\ UNCHANGED <<events, mirror, cut, stream>>
      BY <1>5 DEF Log!RequestCancel
    <2>2. n \in Log!Names /\ u \in Log!Writers
      BY DEF Log!Names, Log!Writers
    <2>3. Log!Settled(u)
      BY <1>5, <2>2 DEF Log!RequestCancel, Log!Serves, LogInv, ThreadsSound
    <2> QED BY <2>1, <2>2, <2>3, StatusChange
  <1>6. ASSUME NEW u \in Users, Log!RequestResume(u) PROVE LogInv'
    <2>1. u \in Log!Writers /\ "resume_requested" \in Log!Names
      BY DEF Log!Names, Log!Writers
    <2>2. Log!Settled(u)
      BY <1>6, <2>1 DEF Log!RequestResume, Log!Serves, LogInv, ThreadsSound
    <2> QED BY <1>6, <2>1, <2>2, StatusChange DEF Log!RequestResume
  <1>7. CASE Log!ReadEvents \/ Log!Send \/ Log!CheckStatus
    BY <1>7, ReadKeeps, SendKeeps, CheckKeeps
  <1>8. CASE UNCHANGED Log!vars
    <2> USE <1>8 DEF Log!vars
    <2>1. StreamSound'
      BY DEF LogInv, StreamSound
    <2> QED BY <2>1, ClientKeeps, StreamTypes
  <1>9. CASE Log!Die
    BY <1>9, DieLogKeeps
  <1> QED BY <1>1, <1>2, <1>3, <1>4, <1>5, <1>6, <1>7, <1>8, <1>9 DEF Log!Next

LEMMA LogFaithful == LogInv => Log!EventsFaithful
  <1> SUFFICES ASSUME LogInv PROVE Log!EventsFaithful
    OBVIOUS
  <1> DEFINE s == SubSeq(events, 1, stream.cursor)
  <1>1. /\ stream.cursor <= Len(events)
        /\ \A i \in 1..stream.cursor : stream.received[i] = events[i]
    BY DEF LogInv, StreamSound
  <1>2. /\ s \in Seq(Log!Names) /\ Len(s) = stream.cursor
        /\ \A i \in 1..stream.cursor : s[i] = events[i]
    <2>1. \A i \in 1..stream.cursor : events[i] \in Log!Names
      BY <1>1, StreamTypes
    <2>2. stream.cursor \in Nat /\ 1 \in Int /\ stream.cursor \in Int
      BY StreamTypes
    <2>3. /\ s \in Seq(Log!Names)
          /\ Len(s) = IF 1 <= stream.cursor THEN stream.cursor - 1 + 1 ELSE 0
          /\ \A i \in 1..(stream.cursor - 1 + 1) : s[i] = events[1 + i - 1]
      BY <2>1, <2>2, SubSeqProperties
    <2> HIDE DEF s
    <2> QED BY <2>2, <2>3
  <1> HIDE DEF s
  <1>3. stream.received = s
    BY <1>1, <1>2, StreamTypes, SeqEqual
  <1>4. \A n \in DOMAIN events :
            mirror[n] = IF n \in cut \cup {thread[w].sequence : w \in Log!Writers} THEN 0 ELSE 1
    BY EventLength DEF LogInv, MirrorSound
  <1>5. \A e \in Log!Names : Log!Count(e) + Log!InFlight(e) = owed[e]
    BY DEF LogInv, EventsCounted
  <1> QED BY <1>3, <1>4, <1>5 DEF Log!EventsFaithful, s

\* The events of an inline job, its file and what a client of stream_run_events receives
\* are faithful, for every finite number of API threads, however many reports, and
\* wherever the process dies or the file cannot be written: every change of status has one
\* event unless the process died in between, the file holds no event twice and lacks only
\* those whose one attempt at it is still to come, failed or was cut off (no other comes
\* after it), and the client has received the first events of the table in order.
THEOREM EventsAreFaithful == IsFiniteSet(Users) => (Log!Spec => []Log!EventsFaithful)
  <1> SUFFICES ASSUME IsFiniteSet(Users) PROVE Log!Spec => []Log!EventsFaithful
    OBVIOUS
  <1>1. Log!Init => LogInv
    BY LogInit
  <1>2. LogInv /\ [Log!Next]_(Log!vars) => LogInv'
    BY LogKeeps
  <1> QED BY <1>1, <1>2, LogFaithful, PTL DEF Log!Spec

-----------------------------------------------------------------------------
(* A command of the copilot.                                               *)

Files == {".", "command", "stdout", "stderr", "summary", "report"}
Places == {"confirm", "refused", "create", "run", "file", "summary", "report", "complete",
           "done", "stopped"}
Filed == ToSet(artifacts)
Output == {"stdout", "stderr", "command"}

CommandTypeOK ==
    /\ client \in [pc : Places, exit : {"none", "zero", "other"}]
    /\ directory \subseteq Files /\ artifacts \in Seq(Files)
    /\ registered \in [status : {"none", "running", "completed", "failed"},
                exit : {"none", "zero", "other"}, report : BOOLEAN]

\* What there is at each point: the files come before their artifacts, and the registered is
\* closed only after all of them.
CommandSound ==
    /\ IsInjective(artifacts) /\ Filed \subseteq directory
    /\ client.pc \in {"confirm", "refused"} => directory = {}
    /\ client.pc \in {"confirm", "refused", "create"} => registered = Copilot!NoRow
    /\ client.pc \in {"confirm", "refused", "create", "run"} => artifacts = <<>>
    /\ client.pc = "file" =>
        /\ Output \subseteq directory
        /\ Len(artifacts) \in 0..3
        /\ "stdout" \in Filed <=> Len(artifacts) >= 1
        /\ "stderr" \in Filed <=> Len(artifacts) >= 2
        /\ "command" \in Filed <=> Len(artifacts) = 3
    /\ client.pc \in {"summary", "report", "complete", "done"} => Output \subseteq Filed
    /\ client.pc \in {"file", "summary"} => "summary" \notin Filed
    /\ client.pc \in {"file", "summary", "report"} => "report" \notin Filed
    /\ client.pc \in {"report", "complete", "done"} => ("summary" \in directory => "summary" \in Filed)
    /\ client.pc \in {"complete", "done"} => "report" \in Filed
    /\ client.pc \in {"run", "file", "summary", "report", "complete"} => registered.status = "running"
    /\ client.pc = "done" =>
        registered.report /\ registered.status \in {"completed", "failed"} /\ (registered.status = "completed" <=> registered.exit = "zero")
    /\ registered.status \in {"completed", "failed"} => client.pc = "done"

CommandInv == CommandTypeOK /\ CommandSound

LEMMA CommandInit == Copilot!Init => CommandInv
  <1> SUFFICES ASSUME Copilot!Init PROVE CommandInv
    OBVIOUS
  <1> USE DEF Copilot!Init, Copilot!NoRow
  <1>1. artifacts \in Seq(Files) /\ Filed = {} /\ IsInjective(artifacts)
    BY EmptySeq DEF Filed, ToSet, IsInjective
  <1>2. CommandTypeOK
    BY <1>1 DEF CommandTypeOK, Places
  <1>3. CommandSound
    BY <1>1 DEF CommandSound
  <1> QED BY <1>2, <1>3 DEF CommandInv

\* What a list without repetitions gains by an element that it does not hold yet.
LEMMA NewAppended ==
    ASSUME NEW S, NEW s \in Seq(S), NEW n \in S, IsInjective(s), n \notin ToSet(s)
    PROVE  /\ Append(s, n) \in Seq(S) /\ IsInjective(Append(s, n))
           /\ ToSet(Append(s, n)) = ToSet(s) \cup {n}
  <1>1. /\ Len(s) \in Nat /\ DOMAIN s = 1..Len(s)
        /\ Append(s, n) \in Seq(S)
        /\ DOMAIN Append(s, n) = 1..(Len(s) + 1)
        /\ \A i \in 1..Len(s) : Append(s, n)[i] = s[i]
        /\ Append(s, n)[Len(s) + 1] = n
    BY LenProperties, AppendProperties
  <1> DEFINE a == Append(s, n)
  <1> HIDE DEF a
  <1>2. /\ DOMAIN a = 1..(Len(s) + 1) /\ (\A i \in 1..Len(s) : a[i] = s[i]) /\ a[Len(s) + 1] = n
    BY <1>1 DEF a
  <1>3. IsInjective(a)
    BY <1>1, <1>2 DEF IsInjective, ToSet
  <1>4. ToSet(a) = ToSet(s) \cup {n}
    BY <1>1, <1>2 DEF ToSet
  <1> QED BY <1>1, <1>3, <1>4 DEF a

\* A step that files one more artifact.
LEMMA OneFiled ==
    ASSUME CommandInv, NEW type \in Files, type \notin Filed, Copilot!Add(type)
    PROVE  /\ artifacts' \in Seq(Files) /\ IsInjective(artifacts')
           /\ Filed' = Filed \cup {type} /\ Len(artifacts') = Len(artifacts) + 1
           /\ Len(artifacts) \in Nat
  <1>1. artifacts' = Append(artifacts, type) /\ artifacts \in Seq(Files) /\ IsInjective(artifacts)
    BY DEF Copilot!Add, CommandInv, CommandTypeOK, CommandSound
  <1>2. /\ Append(artifacts, type) \in Seq(Files) /\ IsInjective(Append(artifacts, type))
        /\ ToSet(Append(artifacts, type)) = ToSet(artifacts) \cup {type}
    BY <1>1, NewAppended DEF Filed
  <1>3. Len(Append(artifacts, type)) = Len(artifacts) + 1 /\ Len(artifacts) \in Nat
    BY <1>1, AppendProperties, LenProperties
  <1> QED BY <1>1, <1>2, <1>3 DEF Filed

LEMMA CommandStep == CommandInv /\ [Copilot!Next]_(Copilot!vars) => CommandInv'
  <1> SUFFICES ASSUME CommandInv, [Copilot!Next]_(Copilot!vars) PROVE CommandInv'
    OBVIOUS
  <1> USE DEF CommandInv
  <1>t. /\ client \in [pc : Places, exit : {"none", "zero", "other"}]
        /\ directory \subseteq Files /\ artifacts \in Seq(Files)
        /\ registered \in [status : {"none", "running", "completed", "failed"},
                    exit : {"none", "zero", "other"}, report : BOOLEAN]
    BY DEF CommandTypeOK
  <1>1. CASE Copilot!Confirm
    <2>1. PICK place \in {"create", "refused"} : client' = [client EXCEPT !.pc = place]
      BY <1>1 DEF Copilot!Confirm
    <2>2. client'.pc = place /\ client' \in [pc : Places, exit : {"none", "zero", "other"}]
      BY <1>t, <2>1 DEF Places
    <2>3. client.pc = "confirm" /\ UNCHANGED <<directory, registered, artifacts>>
      BY <1>1 DEF Copilot!Confirm
    <2>4. CommandTypeOK'
      BY <1>t, <2>2, <2>3 DEF CommandTypeOK
    <2>5. Filed' = Filed
      BY <2>3 DEF Filed
    <2>6. CommandSound'
      BY <2>2, <2>3, <2>5 DEF CommandSound, Copilot!NoRow
    <2> QED BY <2>4, <2>6
  <1>2. CASE Copilot!MakeDirectory \/ Copilot!WriteCommand \/ Copilot!WriteReport
    <2>1. PICK f \in {".", "command", "report"} :
            /\ directory' = directory \cup {f} /\ UNCHANGED <<client, registered, artifacts>>
            /\ client.pc \in {"create", "run", "report"}
      BY <1>2 DEF Copilot!MakeDirectory, Copilot!WriteCommand, Copilot!WriteReport
    <2>2. CommandTypeOK'
      BY <1>t, <2>1 DEF CommandTypeOK, Files
    <2>3. Filed' = Filed
      BY <2>1 DEF Filed
    <2>4. CommandSound'
      BY <2>1, <2>3 DEF CommandSound, Copilot!NoRow
    <2> QED BY <2>2, <2>4
  <1>3. CASE Copilot!InsertRow
    <2>1. /\ client.pc = "create" /\ UNCHANGED <<directory, artifacts>>
          /\ registered' = [registered EXCEPT !.status = "running"]
          /\ client' = [client EXCEPT !.pc = "run"]
      BY <1>3 DEF Copilot!InsertRow
    <2>2. /\ client' \in [pc : Places, exit : {"none", "zero", "other"}] /\ client'.pc = "run"
          /\ registered' \in [status : {"none", "running", "completed", "failed"},
                       exit : {"none", "zero", "other"}, report : BOOLEAN]
          /\ registered'.status = "running"
      BY <1>t, <2>1 DEF Places
    <2>3. CommandTypeOK'
      BY <1>t, <2>1, <2>2 DEF CommandTypeOK
    <2>4. Filed' = Filed
      BY <2>1 DEF Filed
    <2>5. CommandSound'
      BY <2>1, <2>2, <2>4 DEF CommandSound
    <2> QED BY <2>3, <2>5
  <1>4. CASE Copilot!Execute
    <2>1. PICK exit \in {"zero", "other"}, leaves \in BOOLEAN :
            /\ directory' = directory \cup {"stdout", "stderr"}
                \cup (IF leaves /\ command.kind # "eval" THEN {"summary"} ELSE {})
            /\ client' = [client EXCEPT !.pc = "file", !.exit = exit]
      BY <1>4 DEF Copilot!Execute
    <2>2. /\ client.pc = "run" /\ "command" \in directory /\ UNCHANGED <<registered, artifacts>>
      BY <1>4 DEF Copilot!Execute
    <2>3. client' = [[client EXCEPT !.pc = "file"] EXCEPT !.exit = exit]
      BY <1>t, <2>1
    <2>4. client' \in [pc : Places, exit : {"none", "zero", "other"}] /\ client'.pc = "file"
      BY <1>t, <2>3 DEF Places
    <2>5. CommandTypeOK'
      BY <1>t, <2>1, <2>2, <2>4 DEF CommandTypeOK, Files
    <2>6. Filed' = Filed /\ artifacts = <<>> /\ Filed = {} /\ Len(artifacts) = 0
      BY <2>2 DEF Filed, ToSet, CommandSound
    <2>7. CommandSound'
      BY <2>1, <2>2, <2>4, <2>6 DEF CommandSound, Output
    <2> QED BY <2>5, <2>7
  <1>5. CASE Copilot!FileOutput
    <2>1. /\ client.pc = "file" /\ Len(artifacts) \in 0..2
          /\ UNCHANGED <<client, directory, registered>>
      BY <1>5 DEF Copilot!FileOutput, CommandSound
    <2> DEFINE type == <<"stdout", "stderr", "command">>[Len(artifacts) + 1]
    <2>2. /\ Copilot!Add(type)
          /\ type = IF Len(artifacts) = 0 THEN "stdout"
                    ELSE IF Len(artifacts) = 1 THEN "stderr" ELSE "command"
      <3>1. Copilot!Add(type)
        BY <1>5 DEF Copilot!FileOutput
      <3>2. Len(artifacts) = 0 \/ Len(artifacts) = 1 \/ Len(artifacts) = 2
        BY <2>1
      <3>3. CASE Len(artifacts) = 0
        <4>1. type = "stdout"
          BY <3>3
        <4> QED BY <3>1, <3>3, <4>1
      <3>4. CASE Len(artifacts) = 1
        <4>1. type = "stderr"
          BY <3>4
        <4> QED BY <3>1, <3>4, <4>1
      <3>5. CASE Len(artifacts) = 2
        <4>1. type = "command"
          BY <3>5
        <4> QED BY <3>1, <3>5, <4>1
      <3> QED BY <3>2, <3>3, <3>4, <3>5
    <2> HIDE DEF type
    <2>3. type \in Files /\ type \notin Filed /\ type \in Output
      BY <2>1, <2>2 DEF Files, CommandSound, Output
    <2>4. /\ artifacts' \in Seq(Files) /\ IsInjective(artifacts')
          /\ Filed' = Filed \cup {type} /\ Len(artifacts') = Len(artifacts) + 1
      BY <2>2, <2>3, OneFiled
    <2>5. CommandTypeOK'
      BY <1>t, <2>1, <2>4 DEF CommandTypeOK
    <2>6. /\ Len(artifacts') \in 0..3
          /\ "stdout" \in Filed' <=> Len(artifacts') >= 1
          /\ "stderr" \in Filed' <=> Len(artifacts') >= 2
          /\ "command" \in Filed' <=> Len(artifacts') = 3
      <3> DEFINE n == Len(artifacts)
      <3>1. /\ n = 0 \/ n = 1 \/ n = 2
            /\ "stdout" \in Filed <=> n >= 1
            /\ "stderr" \in Filed <=> n >= 2
            /\ "command" \in Filed <=> n = 3
        BY <2>1 DEF CommandSound
      <3>2. /\ Len(artifacts') = n + 1 /\ Filed' = Filed \cup {type}
            /\ type = IF n = 0 THEN "stdout" ELSE IF n = 1 THEN "stderr" ELSE "command"
        BY <2>2, <2>4
      <3> HIDE DEF n
      <3>3. CASE n = 0
        BY <3>1, <3>2, <3>3
      <3>4. CASE n = 1
        BY <3>1, <3>2, <3>4
      <3>5. CASE n = 2
        BY <3>1, <3>2, <3>5
      <3> QED BY <3>1, <3>3, <3>4, <3>5
    <2>7. Output \subseteq directory /\ Filed' \subseteq directory
      BY <2>1, <2>3, <2>4 DEF CommandSound
    <2>8. "summary" \notin Filed' /\ "report" \notin Filed'
      BY <2>1, <2>3, <2>4 DEF CommandSound, Output
    <2>9. registered.status = "running"
      BY <2>1 DEF CommandSound
    <2>10. CommandSound'
      BY <2>1, <2>4, <2>6, <2>7, <2>8, <2>9 DEF CommandSound
    <2> QED BY <2>5, <2>10
  <1>6. CASE Copilot!Summarize
    <2>1. /\ client.pc = "file" /\ Len(artifacts) = 3 /\ UNCHANGED <<registered, artifacts>>
          /\ directory' \in {directory, directory \cup {"summary"}}
          /\ client' = [client EXCEPT !.pc = "summary"]
      BY <1>6 DEF Copilot!Summarize
    <2>2. client' \in [pc : Places, exit : {"none", "zero", "other"}] /\ client'.pc = "summary"
      BY <1>t, <2>1 DEF Places
    <2>3. CommandTypeOK'
      BY <1>t, <2>1, <2>2 DEF CommandTypeOK, Files
    <2>4. Filed' = Filed
      BY <2>1 DEF Filed
    <2>5. CommandSound'
      BY <2>1, <2>2, <2>4 DEF CommandSound, Output
    <2> QED BY <2>3, <2>5
  <1>7. CASE Copilot!FileSummary
    <2>1. /\ client.pc = "summary" /\ UNCHANGED <<directory, registered>>
          /\ client' = [client EXCEPT !.pc = "report"]
          /\ IF "summary" \in directory THEN Copilot!Add("summary") ELSE UNCHANGED artifacts
      BY <1>7 DEF Copilot!FileSummary
    <2>2. client' \in [pc : Places, exit : {"none", "zero", "other"}] /\ client'.pc = "report"
      BY <1>t, <2>1 DEF Places
    <2>3. "summary" \in Files /\ "summary" \notin Filed
      BY <2>1 DEF Files, CommandSound
    <2>4. /\ artifacts' \in Seq(Files) /\ IsInjective(artifacts')
          /\ Filed' = IF "summary" \in directory THEN Filed \cup {"summary"} ELSE Filed
      <3>1. CASE "summary" \in directory
        BY <2>1, <2>3, <3>1, OneFiled
      <3>2. CASE "summary" \notin directory
        BY <1>t, <2>1, <3>2 DEF Filed, CommandSound
      <3> QED BY <3>1, <3>2
    <2>5. CommandTypeOK'
      BY <1>t, <2>1, <2>2, <2>4 DEF CommandTypeOK
    <2>6. CommandSound'
      BY <2>1, <2>2, <2>4 DEF CommandSound
    <2> QED BY <2>5, <2>6
  <1>8. CASE Copilot!FileReport
    <2>1. /\ client.pc = "report" /\ "report" \in directory /\ UNCHANGED <<directory, registered>>
          /\ client' = [client EXCEPT !.pc = "complete"] /\ Copilot!Add("report")
      BY <1>8 DEF Copilot!FileReport
    <2>2. client' \in [pc : Places, exit : {"none", "zero", "other"}] /\ client'.pc = "complete"
      BY <1>t, <2>1 DEF Places
    <2>3. /\ artifacts' \in Seq(Files) /\ IsInjective(artifacts') /\ Filed' = Filed \cup {"report"}
      <3>1. "report" \in Files /\ "report" \notin Filed
        BY <2>1 DEF Files, CommandSound
      <3> QED BY <2>1, <3>1, OneFiled
    <2>4. CommandTypeOK'
      BY <1>t, <2>1, <2>2, <2>3 DEF CommandTypeOK
    <2>5. CommandSound'
      BY <2>1, <2>2, <2>3 DEF CommandSound
    <2> QED BY <2>4, <2>5
  <1>9. CASE Copilot!CompleteRun
    <2>1. /\ client.pc = "complete" /\ UNCHANGED <<directory, artifacts>>
          /\ registered' = [status |-> IF client.exit = "zero" THEN "completed" ELSE "failed",
                     exit |-> client.exit, report |-> TRUE]
          /\ client' = [client EXCEPT !.pc = "done"]
      BY <1>9 DEF Copilot!CompleteRun
    <2>2. client' \in [pc : Places, exit : {"none", "zero", "other"}] /\ client'.pc = "done"
      BY <1>t, <2>1 DEF Places
    <2>3. CommandTypeOK'
      BY <1>t, <2>1, <2>2 DEF CommandTypeOK
    <2>4. Filed' = Filed
      BY <2>1 DEF Filed
    <2>5. CommandSound'
      BY <2>1, <2>2, <2>4 DEF CommandSound
    <2> QED BY <2>3, <2>5
  <1>10. CASE Copilot!Stop
    <2>1. /\ client.pc \notin {"refused", "done", "stopped"} /\ UNCHANGED <<directory, registered, artifacts>>
          /\ client' = [client EXCEPT !.pc = "stopped"]
      BY <1>10 DEF Copilot!Stop
    <2>2. client' \in [pc : Places, exit : {"none", "zero", "other"}] /\ client'.pc = "stopped"
      BY <1>t, <2>1 DEF Places
    <2>3. CommandTypeOK'
      BY <1>t, <2>1, <2>2 DEF CommandTypeOK
    <2>4. Filed' = Filed
      BY <2>1 DEF Filed
    <2>5. registered.status \notin {"completed", "failed"}
      BY <2>1 DEF CommandSound
    <2>6. CommandSound'
      BY <2>1, <2>2, <2>4, <2>5 DEF CommandSound
    <2> QED BY <2>3, <2>6
  <1>11. CASE UNCHANGED Copilot!vars
    BY <1>11 DEF Copilot!vars, CommandTypeOK, CommandSound, Filed
  <1> QED
    BY <1>1, <1>2, <1>3, <1>4, <1>5, <1>6, <1>7, <1>8, <1>9, <1>10, <1>11 DEF Copilot!Next

LEMMA CommandKept == CommandInv => Copilot!RecordsKept
  <1> SUFFICES ASSUME CommandInv PROVE Copilot!RecordsKept
    OBVIOUS
  <1>1. Copilot!IsInjective(artifacts) /\ Copilot!ToSet(artifacts) = Filed
    BY DEF CommandInv, CommandSound, IsInjective, Copilot!IsInjective, Copilot!ToSet, ToSet, Filed
  <1> QED BY <1>1 DEF CommandInv, CommandSound, Copilot!RecordsKept, Output, Copilot!NoRow

\* What the registry says of a command can be looked up, wherever an exception or the end
\* of the copilot cuts it off: run_benchmark, run_eval_options, run_train_options, run_sweep.
THEOREM RecordsAreKept == Copilot!Spec => []Copilot!RecordsKept
  <1>1. CommandInv => Copilot!RecordsKept
    BY CommandKept
  <1> QED BY <1>1, CommandInit, CommandStep, PTL DEF Copilot!Spec

-----------------------------------------------------------------------------
(* The grids of an evaluation.                                             *)

GridCells == [entry : Evaluation!Entries, seed : Seeds \cup Expected, failure : BOOLEAN]

RequestOK ==
    /\ request.kind \in {"inline", "heldout", "candidate", "found"} /\ request.split \in BOOLEAN
    /\ request.entries \in Seq(Evaluation!Entries) /\ request.seeds \in Seq(Seeds \cup Expected)
    /\ request.modes \in {<<FALSE>>, <<FALSE, TRUE>>}
    /\ request.kind # "inline" => request.split
    /\ request.kind = "heldout" => request.entries = Baselines \o Policies
    /\ request.kind \in {"candidate", "found"} => Len(request.entries) = 1

Planned == Evaluation!Plan(request)

GridInv ==
    /\ RequestOK /\ episodes \in Seq(GridCells)
    /\ outcome \in {"running", "stored", "refused", "cancelled", "accepted"}
    /\ request.kind = "found" =>
        outcome # "running" /\ \A i \in 1..Len(episodes) : episodes[i].entry = request.entries[1]
    /\ request.kind # "found" =>
        /\ Len(episodes) <= Len(Planned)
        /\ \A i \in 1..Len(episodes) : episodes[i] = Planned[i]
        /\ outcome \in {"stored", "accepted"} => Len(episodes) = Len(Planned)
    /\ request.kind \in {"inline", "heldout"} /\ outcome \in {"stored", "accepted"} =>
        Evaluation!Aggregates /\ Evaluation!Validates(request)
    /\ request.kind \in {"candidate", "found"} /\ outcome = "accepted" => Evaluation!CandidatePasses
    /\ outcome = "refused" => ~Evaluation!Sound

LEMMA GridOperators ==
    /\ \A s : Evaluation!FlattenSeq(s) = FlattenSeq(s) /\ Evaluation!ToSet(s) = ToSet(s)
    /\ \A S : Evaluation!SetToSeqs(S) = SetToSeqs(S) /\ Evaluation!Cardinality(S) = Cardinality(S)
  BY DEF FlattenSeq, Evaluation!FlattenSeq, ToSet, Evaluation!ToSet,
         SetToSeqs, Evaluation!SetToSeqs, Cardinality, Evaluation!Cardinality

\* Entries, and so cells, are told apart by their names.
LEMMA NamesTell ==
    ASSUME GridNumbers
    PROVE  /\ Baselines \in Seq(Evaluation!Entries) /\ Policies \in Seq(Evaluation!Entries)
           /\ \A e, f \in Evaluation!Entries : Evaluation!Key(e) = Evaluation!Key(f) => e = f
           /\ \A c, d \in GridCells : Evaluation!Named(c) = Evaluation!Named(d) => c = d
  <1> DEFINE E == [controller : Evaluated("controller"), variant : Evaluated("variant"),
                   training : Evaluated("training")]
  <1>1. Baselines \in Seq(E) /\ Policies \in Seq(E)
    BY DEF GridNumbers, EntryLists
  <1>2. \A s \in Seq(E) : s \in Seq(Evaluation!ToSet(s)) /\ Evaluation!ToSet(s) \subseteq E
    <2> TAKE s \in Seq(E)
    <2> HIDE DEF E
    <2>1. s \in [1..Len(s) -> E] /\ Len(s) \in Nat
      BY LenProperties
    <2>2. Evaluation!ToSet(s) = {s[i] : i \in 1..Len(s)}
      BY <2>1 DEF Evaluation!ToSet
    <2>3. s \in [1..Len(s) -> Evaluation!ToSet(s)]
      BY <2>1, <2>2
    <2> QED BY <2>1, <2>2, <2>3, SeqDef
  <1>3. Evaluation!Entries \subseteq E
    BY <1>1, <1>2 DEF Evaluation!Entries
  <1>4. Baselines \in Seq(Evaluation!Entries) /\ Policies \in Seq(Evaluation!Entries)
    <2> DEFINE A == Evaluation!ToSet(Baselines)
               B == Evaluation!ToSet(Policies)
    <2>1. Baselines \in Seq(A) /\ Policies \in Seq(B)
      BY <1>1, <1>2
    <2>2. Evaluation!Entries = A \cup B
      BY DEF Evaluation!Entries
    <2> HIDE DEF A, B
    <2> QED BY <2>1, <2>2
  <1>5. \A e, f \in E : Evaluation!Key(e) = Evaluation!Key(f) => e = f
    BY DEF Evaluation!Key
  <1>6. \A e, f \in Evaluation!Entries : Evaluation!Key(e) = Evaluation!Key(f) => e = f
    <2> HIDE DEF E
    <2> QED BY <1>3, <1>5
  <1>7. ASSUME NEW c \in GridCells, NEW d \in GridCells, Evaluation!Named(c) = Evaluation!Named(d)
        PROVE  c = d
    <2>1. Evaluation!Key(c.entry) = Evaluation!Key(d.entry) /\ c.seed = d.seed /\ c.failure = d.failure
      BY <1>7 DEF Evaluation!Named
    <2>2. c.entry = d.entry
      BY <1>6, <2>1 DEF GridCells
    <2> QED BY <2>1, <2>2 DEF GridCells
  <1> QED BY <1>4, <1>6, <1>7

\* Where the plan has the cell of an entry, a mode and a seed.
Place(c, m, s) ==
    (c - 1) * (Len(request.modes) * Len(request.seeds)) + ((m - 1) * Len(request.seeds) + s)

CellOf(c, m, s) == Evaluation!Cell(request.entries[c], request.seeds[s], request.modes[m])

LEMMA PlanCells ==
    ASSUME RequestOK
    PROVE  LET E == Len(request.entries)  M == Len(request.modes)  S == Len(request.seeds)
           IN  /\ E \in Nat /\ M \in Nat \ {0} /\ S \in Nat /\ E * (M * S) \in Nat
               /\ Planned \in Seq(GridCells) /\ Len(Planned) = E * (M * S)
               /\ \A c \in 1..E, m \in 1..M, s \in 1..S :
                    Place(c, m, s) \in 1..(E * (M * S)) /\ Planned[Place(c, m, s)] = CellOf(c, m, s)
               /\ \A p \in 1..(E * (M * S)) : \E c \in 1..E, m \in 1..M, s \in 1..S : p = Place(c, m, s)
  <1> DEFINE E == Len(request.entries)
             M == Len(request.modes)
             S == Len(request.seeds)
             line(c, m) == [s \in 1..S |-> CellOf(c, m, s)]
             lines(c) == [m \in 1..M |-> line(c, m)]
             block(c) == FlattenSeq(lines(c))
             blocks == [c \in 1..E |-> block(c)]
  <1>1. /\ E \in Nat /\ S \in Nat /\ request.entries \in [1..E -> Evaluation!Entries]
        /\ request.seeds \in [1..S -> Seeds \cup Expected]
    BY LenProperties DEF RequestOK
  <1>2. M \in Nat \ {0} /\ request.modes \in [1..M -> BOOLEAN]
    <2> DEFINE B == {FALSE, TRUE}
    <2>1. FALSE \in B /\ TRUE \in B /\ B \subseteq BOOLEAN
      OBVIOUS
    <2> HIDE DEF B
    <2>2. ASSUME NEW f \in B, NEW t \in B
          PROVE  /\ <<f>> \in Seq(B) /\ Len(<<f>>) = 1
                 /\ <<f, t>> \in Seq(B) /\ Len(<<f, t>>) = 2
      OBVIOUS
    <2>3. request.modes \in Seq(B) /\ M \in {1, 2}
      BY <2>1, <2>2 DEF RequestOK
    <2>4. request.modes \in [1..M -> B]
      BY <2>3, LenProperties
    <2>5. request.modes \in [1..M -> BOOLEAN]
      BY <2>1, <2>4
    <2> QED BY <2>3, <2>5
  <1>3. DOMAIN request.entries = 1..E /\ DOMAIN request.seeds = 1..S /\ DOMAIN request.modes = 1..M
    BY <1>1, <1>2
  <1>4. Planned = FlattenSeq(blocks)
    BY <1>3, GridOperators DEF Planned, Evaluation!Plan, CellOf
  <1> HIDE DEF E, M, S
  <1>5. \A c \in 1..E, m \in 1..M, s \in 1..S : CellOf(c, m, s) \in GridCells
    <2> TAKE c \in 1..E, m \in 1..M, s \in 1..S
    <2>1. request.entries[c] \in Evaluation!Entries /\ request.seeds[s] \in Seeds \cup Expected
          /\ request.modes[m] \in BOOLEAN
      BY <1>1, <1>2
    <2> QED BY <2>1 DEF CellOf, Evaluation!Cell, GridCells
  <1>6. M * S \in Nat /\ E * (M * S) \in Nat
    BY <1>1, <1>2, Z3
  <1>7. ASSUME NEW c \in 1..E
        PROVE  block(c) \in [1..(M * S) -> GridCells] /\ Follow(block(c), lines(c), M, S)
    <2>1. \A m \in 1..M : line(c, m) \in [1..S -> GridCells]
      BY <1>5
    <2>2. lines(c) \in [1..M -> [1..S -> GridCells]]
      <3> HIDE DEF line
      <3> QED BY <2>1
    <2> DEFINE R == lines(c)
    <2>3. R \in [1..M -> [1..S -> GridCells]]
      BY <2>2
    <2> HIDE DEF R
    <2>4. FlattenSeq(R) \in [1..(M * S) -> GridCells] /\ Follow(FlattenSeq(R), R, M, S)
      BY <1>1, <1>2, <2>3, EqualPieces
    <2> QED BY <2>4 DEF R
  <1>8. blocks \in [1..E -> [1..(M * S) -> GridCells]]
    <2> HIDE DEF block
    <2> QED BY <1>7
  <1>9. /\ Planned \in [1..(E * (M * S)) -> GridCells]
        /\ Follow(Planned, blocks, E, M * S)
    <2> DEFINE k == M * S
    <2>1. k \in Nat /\ blocks \in [1..E -> [1..k -> GridCells]]
      BY <1>6, <1>8
    <2> HIDE DEF k, blocks
    <2>2. FlattenSeq(blocks) \in [1..(E * k) -> GridCells] /\ Follow(FlattenSeq(blocks), blocks, E, k)
      BY <1>1, <2>1, EqualPieces
    <2> QED BY <1>4, <2>2 DEF k
  <1>10. Planned \in Seq(GridCells) /\ Len(Planned) = E * (M * S)
    <2> DEFINE l == E * (M * S)
    <2>1. l \in Nat /\ Planned \in [1..l -> GridCells]
      BY <1>6, <1>9
    <2> HIDE DEF l
    <2>2. Planned \in Seq(GridCells)
      BY <2>1, SeqDef
    <2> DEFINE n == Len(Planned)
    <2>3. n \in Nat /\ 1..n = 1..l
      BY <2>1, <2>2, LenProperties
    <2> HIDE DEF n
    <2>4. n = l
      BY <2>1, <2>3
    <2> QED BY <2>2, <2>4 DEF n, l
  <1>11. ASSUME NEW c \in 1..E, NEW m \in 1..M, NEW s \in 1..S
         PROVE  Place(c, m, s) \in 1..(E * (M * S)) /\ Planned[Place(c, m, s)] = CellOf(c, m, s)
    <2> DEFINE j == (m - 1) * S + s
    <2>1. j \in 1..(M * S) /\ block(c)[j] = lines(c)[m][s]
      <3> HIDE DEF block, lines
      <3> QED BY <1>7 DEF Follow
    <2>2. lines(c)[m][s] = CellOf(c, m, s)
      OBVIOUS
    <2>3. Place(c, m, s) = (c - 1) * (M * S) + j
      BY DEF Place, M, S
    <2> HIDE DEF j, block, lines
    <2>4. Place(c, m, s) \in 1..(E * (M * S)) /\ Planned[Place(c, m, s)] = blocks[c][j]
      BY <1>9, <2>1, <2>3 DEF Follow
    <2>5. blocks[c] = block(c)
      OBVIOUS
    <2> QED BY <2>1, <2>2, <2>4, <2>5
  <1>12. ASSUME NEW p \in 1..(E * (M * S))
         PROVE  \E c \in 1..E, m \in 1..M, s \in 1..S : p = Place(c, m, s)
    <2>1. PICK c \in 1..E, j \in 1..(M * S) : p = (c - 1) * (M * S) + j
      BY <1>1, <1>6, PieceOf
    <2>2. PICK m \in 1..M, s \in 1..S : j = (m - 1) * S + s
      BY <1>1, <1>2, PieceOf
    <2>3. p = Place(c, m, s)
      BY <2>1, <2>2 DEF Place, M, S
    <2> QED BY <2>3
  <1> QED BY <1>1, <1>2, <1>6, <1>10, <1>11, <1>12 DEF E, M, S

LEMMA Members ==
    ASSUME NEW X, NEW s \in Seq(X)
    PROVE  /\ Len(s) \in Nat /\ DOMAIN s = 1..Len(s) /\ \A i \in 1..Len(s) : s[i] \in X
           /\ Evaluation!ToSet(s) = {s[i] : i \in 1..Len(s)}
           /\ Evaluation!Unique(s) <=> \A i, j \in 1..Len(s) : s[i] = s[j] => i = j
  <1>1. Len(s) \in Nat /\ DOMAIN s = 1..Len(s) /\ \A i \in 1..Len(s) : s[i] \in X
    BY LenProperties
  <1> DEFINE T == {s[i] : i \in 1..Len(s)}
  <1>2. Evaluation!ToSet(s) = T
    BY <1>1 DEF Evaluation!ToSet
  <1> HIDE DEF T
  <1>3. IsFiniteSet(T) /\ (Cardinality(T) = Len(s) <=> \A i, j \in 1..Len(s) : s[i] = s[j] => i = j)
    BY <1>1, Distinct DEF T
  <1>4. Evaluation!Unique(s) <=> Len(s) = Cardinality(T)
    BY <1>2, GridOperators DEF Evaluation!Unique
  <1> QED BY <1>1, <1>2, <1>3, <1>4 DEF T

LEMMA CellsOfGrid ==
    ASSUME RequestOK
    PROVE  /\ Evaluation!Grid(request) = {Planned[p] : p \in 1..Len(Planned)}
           /\ \A x : x \in Evaluation!Grid(request) <=>
                \E c \in 1..Len(request.entries), m \in 1..Len(request.modes), s \in 1..Len(request.seeds) :
                    x = CellOf(c, m, s)
  <1>1. Evaluation!Grid(request) = {Planned[p] : p \in 1..Len(Planned)}
    BY PlanCells, Members DEF Evaluation!Grid, Planned
  <1> DEFINE E == Len(request.entries)
             M == Len(request.modes)
             S == Len(request.seeds)
  <1>2. /\ Len(Planned) = E * (M * S)
        /\ \A c \in 1..E, m \in 1..M, s \in 1..S :
              Place(c, m, s) \in 1..(E * (M * S)) /\ Planned[Place(c, m, s)] = CellOf(c, m, s)
        /\ \A p \in 1..(E * (M * S)) : \E c \in 1..E, m \in 1..M, s \in 1..S : p = Place(c, m, s)
    BY PlanCells
  <1> HIDE DEF E, M, S
  <1>3. \A c \in 1..E, m \in 1..M, s \in 1..S : \E p \in 1..Len(Planned) : Planned[p] = CellOf(c, m, s)
    BY <1>2
  <1>4. \A p \in 1..Len(Planned) : \E c \in 1..E, m \in 1..M, s \in 1..S : Planned[p] = CellOf(c, m, s)
    BY <1>2
  <1>5. \A x : x \in Evaluation!Grid(request) <=> \E c \in 1..E, m \in 1..M, s \in 1..S : x = CellOf(c, m, s)
    <2> TAKE x
    <2>1. x \in Evaluation!Grid(request) <=> \E p \in 1..Len(Planned) : x = Planned[p]
      BY <1>1
    <2>2. ASSUME NEW p \in 1..Len(Planned), x = Planned[p]
          PROVE  \E c \in 1..E, m \in 1..M, s \in 1..S : x = CellOf(c, m, s)
      BY <1>4, <2>2
    <2>3. ASSUME NEW c \in 1..E, NEW m \in 1..M, NEW s \in 1..S, x = CellOf(c, m, s)
          PROVE  \E p \in 1..Len(Planned) : x = Planned[p]
      <3>1. PICK p \in 1..Len(Planned) : Planned[p] = CellOf(c, m, s)
        BY <1>3
      <3> QED BY <2>3, <3>1
    <2> QED BY <2>1, <2>2, <2>3
  <1> QED BY <1>1, <1>5 DEF E, M, S

\* Every episode is of the grid, and every cell of the grid has an episode.
Covered == Evaluation!ToSet(episodes) = Evaluation!Grid(request)

\* No two episodes have the same cell.
Apart == \A i, j \in 1..Len(episodes) : episodes[i] = episodes[j] => i = j

LEMMA ScenariosCovered ==
    ASSUME RequestOK, episodes \in Seq(GridCells), Covered, NEW i \in 1..Len(episodes)
    PROVE  Evaluation!Scenarios(i) = Evaluation!ToSet(request.seeds)
  <1>1. /\ DOMAIN episodes = 1..Len(episodes) /\ Evaluation!ToSet(episodes) = {episodes[j] : j \in 1..Len(episodes)}
        /\ Evaluation!ToSet(request.seeds) = {request.seeds[s] : s \in 1..Len(request.seeds)}
    BY Members DEF RequestOK
  <1>2. \A j \in 1..Len(episodes) : episodes[j] \in Evaluation!Grid(request)
    BY <1>1 DEF Covered
  <1>3. PICK c \in 1..Len(request.entries), m \in 1..Len(request.modes), t \in 1..Len(request.seeds) :
            episodes[i] = CellOf(c, m, t)
    BY <1>2, CellsOfGrid
  <1>4. ASSUME NEW s \in 1..Len(request.seeds)
        PROVE  \E j \in Evaluation!Trained(i) : episodes[j].seed = request.seeds[s]
    <2>1. CellOf(c, m, s) \in Evaluation!Grid(request)
      BY CellsOfGrid
    <2>2. PICK j \in 1..Len(episodes) : episodes[j] = CellOf(c, m, s)
      BY <1>1, <2>1 DEF Covered
    <2>3. /\ episodes[j].entry = episodes[i].entry /\ episodes[j].failure = episodes[i].failure
          /\ episodes[j].seed = request.seeds[s]
      BY <1>3, <2>2 DEF CellOf, Evaluation!Cell
    <2>4. j \in Evaluation!Trained(i)
      BY <1>1, <2>3 DEF Evaluation!Trained, Evaluation!Group
    <2> QED BY <2>3, <2>4
  <1>5. ASSUME NEW j \in Evaluation!Trained(i)
        PROVE  \E s \in 1..Len(request.seeds) : episodes[j].seed = request.seeds[s]
    <2>1. j \in 1..Len(episodes)
      BY <1>1 DEF Evaluation!Trained, Evaluation!Group
    <2>2. PICK d \in 1..Len(request.entries), n \in 1..Len(request.modes), s \in 1..Len(request.seeds) :
              episodes[j] = CellOf(d, n, s)
      BY <1>2, <2>1, CellsOfGrid
    <2> QED BY <2>2 DEF CellOf, Evaluation!Cell
  <1>6. Evaluation!Scenarios(i) = {episodes[j].seed : j \in Evaluation!Trained(i)}
    BY DEF Evaluation!Scenarios
  <1> DEFINE A == {episodes[j].seed : j \in Evaluation!Trained(i)}
             B == {request.seeds[s] : s \in 1..Len(request.seeds)}
  <1>7. A \subseteq B /\ B \subseteq A
    <2>1. \A j \in Evaluation!Trained(i) : episodes[j].seed \in B
      BY <1>5
    <2>2. \A s \in 1..Len(request.seeds) : request.seeds[s] \in A
      <3> TAKE s \in 1..Len(request.seeds)
      <3>1. PICK j \in Evaluation!Trained(i) : episodes[j].seed = request.seeds[s]
        BY <1>4
      <3> QED BY <3>1
    <2> QED BY <2>1, <2>2
  <1> HIDE DEF A, B
  <1>8. A = B
    BY <1>7
  <1> QED BY <1>1, <1>6, <1>8 DEF A, B

LEMMA CoveredAggregates ==
    ASSUME RequestOK, episodes \in Seq(GridCells), Covered
    PROVE  Evaluation!Aggregates
  <1>1. DOMAIN episodes = 1..Len(episodes)
    BY Members
  <1>2. \A i : Evaluation!Group(i) \subseteq 1..Len(episodes)
    BY <1>1 DEF Evaluation!Group
  <1> QED BY <1>1, <1>2, ScenariosCovered DEF Evaluation!Aggregates

\* In a group every training seed has every scenario, once.
LEMMA AggregatesWeigh ==
    ASSUME GridNumbers, episodes \in Seq(GridCells), Apart, Evaluation!Aggregates
    PROVE  Evaluation!WeighedAlike
  <1>1. DOMAIN episodes = 1..Len(episodes) /\ Len(episodes) \in Nat /\ \A j \in 1..Len(episodes) : episodes[j] \in GridCells
    BY Members
  <1> SUFFICES ASSUME NEW i \in 1..Len(episodes)
               PROVE  Cardinality(Evaluation!Group(i)) =
                        Cardinality(Evaluation!Trainings(i)) * Cardinality(Evaluation!Scenarios(i))
                            * Cardinality(Evaluation!Repeats(i))
    BY <1>1, GridOperators DEF Evaluation!WeighedAlike
  <1> DEFINE G == Evaluation!Group(i)
             T == Evaluation!Trainings(i)
             C == Evaluation!Scenarios(i)
             tr(j) == episodes[j].entry.training
             sd(j) == episodes[j].seed
  <1>2. G \in SUBSET (1..Len(episodes)) /\ Evaluation!Trained(i) \in SUBSET (1..Len(episodes))
    BY <1>1 DEF Evaluation!Group, Evaluation!Trained
  <1>3. IsFiniteSet(G) /\ IsFiniteSet(Evaluation!Trained(i))
    <2>1. IsFiniteSet(1..Len(episodes))
      BY <1>1, FS_Interval
    <2> HIDE DEF G
    <2> QED BY <1>2, <2>1, FS_Subset
  <1>4. T = {tr(j) : j \in G} /\ C = {sd(j) : j \in Evaluation!Trained(i)}
    BY DEF Evaluation!Trainings, Evaluation!Scenarios
  <1>5. IsFiniteSet(T) /\ IsFiniteSet(C)
    <2> DEFINE f == [j \in G |-> tr(j)]
               g == [j \in Evaluation!Trained(i) |-> sd(j)]
    <2> HIDE DEF G, T, C, tr, sd
    <2>1. f \in Surjection(G, T) /\ g \in Surjection(Evaluation!Trained(i), C)
      BY <1>4 DEF Surjection
    <2> HIDE DEF f, g
    <2> QED BY <1>3, <2>1, FS_Surjection
  <1>6. \A j, k \in G : tr(j) = tr(k) /\ sd(j) = sd(k) => j = k
    <2> TAKE j, k \in G
    <2> HAVE tr(j) = tr(k) /\ sd(j) = sd(k)
    <2>1. j \in 1..Len(episodes) /\ k \in 1..Len(episodes)
      BY <1>2
    <2>2. /\ episodes[j].entry.controller = episodes[k].entry.controller
          /\ episodes[j].entry.variant = episodes[k].entry.variant /\ episodes[j].failure = episodes[k].failure
      BY DEF Evaluation!Group
    <2>3. Evaluation!Named(episodes[j]) = Evaluation!Named(episodes[k])
      BY <2>2 DEF Evaluation!Named, Evaluation!Key
    <2>4. episodes[j] = episodes[k]
      BY <1>1, <2>1, <2>3, NamesTell
    <2> QED BY <2>1, <2>4 DEF Apart
  <1>7. \A j \in G : Evaluation!Trained(j) = {k \in G : tr(k) = tr(j)} /\ Evaluation!Scenarios(j) = C
    <2> TAKE j \in G
    <2>1. Evaluation!Group(j) = G
      BY DEF Evaluation!Group
    <2>2. Evaluation!Scenarios(j) = C
      BY <1>1 DEF Evaluation!Aggregates
    <2> QED BY <2>1, <2>2 DEF Evaluation!Trained
  <1>8. \A j \in G : sd(j) \in C
    <2> TAKE j \in G
    <2>1. j \in Evaluation!Trained(j)
      BY <1>7
    <2>2. sd(j) \in Evaluation!Scenarios(j)
      BY <2>1 DEF Evaluation!Scenarios
    <2> QED BY <1>7, <2>2
  <1>9. \A x \in T, y \in C : \E k \in G : tr(k) = x /\ sd(k) = y
    <2> TAKE x \in T, y \in C
    <2>1. PICK j \in G : tr(j) = x
      BY <1>4
    <2>2. y \in Evaluation!Scenarios(j)
      BY <1>7
    <2>3. PICK k \in Evaluation!Trained(j) : sd(k) = y
      BY <2>2 DEF Evaluation!Scenarios
    <2> QED BY <1>7, <2>1, <2>3
  <1>10. Cardinality(G) = Cardinality(T) * Cardinality(C)
    <2> DEFINE f == [j \in G |-> <<tr(j), sd(j)>>]
    <2> HIDE DEF G, T, C, tr, sd
    <2>1. \A j \in G : tr(j) \in T
      BY <1>4
    <2>2. f \in [G -> T \X C] /\ \A j \in G : f[j] = <<tr(j), sd(j)>>
      BY <1>8, <2>1
    <2>3. \A z \in T \X C : \E j \in G : f[j] = z
      BY <1>9, <2>2
    <2> HIDE DEF f
    <2>4. f \in Surjection(G, T \X C)
      BY <2>2, <2>3 DEF Surjection
    <2>5. IsInjective(f)
      BY <1>6, <2>2 DEF IsInjective
    <2>6. f \in Injection(G, T \X C)
      BY <2>2, <2>5 DEF Injection
    <2>7. Cardinality(T \X C) = Cardinality(G)
      BY <1>3, <2>4, <2>6, FS_Surjection
    <2>8. Cardinality(T \X C) = Cardinality(T) * Cardinality(C)
      BY <1>5, FS_Product
    <2> QED BY <2>7, <2>8
  <1>11. Evaluation!Repeats(i) = {i}
    <2>1. i \in G
      BY <1>1 DEF Evaluation!Group
    <2>2. \A k : k \in Evaluation!Repeats(i) <=> k \in Evaluation!Trained(i) /\ sd(k) = sd(i)
      BY DEF Evaluation!Repeats
    <2> HIDE DEF G
    <2>3. \A k : k \in Evaluation!Repeats(i) <=> k \in G /\ tr(k) = tr(i) /\ sd(k) = sd(i)
      BY <1>7, <2>1, <2>2
    <2> HIDE DEF tr, sd
    <2> QED BY <1>6, <2>1, <2>3
  <1>12. Cardinality(Evaluation!Repeats(i)) = 1 /\ Cardinality(T) * Cardinality(C) \in Nat
    <2>1. Cardinality(T) \in Nat /\ Cardinality(C) \in Nat
      BY <1>5, FS_CardinalityType
    <2>2. Cardinality({i}) = 1
      BY FS_Singleton
    <2> HIDE DEF T, C
    <2> QED BY <1>11, <2>1, <2>2, Z3
  <1> HIDE DEF G, T, C
  <1>13. Cardinality(T) * Cardinality(C) * Cardinality(Evaluation!Repeats(i)) = Cardinality(T) * Cardinality(C)
    BY <1>12
  <1> QED BY <1>10, <1>13 DEF G, T, C

LEMMA CoveredComplete ==
    ASSUME RequestOK, episodes \in Seq(GridCells), Covered, Apart,
           request.split => \A i \in 1..Len(episodes) : episodes[i].seed \in Expected
    PROVE  Evaluation!Complete
  <1>1. /\ DOMAIN episodes = 1..Len(episodes)
        /\ Evaluation!ToSet(episodes) = {episodes[i] : i \in 1..Len(episodes)}
    BY Members
  <1>2. \A c \in Evaluation!Grid(request) : \E i \in 1..Len(episodes) : episodes[i] = c
    BY <1>1 DEF Covered
  <1>3. ASSUME NEW c \in Evaluation!Grid(request)
        PROVE  Cardinality({i \in DOMAIN episodes : episodes[i] = c}) = 1
    <2>1. PICK k \in 1..Len(episodes) : episodes[k] = c
      BY <1>2
    <2>2. {i \in DOMAIN episodes : episodes[i] = c} = {k}
      BY <1>1, <2>1 DEF Apart
    <2> QED BY <2>2, FS_Singleton
  <1>4. request.split => \A c \in Evaluation!Grid(request) : c.seed \in Expected
    BY <1>2
  <1> QED BY <1>3, <1>4, GridOperators DEF Evaluation!Complete, Covered

Asked == request.split => \A i \in 1..Len(episodes) : episodes[i].seed \in Expected

\* What the checks find out.
LEMMA GridInCells == ASSUME RequestOK PROVE Evaluation!Grid(request) \subseteq GridCells
  <1>1. Planned \in Seq(GridCells)
    BY PlanCells
  <1>2. \A p \in 1..Len(Planned) : Planned[p] \in GridCells
    BY <1>1, Members
  <1> QED BY <1>2, CellsOfGrid

LEMMA ValidatesTells ==
    ASSUME GridNumbers, RequestOK, episodes \in Seq(GridCells), Evaluation!Validates(request)
    PROVE  Covered /\ Apart /\ Asked
  <1> DEFINE n == Len(episodes)
             names == [i \in 1..n |-> Evaluation!Named(episodes[i])]
             N == {Evaluation!Named(c) : c \in GridCells}
  <1>1. /\ n \in Nat /\ DOMAIN episodes = 1..n /\ \A i \in 1..n : episodes[i] \in GridCells
        /\ Evaluation!ToSet(episodes) = {episodes[i] : i \in 1..n}
    BY Members
  <1>2. /\ Evaluation!Unique(names)
        /\ {Evaluation!Named(episodes[i]) : i \in 1..n} = {Evaluation!Named(c) : c \in Evaluation!Grid(request)}
        /\ request.split => \A i \in 1..n : episodes[i].seed \in Expected
    BY <1>1 DEF Evaluation!Validates
  <1> HIDE DEF n
  <1>3. names \in [1..n -> N]
    BY <1>1
  <1>4. names \in Seq(N) /\ Len(names) = n
    <2> HIDE DEF names, N
    <2>1. names \in Seq(N)
      BY <1>1, <1>3, SeqDef
    <2> DEFINE l == Len(names)
    <2>2. l \in Nat /\ 1..l = 1..n
      BY <1>3, <2>1, LenProperties
    <2> HIDE DEF l
    <2>3. l = n
      BY <1>1, <2>2
    <2> QED BY <2>1, <2>3 DEF l
  <1>5. \A i, j \in 1..n : names[i] = names[j] => i = j
    <2> HIDE DEF names, N
    <2> QED BY <1>2, <1>4, Members
  <1>6. Apart
    <2>1. \A i, j \in 1..n : episodes[i] = episodes[j] => i = j
      BY <1>5
    <2> QED BY <2>1 DEF Apart, n
  <1>7. \A i \in 1..n : episodes[i] \in Evaluation!Grid(request)
    <2> TAKE i \in 1..n
    <2>1. PICK c \in Evaluation!Grid(request) : Evaluation!Named(episodes[i]) = Evaluation!Named(c)
      BY <1>2
    <2>2. episodes[i] = c
      BY <1>1, <2>1, GridInCells, NamesTell
    <2> QED BY <2>2
  <1>8. \A c \in Evaluation!Grid(request) : \E i \in 1..n : episodes[i] = c
    <2> TAKE c \in Evaluation!Grid(request)
    <2>1. PICK i \in 1..n : Evaluation!Named(episodes[i]) = Evaluation!Named(c)
      BY <1>2
    <2>2. episodes[i] = c
      BY <1>1, <2>1, GridInCells, NamesTell
    <2> QED BY <2>2
  <1>9. Covered
    BY <1>1, <1>7, <1>8 DEF Covered
  <1> QED BY <1>2, <1>6, <1>9 DEF Asked, n

LEMMA CandidateTells ==
    ASSUME episodes \in Seq(GridCells)
    PROVE  Evaluation!CandidatePasses <=>
             Covered /\ Apart /\ \A i \in 1..Len(episodes) : episodes[i].seed \in Expected
  <1>1. DOMAIN episodes = 1..Len(episodes) /\ (Evaluation!Unique(episodes) <=> Apart)
    BY Members DEF Apart
  <1>2. Evaluation!Unique(episodes) <=> Len(episodes) = Cardinality(Evaluation!ToSet(episodes))
    BY GridOperators DEF Evaluation!Unique
  <1> QED BY <1>1, <1>2, GridOperators DEF Evaluation!CandidatePasses, Covered

LEMMA CompleteTells ==
    ASSUME episodes \in Seq(GridCells), request.split, Evaluation!Complete
    PROVE  Evaluation!CandidatePasses
  <1>1. /\ DOMAIN episodes = 1..Len(episodes)
        /\ Evaluation!ToSet(episodes) = {episodes[i] : i \in 1..Len(episodes)}
    BY Members
  <1>2. Covered /\ \A i \in 1..Len(episodes) : episodes[i] \in Evaluation!Grid(request)
    BY <1>1 DEF Evaluation!Complete, Covered
  <1>3. \A i \in 1..Len(episodes) : episodes[i].seed \in Expected
    BY <1>2 DEF Evaluation!Complete
  <1>4. ASSUME NEW i \in 1..Len(episodes), NEW j \in 1..Len(episodes), episodes[i] = episodes[j]
        PROVE  i = j
    <2> DEFINE P == {k \in DOMAIN episodes : episodes[k] = episodes[i]}
    <2>1. Cardinality(P) = 1
      BY <1>2, GridOperators DEF Evaluation!Complete
    <2>2. P \in SUBSET (1..Len(episodes)) /\ IsFiniteSet(1..Len(episodes))
      BY <1>1, Members, FS_Interval
    <2>3. i \in P /\ j \in P
      BY <1>1, <1>4
    <2> HIDE DEF P
    <2>4. IsFiniteSet(P)
      BY <2>2, FS_Subset
    <2>5. \E x : P = {x}
      BY <2>1, <2>4, FS_Singleton
    <2> QED BY <2>3, <2>5
  <1> QED BY <1>2, <1>3, <1>4, CandidateTells DEF Apart

LEMMA PlanApart ==
    ASSUME RequestOK, Evaluation!Unique(request.seeds), Evaluation!Unique(request.entries),
           NEW p \in 1..Len(Planned), NEW q \in 1..Len(Planned), Planned[p] = Planned[q]
    PROVE  p = q
  <1> DEFINE E == Len(request.entries)
             M == Len(request.modes)
             S == Len(request.seeds)
  <1>1. /\ Len(Planned) = E * (M * S)
        /\ \A c \in 1..E, m \in 1..M, s \in 1..S :
              Place(c, m, s) \in 1..(E * (M * S)) /\ Planned[Place(c, m, s)] = CellOf(c, m, s)
        /\ \A x \in 1..(E * (M * S)) : \E c \in 1..E, m \in 1..M, s \in 1..S : x = Place(c, m, s)
    BY PlanCells
  <1>2. /\ \A i, j \in 1..E : request.entries[i] = request.entries[j] => i = j
        /\ \A i, j \in 1..S : request.seeds[i] = request.seeds[j] => i = j
    BY Members DEF RequestOK
  <1>3. \A i, j \in 1..M : request.modes[i] = request.modes[j] => i = j
    <2>1. CASE request.modes = <<FALSE>>
      <3>1. \A i, j \in 1..1 : i = j
        OBVIOUS
      <3> QED BY <2>1, <3>1
    <2>2. CASE request.modes = <<FALSE, TRUE>>
      <3>1. M = 2 /\ request.modes[1] = FALSE /\ request.modes[2] = TRUE
        BY <2>2
      <3>2. \A i \in 1..2 : i = 1 \/ i = 2
        OBVIOUS
      <3> HIDE DEF M
      <3> QED BY <3>1, <3>2
    <2> QED BY <2>1, <2>2 DEF RequestOK
  <1> HIDE DEF E, M, S
  <1>4. PICK c \in 1..E, m \in 1..M, s \in 1..S : p = Place(c, m, s)
    BY <1>1
  <1>5. PICK d \in 1..E, n \in 1..M, t \in 1..S : q = Place(d, n, t)
    BY <1>1
  <1>6. CellOf(c, m, s) = CellOf(d, n, t)
    BY <1>1, <1>4, <1>5
  <1>7. /\ request.entries[c] = request.entries[d] /\ request.seeds[s] = request.seeds[t]
        /\ request.modes[m] = request.modes[n]
    BY <1>6 DEF CellOf, Evaluation!Cell
  <1>8. c = d /\ m = n /\ s = t
    BY <1>2, <1>3, <1>7
  <1> QED BY <1>4, <1>5, <1>8

AllPlanned ==
    Len(episodes) = Len(Planned) /\ \A i \in 1..Len(episodes) : episodes[i] = Planned[i]

\* A grid that was asked for properly and carried out is as it should be.
LEMMA SoundPlan ==
    ASSUME RequestOK, episodes \in Seq(GridCells), AllPlanned, request.kind # "found", Evaluation!Sound
    PROVE  Covered /\ Apart /\ Asked
  <1>1. /\ Evaluation!Unique(request.seeds) /\ Evaluation!Unique(request.entries)
        /\ request.split => Evaluation!ToSet(request.seeds) \subseteq Expected
    BY DEF Evaluation!Sound
  <1>2. Apart
    BY <1>1, PlanApart DEF AllPlanned, Apart
  <1>3. Covered
    <2>1. Evaluation!ToSet(episodes) = {episodes[i] : i \in 1..Len(episodes)}
      BY Members
    <2> QED BY <2>1, CellsOfGrid DEF Covered, AllPlanned
  <1>4. ASSUME request.split, NEW i \in 1..Len(episodes) PROVE episodes[i].seed \in Expected
    <2>1. episodes[i] \in Evaluation!Grid(request)
      BY CellsOfGrid DEF AllPlanned
    <2>2. PICK c \in 1..Len(request.entries), m \in 1..Len(request.modes), s \in 1..Len(request.seeds) :
              episodes[i] = CellOf(c, m, s)
      BY <2>1, CellsOfGrid
    <2>3. episodes[i].seed = request.seeds[s]
      BY <2>2 DEF CellOf, Evaluation!Cell
    <2>4. request.seeds[s] \in Evaluation!ToSet(request.seeds)
      BY Members DEF RequestOK
    <2> QED BY <1>1, <1>4, <2>3, <2>4
  <1> QED BY <1>2, <1>3, <1>4 DEF Asked

LEMMA NamedSeq ==
    ASSUME NEW X, NEW s \in Seq(X), NEW f, f = [i \in DOMAIN s |-> f[i]],
           \A i, j \in 1..Len(s) : f[i] = f[j] => i = j
    PROVE  Evaluation!Unique(f)
  <1> DEFINE n == Len(s)
             Y == {f[i] : i \in 1..n}
  <1>1. n \in Nat /\ DOMAIN s = 1..n
    BY Members
  <1> HIDE DEF n
  <1>2. f \in [1..n -> Y]
    BY <1>1
  <1> HIDE DEF Y
  <1>3. f \in Seq(Y)
    BY <1>1, <1>2, SeqDef
  <1> DEFINE l == Len(f)
  <1>4. l \in Nat /\ 1..l = 1..n
    BY <1>2, <1>3, LenProperties
  <1> HIDE DEF l
  <1>5. l = n
    BY <1>1, <1>4
  <1> QED BY <1>3, <1>5, Members DEF l, n

LEMMA SoundValidates ==
    ASSUME GridNumbers, RequestOK, episodes \in Seq(GridCells), AllPlanned, request.kind # "found",
           Evaluation!Sound
    PROVE  Evaluation!Aggregates /\ Evaluation!Validates(request)
  <1>1. Covered /\ Apart /\ Asked
    BY SoundPlan
  <1>2. Evaluation!Aggregates
    BY <1>1, CoveredAggregates
  <1>3. /\ request.seeds # <<>> /\ request.entries # <<>>
        /\ Evaluation!Unique(request.seeds) /\ Evaluation!Unique(request.entries)
    BY DEF Evaluation!Sound
  <1>4. /\ DOMAIN episodes = 1..Len(episodes) /\ \A i \in 1..Len(episodes) : episodes[i] \in GridCells
        /\ Evaluation!ToSet(episodes) = {episodes[i] : i \in 1..Len(episodes)}
    BY Members
  <1>5. Evaluation!Unique([i \in DOMAIN request.entries |-> Evaluation!Key(request.entries[i])])
    <2> DEFINE f == [i \in DOMAIN request.entries |-> Evaluation!Key(request.entries[i])]
    <2>1. /\ request.entries \in Seq(Evaluation!Entries) /\ DOMAIN request.entries = 1..Len(request.entries)
          /\ \A i \in 1..Len(request.entries) : request.entries[i] \in Evaluation!Entries
          /\ \A i, j \in 1..Len(request.entries) : request.entries[i] = request.entries[j] => i = j
      BY <1>3, Members DEF RequestOK
    <2>2. \A i, j \in 1..Len(request.entries) : f[i] = f[j] => i = j
      BY <2>1, NamesTell
    <2>3. f = [i \in DOMAIN request.entries |-> f[i]]
      OBVIOUS
    <2> HIDE DEF f
    <2>4. Evaluation!Unique(f)
      BY <2>1, <2>2, <2>3, NamedSeq
    <2> QED BY <2>4 DEF f
  <1>6. Evaluation!Unique([i \in DOMAIN episodes |-> Evaluation!Named(episodes[i])])
    <2> DEFINE f == [i \in DOMAIN episodes |-> Evaluation!Named(episodes[i])]
    <2>1. \A i, j \in 1..Len(episodes) : f[i] = f[j] => i = j
      BY <1>1, <1>4, NamesTell DEF Apart
    <2>2. f = [i \in DOMAIN episodes |-> f[i]]
      OBVIOUS
    <2> HIDE DEF f
    <2>3. Evaluation!Unique(f)
      BY <2>1, <2>2, NamedSeq
    <2> QED BY <2>3 DEF f
  <1>7. {Evaluation!Named(episodes[i]) : i \in DOMAIN episodes} = {Evaluation!Named(c) : c \in Evaluation!Grid(request)}
    <2>1. Evaluation!Grid(request) = {episodes[i] : i \in 1..Len(episodes)}
      BY <1>1, <1>4 DEF Covered
    <2> QED BY <1>4, <2>1
  <1>8. request.split => \A i \in DOMAIN episodes : episodes[i].seed \in Expected
    BY <1>1, <1>4 DEF Asked
  <1> QED BY <1>2, <1>3, <1>5, <1>6, <1>7, <1>8 DEF Evaluation!Validates

\* The plan of a held-out evaluation has its baselines first and its policies after them.
LEMMA HalfPlace ==
    ASSUME NEW B \in Nat, NEW M \in Nat, NEW S \in Nat, NEW c \in Nat \ {0}, NEW m \in 1..M, NEW s \in 1..S,
           NEW p, p = (c - 1) * (M * S) + ((m - 1) * S + s)
    PROVE  c <= B <=> p <= B * (M * S)
  <1> DEFINE k == M * S
             j == (m - 1) * S + s
  <1>1. k \in Nat /\ j \in 1..k
    <2>1. (m - 1) * S >= 0 /\ (m - 1) * S + S <= M * S /\ M * S \in Nat /\ (m - 1) * S \in Int
      BY Z3
    <2> QED BY <2>1
  <1>2. p = (c - 1) * k + j
    OBVIOUS
  <1> HIDE DEF k, j
  <1>3. c <= B => (c - 1) * k + k <= B * k
    BY <1>1, Z3
  <1>4. c > B => B * k <= (c - 1) * k
    BY <1>1, Z3
  <1>5. (c - 1) * k \in Int /\ B * k \in Int
    BY <1>1, Z3
  <1>6. c <= B => p <= B * k
    BY <1>1, <1>2, <1>3, <1>5
  <1>7. c > B => p > B * k
    BY <1>1, <1>2, <1>4, <1>5
  <1> QED BY <1>5, <1>6, <1>7, <1>1, <1>2 DEF k

LEMMA SoundHeldout ==
    ASSUME GridNumbers, RequestOK, episodes \in Seq(GridCells), AllPlanned, request.kind = "heldout",
           Evaluation!Sound
    PROVE  Evaluation!HeldoutPasses
  <1> DEFINE B == Len(Baselines)
             P == Len(Policies)
             E == Len(request.entries)
             M == Len(request.modes)
             S == Len(request.seeds)
             n == Len(episodes)
             ofP == {i \in DOMAIN episodes : episodes[i].entry \in Evaluation!ToSet(Policies)}
             ofB == {i \in DOMAIN episodes : episodes[i].entry \in Evaluation!ToSet(Baselines)}
  <1>1. /\ request.entries = Baselines \o Policies /\ request.split
        /\ Evaluation!Unique(request.entries)
    BY DEF RequestOK, Evaluation!Sound
  <1>2. /\ B \in Nat /\ P \in Nat /\ E = B + P
        /\ Evaluation!ToSet(Baselines) = {Baselines[c] : c \in 1..B}
        /\ Evaluation!ToSet(Policies) = {Policies[c] : c \in 1..P}
        /\ \A c \in 1..B : request.entries[c] = Baselines[c]
        /\ \A c \in 1..P : request.entries[B + c] = Policies[c]
    BY <1>1, NamesTell, Members, ConcatProperties
  <1>3. \A c, d \in 1..E : request.entries[c] = request.entries[d] => c = d
    BY <1>1, Members DEF RequestOK
  <1>4. /\ DOMAIN episodes = 1..n /\ n \in Nat /\ M \in Nat /\ S \in Nat /\ n = E * (M * S)
        /\ \A i \in 1..n : \E c \in 1..E, m \in 1..M, s \in 1..S :
              i = Place(c, m, s) /\ episodes[i] = CellOf(c, m, s)
    <2>1. /\ M \in Nat /\ S \in Nat /\ Len(Planned) = E * (M * S)
          /\ \A c \in 1..E, m \in 1..M, s \in 1..S : Planned[Place(c, m, s)] = CellOf(c, m, s)
          /\ \A p \in 1..(E * (M * S)) : \E c \in 1..E, m \in 1..M, s \in 1..S : p = Place(c, m, s)
      BY PlanCells
    <2>2. n = Len(Planned) /\ \A i \in 1..n : episodes[i] = Planned[i]
      BY DEF AllPlanned
    <2>3. DOMAIN episodes = 1..n /\ n \in Nat
      BY Members
    <2> HIDE DEF E, M, S, n
    <2>4. ASSUME NEW i \in 1..n
          PROVE  \E c \in 1..E, m \in 1..M, s \in 1..S : i = Place(c, m, s) /\ episodes[i] = CellOf(c, m, s)
      <3>1. i \in 1..(E * (M * S)) /\ episodes[i] = Planned[i]
        BY <2>1, <2>2
      <3>2. PICK c \in 1..E, m \in 1..M, s \in 1..S : i = Place(c, m, s)
        BY <2>1, <3>1
      <3>3. Planned[Place(c, m, s)] = CellOf(c, m, s)
        BY <2>1
      <3> QED BY <3>1, <3>2, <3>3
    <2> QED BY <2>1, <2>2, <2>3, <2>4
  <1>5. \A c \in 1..E, m \in 1..M, s \in 1..S : c <= B <=> Place(c, m, s) <= B * (M * S)
    <2> TAKE c \in 1..E, m \in 1..M, s \in 1..S
    <2> DEFINE p == Place(c, m, s)
    <2>1. p = (c - 1) * (M * S) + ((m - 1) * S + s)
      BY DEF Place
    <2>2. c \in Nat \ {0} /\ B \in Nat /\ M \in Nat /\ S \in Nat
      BY <1>2, <1>4
    <2> HIDE DEF p, B, M, S
    <2>3. c <= B <=> p <= B * (M * S)
      BY <2>1, <2>2, HalfPlace
    <2> QED BY <2>3 DEF p
  <1>6. \A c \in 1..E, m \in 1..M, s \in 1..S : CellOf(c, m, s).entry = request.entries[c]
    BY DEF CellOf, Evaluation!Cell
  <1> HIDE DEF B, P, E, M, S, n
  <1>7. \A c \in 1..E : /\ request.entries[c] \in Evaluation!ToSet(Baselines) <=> c <= B
                        /\ request.entries[c] \in Evaluation!ToSet(Policies) <=> ~ (c <= B)
    <2> TAKE c \in 1..E
    <2>1. CASE c <= B
      <3>1. request.entries[c] = Baselines[c] /\ c \in 1..B
        BY <1>2, <2>1
      <3>2. ASSUME NEW d \in 1..P, request.entries[c] = Policies[d] PROVE FALSE
        <4>1. B + d \in 1..E /\ B + d # c /\ request.entries[B + d] = Policies[d]
          BY <1>2, <2>1
        <4> QED BY <1>3, <3>2, <4>1
      <3>3. request.entries[c] \in Evaluation!ToSet(Baselines)
        BY <1>2, <3>1
      <3>4. request.entries[c] \notin Evaluation!ToSet(Policies)
        BY <1>2, <3>2
      <3> QED BY <2>1, <3>3, <3>4
    <2>2. CASE ~ (c <= B)
      <3>1. PICK e \in 1..P : c = B + e
        <4>1. c - B \in 1..P /\ c = B + (c - B)
          BY <1>2, <2>2
        <4> QED BY <4>1
      <3>2. request.entries[c] = Policies[e]
        BY <1>2, <3>1
      <3>3. ASSUME NEW d \in 1..B, request.entries[c] = Baselines[d] PROVE FALSE
        <4>1. d \in 1..E /\ d # c /\ request.entries[d] = Baselines[d]
          BY <1>2, <2>2
        <4> QED BY <1>3, <3>3, <4>1
      <3>4. request.entries[c] \in Evaluation!ToSet(Policies)
        BY <1>2, <3>2
      <3>5. request.entries[c] \notin Evaluation!ToSet(Baselines)
        BY <1>2, <3>3
      <3> QED BY <2>2, <3>4, <3>5
    <2> QED BY <2>1, <2>2
  <1>8. \A i \in 1..n : /\ episodes[i].entry \in Evaluation!ToSet(Baselines) <=> i <= B * (M * S)
                        /\ episodes[i].entry \in Evaluation!ToSet(Policies) <=> ~ (i <= B * (M * S))
    <2> TAKE i \in 1..n
    <2>1. PICK c \in 1..E, m \in 1..M, s \in 1..S : i = Place(c, m, s) /\ episodes[i] = CellOf(c, m, s)
      BY <1>4
    <2>2. episodes[i].entry = request.entries[c] /\ (c <= B <=> i <= B * (M * S))
      BY <1>5, <1>6, <2>1
    <2> QED BY <1>7, <2>2
  <1> DEFINE b == B * (M * S)
             q == P * (M * S)
  <1>9. /\ b \in Nat /\ q \in Nat /\ n = b + q
        /\ b = B * S * M /\ q = P * S * M
    <2>1. E * (M * S) = b + q
      BY <1>2, <1>4, Z3
    <2>2. b \in Nat /\ q \in Nat
      BY <1>2, <1>4, Z3
    <2>3. b = B * S * M /\ q = P * S * M
      BY <1>2, <1>4, Z3
    <2> QED BY <1>4, <2>1, <2>2, <2>3
  <1>10. ofB = 1..b /\ ofP = (b + 1)..n
    <2> HIDE DEF b, q
    <2>1. \A i \in 1..n : /\ episodes[i].entry \in Evaluation!ToSet(Baselines) <=> i <= b
                          /\ episodes[i].entry \in Evaluation!ToSet(Policies) <=> ~ (i <= b)
      BY <1>8 DEF b
    <2>2. ofB = {i \in 1..n : i <= b} /\ ofP = {i \in 1..n : ~ (i <= b)}
      BY <1>4, <2>1
    <2> HIDE DEF ofB, ofP
    <2>3. {i \in 1..n : i <= b} = 1..b /\ {i \in 1..n : ~ (i <= b)} = (b + 1)..n
      BY <1>9
    <2> QED BY <2>2, <2>3
  <1> HIDE DEF ofB, ofP, b, q
  <1>11. Cardinality(ofB) = b /\ Cardinality(ofP) = q
    <2>1. Cardinality(1..b) = b
      BY <1>9, FS_Interval
    <2>2. Cardinality((b + 1)..n) = q
      <3>1. b + 1 \in Int /\ n \in Int
        BY <1>9
      <3>2. Cardinality((b + 1)..n) = IF b + 1 > n THEN 0 ELSE n - (b + 1) + 1
        BY <3>1, FS_Interval
      <3> QED BY <1>9, <3>2
    <2> QED BY <1>10, <2>1, <2>2
  <1>12. \A i \in DOMAIN episodes : episodes[i].seed \in Expected
    <2>1. Asked
      BY <1>1, SoundPlan
    <2> QED BY <1>1, <1>4, <2>1 DEF Asked, n
  <1>13. /\ n = B * S * M + P * S * M
         /\ Evaluation!Cardinality(ofP) = P * S * M
         /\ Evaluation!Cardinality(ofB) = B * S * M
    BY <1>9, <1>11, GridOperators
  <1> QED BY <1>12, <1>13 DEF Evaluation!HeldoutPasses, ofP, ofB, n, B, P, S, M

LEMMA ProtocolSeeds == ASSUME GridNumbers PROVE Evaluation!Protocol \in Seq(Expected)
  <1> DEFINE R == {p \in Expected \X Expected : p[1] < p[2]}
             InOrder(l) == \A i, j \in DOMAIN l : i < j => l[i] < l[j]
  <1>1. \A m, k \in Expected : <<m, k>> \in R <=> m < k
    OBVIOUS
  <1>2. IsFiniteSet(Expected) /\ \A m \in Expected : m \in Int
    BY DEF GridNumbers
  <1>3. /\ \A m \in Expected : <<m, m>> \notin R
        /\ \A m, k, o \in Expected : <<m, k>> \in R /\ <<k, o>> \in R => <<m, o>> \in R
        /\ \A m, k \in Expected : m = k \/ <<m, k>> \in R \/ <<k, m>> \in R
    BY <1>1, <1>2
  <1>4. \E seq \in SetToSeqs(Expected) : \A i, j \in DOMAIN seq : i < j => <<seq[i], seq[j]>> \in R
    <2> HIDE DEF R
    <2> QED BY <1>2, <1>3, CanBeSorted
  <1>5. \A seq \in SetToSeqs(Expected) :
            seq \in [1..Cardinality(Expected) -> Expected] /\ DOMAIN seq = 1..Cardinality(Expected)
    BY DEF SetToSeqs
  <1>6. \E l \in SetToSeqs(Expected) : InOrder(l)
    BY <1>1, <1>4, <1>5
  <1>7. Evaluation!Protocol \in SetToSeqs(Expected)
    <2>1. Evaluation!Protocol = CHOOSE l \in SetToSeqs(Expected) : InOrder(l)
      BY GridOperators DEF Evaluation!Protocol
    <2> HIDE DEF InOrder
    <2> QED BY <1>6, <2>1
  <1>8. Cardinality(Expected) \in Nat
    BY <1>2, FS_CardinalityType
  <1> QED BY <1>5, <1>7, <1>8, SeqDef

LEMMA ListsAreSeqs == ASSUME NEW S PROVE \A l \in Evaluation!Lists(S) : l \in Seq(S)
  <1>1. \A n \in 0..2 : n \in Nat
    OBVIOUS
  <1> QED BY <1>1, SeqDef DEF Evaluation!Lists

LEMMA SeqGrows == ASSUME NEW A, NEW B, A \subseteq B, NEW s \in Seq(A) PROVE s \in Seq(B)
  <1>1. s \in [1..Len(s) -> A] /\ Len(s) \in Nat
    BY LenProperties
  <1>2. s \in [1..Len(s) -> B]
    BY <1>1
  <1> QED BY <1>1, <1>2, SeqDef

LEMMA RequestTypes ==
    ASSUME GridNumbers,
           request \in Evaluation!Inline \cup Evaluation!Heldout \cup Evaluation!Candidates("candidate")
                         \cup Evaluation!Candidates("found")
    PROVE  RequestOK
  <1> USE DEF RequestOK
  <1>1. Evaluation!Protocol \in Seq(Seeds \cup Expected)
    BY ProtocolSeeds, SeqGrows
  <1>2. Evaluation!Modes = <<FALSE, TRUE>>
    BY DEF Evaluation!Modes
  <1>3. CASE request \in Evaluation!Inline
    <2>1. /\ request.kind = "inline" /\ request.entries \in Evaluation!Lists(Evaluation!Entries)
          /\ request.seeds \in Evaluation!Lists(Seeds)
          /\ request.modes \in {<<FALSE>>, <<FALSE, TRUE>>} /\ request.split \in BOOLEAN
      BY <1>2, <1>3 DEF Evaluation!Inline
    <2>2. request.entries \in Seq(Evaluation!Entries) /\ request.seeds \in Seq(Seeds \cup Expected)
      BY <2>1, ListsAreSeqs, SeqGrows
    <2> QED BY <2>1, <2>2
  <1>4. CASE request \in Evaluation!Heldout
    <2>1. /\ request.kind = "heldout" /\ request.entries = Baselines \o Policies
          /\ request.seeds = Evaluation!Protocol /\ request.modes = <<FALSE, TRUE>> /\ request.split = TRUE
      BY <1>2, <1>4 DEF Evaluation!Heldout
    <2>2. Baselines \o Policies \in Seq(Evaluation!Entries)
      BY NamesTell, ConcatProperties
    <2> QED BY <1>1, <2>1, <2>2
  <1>5. ASSUME NEW sort \in {"candidate", "found"}, request \in Evaluation!Candidates(sort)
        PROVE  RequestOK
    <2>1. /\ request.kind = sort /\ request.entries \in {<<p>> : p \in Evaluation!ToSet(Policies)}
          /\ request.seeds = Evaluation!Protocol /\ request.modes = <<FALSE, TRUE>> /\ request.split = TRUE
      BY <1>2, <1>5 DEF Evaluation!Candidates
    <2>2. PICK p \in Evaluation!Entries : request.entries = <<p>>
      BY <2>1 DEF Evaluation!Entries
    <2>3. request.entries \in Seq(Evaluation!Entries) /\ Len(request.entries) = 1
      BY <2>2
    <2> QED BY <1>1, <2>1, <2>3
  <1> QED BY <1>3, <1>4, <1>5

LEMMA GridInit == ASSUME GridNumbers, Evaluation!Init PROVE GridInv
  <1>1. RequestOK
    BY RequestTypes DEF Evaluation!Init
  <1>2. CASE /\ request \in Evaluation!Inline \cup Evaluation!Heldout \cup Evaluation!Candidates("candidate")
             /\ episodes = <<>> /\ outcome = "running"
    <2>1. request.kind # "found"
      BY <1>2 DEF Evaluation!Inline, Evaluation!Heldout, Evaluation!Candidates
    <2>2. episodes \in Seq(GridCells) /\ Len(episodes) = 0 /\ 1..0 = {}
      BY <1>2
    <2>3. Len(Planned) \in Nat
      BY <1>1, PlanCells
    <2> QED BY <1>1, <1>2, <2>1, <2>2, <2>3 DEF GridInv
  <1>3. CASE /\ request \in Evaluation!Candidates("found")
             /\ \E n \in 0..Len(Planned) + 1 :
                   episodes \in [1..n -> {Evaluation!Cell(request.entries[1], s, m) : s \in Seeds, m \in BOOLEAN}]
             /\ outcome = "stored"
    <2>1. request.kind = "found"
      BY <1>3 DEF Evaluation!Candidates
    <2>2. Len(Planned) \in Nat
      BY <1>1, PlanCells
    <2> DEFINE C == {Evaluation!Cell(request.entries[1], s, m) : s \in Seeds, m \in BOOLEAN}
    <2>3. PICK n \in Nat : episodes \in [1..n -> C]
      <3> HIDE DEF C
      <3>1. \A n \in 0..Len(Planned) + 1 : n \in Nat
        BY <2>2
      <3>2. \E n \in 0..Len(Planned) + 1 : episodes \in [1..n -> C]
        BY <1>3 DEF C
      <3> QED BY <3>1, <3>2
    <2>4. request.entries[1] \in Evaluation!Entries
      <3>1. Len(request.entries) = 1 /\ request.entries \in Seq(Evaluation!Entries)
        BY <1>1, <2>1 DEF RequestOK
      <3> QED BY <3>1, Members
    <2>5. C \subseteq GridCells /\ \A c \in C : c.entry = request.entries[1]
      BY <2>4 DEF GridCells, Evaluation!Cell
    <2> HIDE DEF C
    <2>6. episodes \in Seq(C)
      BY <2>3, SeqDef
    <2>7. episodes \in Seq(GridCells) /\ \A i \in 1..Len(episodes) : episodes[i].entry = request.entries[1]
      BY <2>5, <2>6, SeqGrows, Members
    <2> QED BY <1>1, <1>3, <2>1, <2>7 DEF GridInv
  <1> QED BY <1>2, <1>3 DEF Evaluation!Init, Planned

\* What stays true of a grid does not depend on its outcome.
LEMMA NothingHidden ==
    ASSUME request' = request, episodes' = episodes
    PROVE  /\ RequestOK' <=> RequestOK
           /\ Planned' = Planned
           /\ Evaluation!Aggregates' <=> Evaluation!Aggregates
           /\ Evaluation!Validates(request)' <=> Evaluation!Validates(request)
           /\ Evaluation!CandidatePasses' <=> Evaluation!CandidatePasses
           /\ Evaluation!Sound' <=> Evaluation!Sound
  <1>1. RequestOK' <=> RequestOK
    BY DEF RequestOK
  <1>2. Planned' = Planned /\ Evaluation!Grid(request)' = Evaluation!Grid(request)
    BY DEF Planned, Evaluation!Grid, Evaluation!Plan
  <1>3. \A i : Evaluation!Group(i)' = Evaluation!Group(i) /\ Evaluation!Scenarios(i)' = Evaluation!Scenarios(i)
    BY DEF Evaluation!Group, Evaluation!Scenarios, Evaluation!Trained
  <1>4. Evaluation!Aggregates' <=> Evaluation!Aggregates
    BY <1>3 DEF Evaluation!Aggregates
  <1>5. Evaluation!Validates(request)' <=> Evaluation!Validates(request)
    BY <1>2 DEF Evaluation!Validates
  <1>6. Evaluation!CandidatePasses' <=> Evaluation!CandidatePasses
    BY <1>2 DEF Evaluation!CandidatePasses
  <1>7. Evaluation!Complete' <=> Evaluation!Complete
    BY <1>2 DEF Evaluation!Complete
  <1>8. Evaluation!Sound' <=> Evaluation!Sound
    BY <1>7 DEF Evaluation!Sound
  <1> QED BY <1>1, <1>2, <1>4, <1>5, <1>6, <1>8

\* A seed that is refused was not asked for properly.
LEMMA RefusedSeed ==
    ASSUME RequestOK, request.kind # "found", request.split, NEW p \in 1..Len(Planned),
           Planned[p].seed \notin Expected
    PROVE  ~ Evaluation!Sound
  <1>1. PICK c \in 1..Len(request.entries), m \in 1..Len(request.modes), s \in 1..Len(request.seeds) :
            Planned[p] = CellOf(c, m, s)
    BY CellsOfGrid
  <1>2. Planned[p].seed = request.seeds[s]
    BY <1>1 DEF CellOf, Evaluation!Cell
  <1>3. request.seeds[s] \in Evaluation!ToSet(request.seeds)
    BY Members DEF RequestOK
  <1> QED BY <1>2, <1>3 DEF Evaluation!Sound

LEMMA GridKeeps == ASSUME GridNumbers, GridInv, [Evaluation!Next]_Evaluation!vars PROVE GridInv'
  <1>1. RequestOK /\ episodes \in Seq(GridCells) /\ Len(Planned) \in Nat /\ Planned \in Seq(GridCells)
    BY PlanCells DEF GridInv
  <1>2. CASE Evaluation!Evaluate
    <2> DEFINE k == Len(episodes) + 1
               next == Planned[k]
    <2>1. /\ outcome = "running" /\ request' = request /\ Len(episodes) < Len(Planned)
          /\ IF request.split /\ next.seed \notin Expected
               THEN outcome' = "refused" /\ episodes' = episodes
               ELSE episodes' = Append(episodes, next) /\ outcome' = outcome
      BY <1>2 DEF Evaluation!Evaluate, Planned
    <2>2. request.kind # "found"
      BY <2>1 DEF GridInv
    <2>3. Len(episodes) \in Nat /\ k \in 1..Len(Planned) /\ next \in GridCells
      BY <1>1, <2>1, Members
    <2>4. CASE request.split /\ next.seed \notin Expected
      <3>1. ~ Evaluation!Sound
        BY <1>1, <2>2, <2>3, <2>4, RefusedSeed
      <3>2. outcome' = "refused" /\ episodes' = episodes
        BY <2>1, <2>4
      <3> QED BY <2>1, <2>2, <3>1, <3>2, NothingHidden DEF GridInv
    <2>5. CASE ~ (request.split /\ next.seed \notin Expected)
      <3>1. episodes' = Append(episodes, next) /\ outcome' = "running"
        BY <2>1, <2>5
      <3>2. RequestOK' /\ Planned' = Planned
        BY <1>1, <2>1 DEF RequestOK, Planned, Evaluation!Plan
      <3>3. /\ episodes' \in Seq(GridCells) /\ Len(episodes') = k
            /\ \A i \in 1..k : episodes'[i] = IF i = k THEN next ELSE episodes[i]
        <4> HIDE DEF next
        <4> QED BY <1>1, <2>3, <3>1, AppendProperties
      <3>4. \A i \in 1..Len(episodes) : episodes[i] = Planned[i]
        BY <2>2 DEF GridInv
      <3>5. \A i \in 1..Len(episodes') : episodes'[i] = Planned[i]
        <4> TAKE i \in 1..Len(episodes')
        <4>1. i = k \/ i \in 1..Len(episodes)
          BY <2>3, <3>3
        <4> QED BY <2>3, <3>3, <3>4, <4>1
      <3>6. Len(episodes') <= Len(Planned)
        BY <2>3, <3>3
      <3> QED BY <2>1, <2>2, <3>1, <3>2, <3>3, <3>5, <3>6 DEF GridInv
    <2> QED BY <2>4, <2>5
  <1>3. CASE Evaluation!Cancel
    <2>1. outcome = "running" /\ outcome' = "cancelled" /\ request' = request /\ episodes' = episodes
      BY <1>3 DEF Evaluation!Cancel
    <2> QED BY <1>1, <2>1, NothingHidden DEF GridInv
  <1>4. CASE Evaluation!Store
    <2>1. /\ outcome = "running" /\ Len(episodes) = Len(Planned) /\ request' = request /\ episodes' = episodes
          /\ outcome' = IF request.kind = "candidate" \/ (Evaluation!Aggregates /\ Evaluation!Validates(request))
                          THEN "stored" ELSE "refused"
      BY <1>4 DEF Evaluation!Store, Planned
    <2>2. request.kind # "found"
      BY <2>1 DEF GridInv
    <2>3. AllPlanned
      BY <2>1, <2>2 DEF GridInv, AllPlanned
    <2>4. outcome' = "refused" => ~ Evaluation!Sound
      BY <1>1, <2>1, <2>2, <2>3, SoundValidates
    <2>5. request.kind \in {"inline", "heldout"} /\ outcome' \in {"stored", "accepted"} =>
            Evaluation!Aggregates /\ Evaluation!Validates(request)
      BY <2>1
    <2>6. outcome' \in {"stored", "refused"}
      BY <2>1
    <2> QED BY <1>1, <2>1, <2>2, <2>4, <2>5, <2>6, NothingHidden DEF GridInv
  <1>5. CASE Evaluation!Verify
    <2>1. /\ outcome = "stored" /\ request.kind # "inline" /\ request' = request /\ episodes' = episodes
          /\ outcome' = IF \/ request.kind = "heldout" /\ Evaluation!HeldoutPasses
                           \/ request.kind # "heldout" /\ Evaluation!CandidatePasses
                          THEN "accepted" ELSE "refused"
      BY <1>5 DEF Evaluation!Verify
    <2>2. request.split /\ request.kind \in {"heldout", "candidate", "found"}
      BY <1>1, <2>1 DEF RequestOK
    <2>3. request.kind # "found" => AllPlanned
      BY <2>1 DEF GridInv, AllPlanned
    <2>4. ASSUME Evaluation!Sound PROVE outcome' = "accepted"
      <3>1. CASE request.kind = "heldout"
        BY <1>1, <2>1, <2>3, <2>4, <3>1, SoundHeldout
      <3>2. CASE request.kind = "candidate"
        <4>1. Covered /\ Apart /\ Asked
          BY <1>1, <2>3, <2>4, <3>2, SoundPlan
        <4>2. Evaluation!CandidatePasses
          BY <1>1, <2>2, <4>1, CandidateTells DEF Asked
        <4> QED BY <2>1, <3>2, <4>2
      <3>3. CASE request.kind = "found"
        <4>1. Evaluation!Complete
          BY <2>4, <3>3 DEF Evaluation!Sound
        <4>2. Evaluation!CandidatePasses
          BY <1>1, <2>2, <4>1, CompleteTells
        <4> QED BY <2>1, <3>3, <4>2
      <3> QED BY <2>2, <3>1, <3>2, <3>3
    <2>5. outcome' \in {"accepted", "refused"}
      BY <2>1
    <2>6. outcome' = "accepted" /\ request.kind # "heldout" => Evaluation!CandidatePasses
      BY <2>1
    <2> QED BY <1>1, <2>1, <2>2, <2>4, <2>5, <2>6, NothingHidden DEF GridInv
  <1>6. CASE UNCHANGED Evaluation!vars
    <2>1. request' = request /\ episodes' = episodes /\ outcome' = outcome
      BY <1>6 DEF Evaluation!vars
    <2> QED BY <1>1, <2>1, NothingHidden DEF GridInv
  <1> QED BY <1>2, <1>3, <1>4, <1>5, <1>6 DEF Evaluation!Next

LEMMA GridFollows == ASSUME GridNumbers, GridInv PROVE Evaluation!GridFaithful
  <1>1. RequestOK /\ episodes \in Seq(GridCells) /\ (outcome = "refused" => ~ Evaluation!Sound)
    BY DEF GridInv
  <1>2. ASSUME outcome = "accepted" \/ (outcome = "stored" /\ request.kind \in {"inline", "heldout"})
        PROVE  Evaluation!Complete /\ Evaluation!WeighedAlike
    <2>1. Covered /\ Apart /\ Asked /\ Evaluation!Aggregates
      <3>1. CASE request.kind \in {"inline", "heldout"}
        <4>1. Evaluation!Aggregates /\ Evaluation!Validates(request)
          BY <1>2, <3>1 DEF GridInv
        <4> QED BY <1>1, <4>1, ValidatesTells
      <3>2. CASE request.kind \in {"candidate", "found"}
        <4>1. Evaluation!CandidatePasses
          BY <1>2, <3>2 DEF GridInv
        <4>2. Covered /\ Apart /\ \A i \in 1..Len(episodes) : episodes[i].seed \in Expected
          BY <1>1, <4>1, CandidateTells
        <4> QED BY <1>1, <4>2, CoveredAggregates DEF Asked
      <3> QED BY <1>1, <3>1, <3>2 DEF RequestOK
    <2> QED BY <1>1, <2>1, AggregatesWeigh, CoveredComplete DEF Asked
  <1> QED BY <1>1, <1>2 DEF Evaluation!GridFaithful

\* A grid that is stored after its own check, or accepted by the driver of phase 3,
\* has every cell once and weighs every episode alike, and none that was asked for
\* properly and is complete is refused; for any seeds, baselines and policies.
THEOREM GridsAreFaithful == GridNumbers => (Evaluation!Spec => []Evaluation!GridFaithful)
  <1> SUFFICES ASSUME GridNumbers PROVE Evaluation!Spec => []Evaluation!GridFaithful
    OBVIOUS
  <1>1. Evaluation!Init => GridInv
    BY GridInit
  <1>2. GridInv /\ [Evaluation!Next]_Evaluation!vars => GridInv'
    BY GridKeeps
  <1>3. GridInv => Evaluation!GridFaithful
    BY GridFollows
  <1> QED BY <1>1, <1>2, <1>3, PTL DEF Evaluation!Spec

-----------------------------------------------------------------------------
(* All of them together.                                                   *)

RecordInv ==
    /\ world = "log" => LogInv
    /\ world = "copilot" => CommandInv
    /\ world = "grid" => GridInv

THEOREM RecordInvariant == ServicesSpec => []RecordInv
  <1>1. ServicesInit => RecordInv
    <2> SUFFICES ASSUME ServicesInit PROVE RecordInv
      OBVIOUS
    <2>1. CASE InitLog
      BY <2>1, UsersAssumption, LogInit DEF InitLog, RecordInv
    <2>2. CASE InitCopilot
      BY <2>2, CommandInit DEF InitCopilot, RecordInv
    <2>3. CASE InitGrid
      BY <2>3, GridAssumption, GridInit DEF InitGrid, RecordInv
    <2>4. CASE InitMatrix \/ InitPhase \/ InitReaper \/ InitTask
      BY <2>4 DEF InitMatrix, InitPhase, InitReaper, InitTask, RecordInv
    <2> QED BY <2>1, <2>2, <2>3, <2>4 DEF ServicesInit
  <1>2. RecordInv /\ [ServicesNext]_allVars => RecordInv'
    <2> SUFFICES ASSUME RecordInv, [ServicesNext]_allVars PROVE RecordInv'
      OBVIOUS
    <2>1. /\ world' = world
          /\ world = "log" => [Log!Next]_(Log!vars)
          /\ world = "copilot" => [Copilot!Next]_(Copilot!vars)
          /\ world = "grid" => [Evaluation!Next]_(Evaluation!vars)
      <3>1. CASE LogStep \/ CopilotStep \/ GridStep
        BY <3>1 DEF LogStep, CopilotStep, GridStep
      <3>2. CASE InMatrix(Next) \/ InPhase(Phase!Next) \/ ReaperStep \/ TaskStep
        BY <3>2 DEF InMatrix, InPhase, ReaperStep, TaskStep
      <3>3. CASE UNCHANGED allVars
        BY <3>3 DEF allVars, logVars, copilotVars, gridVars, Log!vars, Copilot!vars, Evaluation!vars
      <3> QED BY <3>1, <3>2, <3>3 DEF ServicesNext
    <2>2. world = "log" => LogInv'
      BY <2>1, UsersAssumption, LogKeeps DEF RecordInv
    <2>3. world = "copilot" => CommandInv'
      BY <2>1, CommandStep DEF RecordInv
    <2>4. world = "grid" => GridInv'
      BY <2>1, GridAssumption, GridKeeps DEF RecordInv
    <2> QED BY <2>1, <2>2, <2>3, <2>4 DEF RecordInv
  <1>3. ServicesSpec => ServicesInit /\ [][ServicesNext]_allVars
    BY DEF ServicesSpec
  <1> QED BY <1>1, <1>2, <1>3, PTL

\* Whoever records something records what was done, in order and once: the log of a run,
\* its file and its followers, the files of a command, the episodes of an evaluation; but
\* for what a write that failed or a process that died has lost (lab_service.py, api.py,
\* copilot/runner.py, evaluation.py).
THEOREM RecordsAreFaithful == ServicesSpec => []RecordsFaithful
  <1>1. RecordInv => RecordsFaithful
    BY GridAssumption, LogFaithful, CommandKept, GridFollows DEF RecordInv, RecordsFaithful
  <1> QED BY <1>1, RecordInvariant, PTL
=============================================================================
