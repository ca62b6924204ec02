------------------------ MODULE ErrorReportingProofs ------------------------
(***************************************************************************)
(* Theorems about ErrorReporting for any number of requests, jobs and      *)
(* subscribers side by side, any retry limit and buffer, and any number of *)
(* faults.                                                                 *)
(***************************************************************************)
EXTENDS ErrorReporting, SequenceTheorems, FiniteSetTheorems,
        WellFoundedInduction, TLAPS

Names == {"executing", "failed", "dispatched", "subscriber", "completed", "request", "panic"}
Tags == {"command", "event", "job_kind"}
Line == [of : Activities, run : 0 .. MaxClaims, line : Names]
Hubs == Activities \cup {"process"}
Hub == [trail : SUBSET Line, trace : {"own", "frontend"}]

\* The parts of TypeOK, with the types of the histories and of the hubs.
WorkType ==
    /\ traced \subseteq Requests /\ claims \subseteq Requests /\ known \subseteq Jobs
    /\ pc \in [Activities -> Steps]
    /\ left \in [Requests -> SUBSET Subscribers]
    /\ answer \in [Requests -> {"none", "ok", "refused", "error", "aborted"}]
    /\ attempts \in [Activities -> 0 .. MaxClaims]
    /\ phase \in {"up", "draining", "flushing", "gone"}
    /\ ending \in {"none", "clean", "timeout", "killed"}
    /\ faults \in 0 .. MaxFaults
    /\ raised \in [Activities -> Nat] /\ unmarked \in [Jobs -> Nat]

ScopeType ==
    /\ hub \in [Hubs -> Hub] /\ hubOf \in [Activities -> Hubs]
    /\ said \in [Activities -> SUBSET Line]

SendType ==
    /\ reports \in Seq(Event)
    /\ buffer \cup delivered \cup dropped = DOMAIN reports
    /\ IsFiniteSet(buffer) /\ Cardinality(buffer) <= BufferSize
    /\ before \in 0 .. Len(reports)

\* Nothing is ever written to the process's hub.  An activity that has begun has
\* a hub of its own, with what it has logged in its present scope and no more,
\* and with the frontend's trace if it carries one.
ScopeInv ==
    /\ hub["process"] = Fresh
    /\ \A a \in Activities :
         \/ hubOf[a] = "process" /\ pc[a] \in {"new", "due"}
         \/ /\ hubOf[a] = a /\ hub[a].trail = said[a]
            /\ hub[a].trace = "frontend" <=> a \in traced

\* A panic that is not reported yet is on its way to a recovery; a failure that
\* has ended a job and is not lost is being written or has been.
CountInv ==
    /\ \A r \in Requests :
         raised[r] = Count(r) + (IF pc[r] \in {"unwinding", "recovering"} THEN 1 ELSE 0)
    /\ \A j \in Jobs :
         /\ Count(j) = raised[j]
         /\ Count(j) = unmarked[j] + (IF pc[j] \in {"marking", "failed"} THEN 1 ELSE 0)

\* A flush that ended well found the buffer empty, and was the last step.
FlushInv ==
    ending = "clean" => phase = "gone" /\ 1 .. before \subseteq delivered \cup dropped

\* The inductive invariant.
ReportInv == WorkType /\ ScopeType /\ SendType /\ ScopeInv /\ CountInv /\ FlushInv
---------------------------------------------------------------------------
(* What the helpers of the actions do. *)

\* One more report counts for the activity that it is of.
LEMMA CountAfter ==
  ASSUME reports \in Seq(Event), NEW e, reports' = Append(reports, e), NEW a
  PROVE  Count(a) \in Nat /\ Count(a)' = Count(a) + (IF e.of = a THEN 1 ELSE 0)
  <1> DEFINE OfA == {n \in DOMAIN reports : reports[n].of = a}
             last == Len(reports) + 1
  <1>1. DOMAIN reports = 1 .. Len(reports) /\ Len(reports) \in Nat
    OBVIOUS
  <1>2. IsFiniteSet(OfA)
    <2>1. IsFiniteSet(DOMAIN reports)
      BY <1>1, FS_Interval
    <2> QED
      BY <2>1, FS_Subset
  <1>3. /\ DOMAIN reports' = DOMAIN reports \cup {last}
        /\ reports'[last] = e /\ \A n \in DOMAIN reports : reports'[n] = reports[n]
    BY <1>1
  <1>4. OfA' = IF e.of = a THEN OfA \cup {last} ELSE OfA
    BY <1>3
  <1>5. last \notin OfA
    BY <1>1
  <1>6. Cardinality(OfA) \in Nat
    BY <1>2, FS_CardinalityType
  <1>7. Cardinality(OfA \cup {last}) = Cardinality(OfA) + 1
    BY <1>2, <1>5, FS_AddElement
  <1>8. Count(a) = Cardinality(OfA) /\ Count(a)' = Cardinality(OfA')
    BY DEF Count
  <1> HIDE DEF OfA, last
  <1> QED
    BY <1>4, <1>6, <1>7, <1>8

LEMMA CountType == ASSUME reports \in Seq(Event), NEW a PROVE Count(a) \in Nat
  <1>1. IsFiniteSet(DOMAIN reports)
    <2>1. DOMAIN reports = 1 .. Len(reports) /\ Len(reports) \in Nat
      OBVIOUS
    <2> QED
      BY <2>1, FS_Interval
  <1>2. IsFiniteSet({n \in DOMAIN reports : reports[n].of = a})
    BY <1>1, FS_Subset
  <1> QED
    BY <1>2, FS_CardinalityType DEF Count

\* Log lines are well formed, and go to the hub of the activity.
LEMMA LogKept ==
  ASSUME WorkType, ScopeType, ScopeInv, NEW a \in Activities, NEW names \in SUBSET Names,
         Log(a, names), pc[a] \notin {"new", "due"}, traced' = traced,
         \A b \in Activities \ {a} : pc'[b] = pc[b]
  PROVE  ScopeType' /\ ScopeInv'
  <1> USE ReportingAssumption
  <1>1. hubOf[a] = a /\ hub[a].trail = said[a] /\ a \in Hubs /\ a # "process"
    BY DEF ScopeInv, Hubs
  <1>2. Lines(a, names) \subseteq Line
    BY DEF Lines, Line, WorkType
  <1>3. /\ hubOf' = hubOf
        /\ hub' = [hub EXCEPT ![a].trail = hub[a].trail \cup Lines(a, names)]
        /\ said' = [said EXCEPT ![a] = @ \cup Lines(a, names)]
    BY <1>1 DEF Log, WithLines
  <1>4. hub[a] \in Hub /\ hub'[a] \in Hub /\ hub'[a].trail = hub[a].trail \cup Lines(a, names)
        /\ hub'[a].trace = hub[a].trace
    BY <1>1, <1>2, <1>3 DEF ScopeType, Hub
  <1>5. \A h \in Hubs \ {a} : hub'[h] = hub[h]
    BY <1>3 DEF ScopeType
  <1>6. hub' \in [Hubs -> Hub] /\ said' \in [Activities -> SUBSET Line]
    BY <1>1, <1>2, <1>3, <1>4, <1>5 DEF ScopeType
  <1>7. hub'["process"] = Fresh
    BY <1>1, <1>5 DEF ScopeInv, Hubs
  <1>8. ASSUME NEW b \in Activities
        PROVE  \/ hubOf'[b] = "process" /\ pc'[b] \in {"new", "due"}
               \/ /\ hubOf'[b] = b /\ hub'[b].trail = said'[b]
                  /\ hub'[b].trace = "frontend" <=> b \in traced'
    <2>1. CASE b = a
      <3>1. said'[a] = said[a] \cup Lines(a, names)
        BY <1>3 DEF ScopeType
      <3> QED
        BY <2>1, <3>1, <1>1, <1>3, <1>4 DEF ScopeInv
    <2>2. CASE b # a
      <3>1. hub'[b] = hub[b] /\ said'[b] = said[b] /\ pc'[b] = pc[b]
        BY <2>2, <1>3, <1>5 DEF Hubs, ScopeType
      <3> QED
        BY <3>1, <1>3 DEF ScopeInv
    <2> QED
      BY <2>1, <2>2
  <1> QED
    BY <1>3, <1>6, <1>7, <1>8 DEF ScopeType, ScopeInv

LEMMA ScopeSame ==
  ASSUME ScopeType, ScopeInv, UNCHANGED scope, traced' = traced,
         \A b \in Activities : pc[b] \in {"new", "due"} => pc'[b] \in {"new", "due"}
  PROVE  ScopeType' /\ ScopeInv'
  BY DEF ScopeType, ScopeInv, scope

\* A scope begins without a log line, and with the trace it is given.
LEMMA BeginKept ==
  ASSUME WorkType, ScopeType, ScopeInv, NEW a \in Activities, NEW trace \in {"own", "frontend"},
         BeginScope(a, trace), trace = "frontend" <=> a \in traced, traced' = traced,
         \A b \in Activities \ {a} : pc'[b] = pc[b]
  PROVE  ScopeType' /\ ScopeInv'
  <1> USE ReportingAssumption
  <1>1. a \in Hubs /\ a # "process"
    BY DEF Hubs
  <1>2. /\ hubOf' = [hubOf EXCEPT ![a] = a] /\ said' = [said EXCEPT ![a] = {}]
        /\ hub' = [hub EXCEPT ![a] = [Fresh EXCEPT !.trace = IF trace = "own" THEN @ ELSE trace]]
    BY DEF BeginScope, ScopeOf, ScopeInv
  <1>3. [Fresh EXCEPT !.trace = IF trace = "own" THEN @ ELSE trace]
          = [trail |-> {}, trace |-> trace]
    BY DEF Fresh
  <1>4. /\ hub'[a] = [trail |-> {}, trace |-> trace] /\ hub'[a] \in Hub
        /\ \A h \in Hubs \ {a} : hub'[h] = hub[h]
    BY <1>1, <1>2, <1>3 DEF ScopeType, Hub
  <1>5. ScopeType'
    BY <1>1, <1>2, <1>4 DEF ScopeType
  <1>6. hub'["process"] = Fresh
    BY <1>1, <1>4 DEF ScopeInv, Hubs
  <1>7. ASSUME NEW b \in Activities
        PROVE  \/ hubOf'[b] = "process" /\ pc'[b] \in {"new", "due"}
               \/ /\ hubOf'[b] = b /\ hub'[b].trail = said'[b]
                  /\ hub'[b].trace = "frontend" <=> b \in traced'
    <2>1. CASE b = a
      BY <2>1, <1>1, <1>2, <1>4 DEF ScopeType
    <2>2. CASE b # a
      <3>1. hub'[b] = hub[b] /\ said'[b] = said[b] /\ pc'[b] = pc[b] /\ hubOf'[b] = hubOf[b]
        BY <2>2, <1>2, <1>4 DEF Hubs, ScopeType
      <3> QED
        BY <3>1 DEF ScopeInv
    <2> QED
      BY <2>1, <2>2
  <1> QED
    BY <1>5, <1>6, <1>7 DEF ScopeInv

\* A report is a log line first; it is well formed, and in the buffer or dropped.
LEMMA ReportLogs ==
  ASSUME NEW a, NEW names, NEW tags, NEW user, NEW request, Report(a, names, tags, user, request)
  PROVE  Log(a, names)
  BY DEF Report, Log

LEMMA ReportKept ==
  ASSUME WorkType, ScopeType, SendType, NEW a \in Activities, NEW names \in SUBSET Names,
         NEW tags \in SUBSET Tags, NEW user \in {"claims", "address", "nobody"},
         NEW request \in BOOLEAN, Report(a, names, tags, user, request), before' = before
  PROVE  /\ SendType'
         /\ \E e : reports' = Append(reports, e) /\ e.of = a
  <1> USE ReportingAssumption
  <1> DEFINE e == [of |-> a, run |-> attempts[a], trail |-> WithLines(a, names),
                   tags |-> tags, user |-> user, request |-> request,
                   trace |-> hub[hubOf[a]].trace]
             n == Len(reports) + 1
  <1>1. /\ reports' = Append(reports, e) /\ delivered' = delivered
        /\ \/ HasRoom /\ buffer' = buffer \cup {n} /\ dropped' = dropped
           \/ dropped' = dropped \cup {n} /\ buffer' = buffer
    BY DEF Report
  <1>2. Lines(a, names) \subseteq Line
    BY DEF Lines, Line, WorkType
  <1>3. hub[hubOf[a]] \in Hub
    BY DEF ScopeType
  <1>4. WithLines(a, names) \in SUBSET Line /\ hub[hubOf[a]].trace \in {"own", "frontend"}
    BY <1>2, <1>3 DEF WithLines, Hub
  <1>5. e \in Event
    BY <1>4 DEF Event, WorkType, Tags, Line, Names
  <1>6. Len(reports) \in Nat /\ DOMAIN reports = 1 .. Len(reports)
    BY DEF SendType
  <1>7. /\ reports' \in Seq(Event) /\ Len(reports') = n
        /\ DOMAIN reports' = DOMAIN reports \cup {n}
    <2>1. reports \in Seq(Event)
      BY DEF SendType
    <2> HIDE DEF e
    <2> QED
      BY <2>1, <1>1, <1>5, <1>6
  <1>8. IsFiniteSet(buffer') /\ Cardinality(buffer') <= BufferSize
    <2>1. CASE buffer' = buffer
      BY <2>1 DEF SendType
    <2>2. CASE HasRoom /\ buffer' = buffer \cup {n}
      <3>1. n \notin buffer
        BY <1>6 DEF SendType
      <3>2. IsFiniteSet(buffer') /\ Cardinality(buffer') = Cardinality(buffer) + 1
        BY <2>2, <3>1, FS_AddElement DEF SendType
      <3>3. Cardinality(buffer) \in Nat
        BY FS_CardinalityType DEF SendType
      <3> QED
        BY <2>2, <3>2, <3>3 DEF HasRoom
    <2> QED
      BY <1>1, <2>1, <2>2
  <1>9. (buffer \cup delivered \cup dropped)' = DOMAIN reports'
    BY <1>1, <1>7 DEF SendType
  <1>10. before' \in 0 .. Len(reports')
    BY <1>6, <1>7 DEF SendType
  <1>11. SendType'
    BY <1>7, <1>8, <1>9, <1>10 DEF SendType
  <1> QED
    BY <1>1, <1>11

---------------------------------------------------------------------------
(* The inductive invariant. *)

LEMMA ReportStart == Init => ReportInv
  <1> USE ReportingAssumption
  <1> SUFFICES ASSUME Init PROVE ReportInv
    OBVIOUS
  <1>1. WorkType
    BY DEF Init, WorkType, Steps, Activities
  <1>2. ScopeType
    BY DEF Init, ScopeType, Hub, Fresh, Hubs
  <1>3. SendType
    BY FS_EmptySet DEF Init, SendType
  <1>4. ScopeInv
    BY DEF Init, ScopeInv, Activities
  <1>5. ASSUME NEW a PROVE Count(a) = 0
    <2>1. {n \in DOMAIN reports : reports[n].of = a} = {}
      BY DEF Init
    <2> QED
      BY <2>1, FS_EmptySet DEF Count
  <1>6. CountInv
    BY <1>5 DEF Init, CountInv, Activities
  <1>7. FlushInv
    BY DEF Init, FlushInv
  <1> QED
    BY <1>1, <1>2, <1>3, <1>4, <1>6, <1>7 DEF ReportInv

\* Activities, answers and the process stay well formed.
LEMMA WorkKept == WorkType /\ [Next]_vars => WorkType'
  <1> SUFFICES ASSUME WorkType, [Next]_vars PROVE WorkType'
    OBVIOUS
  <1> USE ReportingAssumption
       DEF WorkType, Goto, Answer, Same, Raise, Fault, Steps, Activities, process, work,
           Running, Flushes, AfterBusRecovery
  <1>1. ASSUME NEW r \in Requests, Arrive(r) PROVE WorkType'
    BY <1>1 DEF Arrive
  <1>2. ASSUME NEW r \in Requests, HttpStep(r) PROVE WorkType'
    <2>1. CASE TurnAway(r)
      BY <2>1 DEF TurnAway
    <2>2. CASE Refuse(r)
      BY <2>2 DEF Refuse
    <2>3. CASE Route(r)
      BY <2>3 DEF Route
    <2>4. CASE Reply(r)
      BY <2>4 DEF Reply
    <2>5. CASE ReplyResult(r)
      BY <2>5 DEF ReplyResult
    <2>6. CASE HttpRecovers(r)
      BY <2>6 DEF HttpRecovers
    <2> QED
      BY <1>2, <2>1, <2>2, <2>3, <2>4, <2>5, <2>6 DEF HttpStep
  <1>3. ASSUME NEW r \in Requests, BusStep(r) PROVE WorkType'
    <2>1. CASE Dispatch(r)
      BY <2>1 DEF Dispatch
    <2>2. CASE CommandFails(r)
      BY <2>2 DEF CommandFails
    <2>3. CASE CommandSucceeds(r)
      BY <2>3 DEF CommandSucceeds
    <2>4. CASE CommandCompletes(r)
      BY <2>4 DEF CommandCompletes
    <2>5. CASE BusRecovers(r)
      BY <2>5 DEF BusRecovers
    <2>6. CASE \E s \in Subscribers : Hear(r, s)
      <3>1. PICK s \in Subscribers : Hear(r, s)
        BY <2>6
      <3>2. left' \in [Requests -> SUBSET Subscribers]
        BY <3>1 DEF Hear
      <3>3. raised' \in [Activities -> Nat] /\ faults' \in 0 .. MaxFaults
        <4>1. (raised' = raised /\ faults' = faults) \/ (Fault /\ Raise(r))
          BY <3>1 DEF Hear
        <4> QED
          BY <4>1 DEF Activities
      <3> QED
        BY <3>1, <3>2, <3>3 DEF Hear
    <2> QED
      BY <1>3, <2>1, <2>2, <2>3, <2>4, <2>5, <2>6 DEF BusStep
  <1>4. ASSUME NEW r \in Requests, Panic(r) PROVE WorkType'
    BY <1>4 DEF Panic
  <1>5. ASSUME NEW r \in Requests, Abort(r) PROVE WorkType'
    BY <1>5 DEF Abort
  <1>6. ASSUME NEW j \in Jobs, JobStep(j) PROVE WorkType'
    <2>1. CASE Claim(j)
      BY <2>1 DEF Claim
    <2>2. CASE UnknownKind(j)
      BY <2>2 DEF UnknownKind
    <2>3. CASE Completes(j)
      BY <2>3 DEF Completes
    <2>4. CASE Fails(j)
      <3>1. raised' \in [Activities -> Nat]
        <4>1. raised' = raised \/ raised' = [raised EXCEPT ![j] = @ + 1]
          BY <2>4 DEF Fails
        <4> QED
          BY <4>1 DEF Activities
      <3>2. pc' \in [Activities -> Steps]
        BY <2>4 DEF Fails
      <3> QED
        BY <2>4, <3>1, <3>2 DEF Fails
    <2>5. CASE MarkFailed(j)
      BY <2>5 DEF MarkFailed
    <2>6. CASE MarkIsLost(j)
      BY <2>6 DEF MarkIsLost
    <2> QED
      BY <1>6, <2>1, <2>2, <2>3, <2>4, <2>5, <2>6 DEF JobStep
  <1>7. ASSUME Deliver PROVE WorkType'
    BY <1>7 DEF Deliver
  <1>8. ASSUME Stop PROVE WorkType'
    BY <1>8 DEF Stop
  <1>9. ASSUME RunReturns PROVE WorkType'
    BY <1>9 DEF RunReturns
  <1>10. ASSUME FlushEnds PROVE WorkType'
    BY <1>10 DEF FlushEnds
  <1>11. ASSUME Kill PROVE WorkType'
    BY <1>11 DEF Kill
  <1>12. ASSUME UNCHANGED vars PROVE WorkType'
    BY <1>12 DEF vars
  <1> QED
    BY <1>1, <1>2, <1>3, <1>4, <1>5, <1>6, <1>7, <1>8, <1>9, <1>10, <1>11, <1>12 DEF Next

\* Every log line goes to the hub of its own activity.
LEMMA ScopeKept == WorkType /\ ScopeType /\ ScopeInv /\ [Next]_vars => ScopeType'
    /\ ScopeInv'
  <1> SUFFICES ASSUME WorkType, ScopeType, ScopeInv, [Next]_vars
       PROVE ScopeType' /\ ScopeInv'
    OBVIOUS
  <1> USE DEF WorkType, Goto, Answer, Same, Fault, Quiet, process, work, scope
  <1>1. ASSUME NEW r \in Requests, Arrive(r) PROVE ScopeType' /\ ScopeInv'
    <2>1. BeginScope(r,
        IF r \in traced THEN "frontend" ELSE "own") /\ traced' = traced
            /\ \A b \in Activities \ {r} : pc'[b] = pc[b]
      BY <1>1 DEF Arrive
    <2> QED
      BY <2>1, BeginKept, ReportingAssumption DEF Activities, WorkType
  <1>2. ASSUME NEW r \in Requests, HttpStep(r) PROVE ScopeType' /\ ScopeInv'
    <2>1. CASE TurnAway(r)
      <3>1. UNCHANGED scope /\ traced' = traced
          /\ \A b \in Activities : pc[b] \in {"new", "due"} => pc'[b] \in {"new", "due"}
        BY <2>1 DEF TurnAway
      <3> QED
        BY <3>1, ScopeSame
    <2>2. CASE Refuse(r)
      <3>1. /\ Log(r, {"request"}) /\ pc[r] \notin {"new", "due"} /\ traced' = traced
            /\ \A b \in Activities \ {r} : pc'[b] = pc[b]
        BY <2>2 DEF Refuse
      <3> QED
        BY <3>1, LogKept DEF Names, Activities
    <2>3. CASE Route(r)
      <3>1. UNCHANGED scope /\ traced' = traced
          /\ \A b \in Activities : pc[b] \in {"new", "due"} => pc'[b] \in {"new", "due"}
        BY <2>3 DEF Route
      <3> QED
        BY <3>1, ScopeSame
    <2>4. CASE Reply(r)
      <3>1. /\ Log(r, {"request"}) /\ pc[r] \notin {"new", "due"} /\ traced' = traced
            /\ \A b \in Activities \ {r} : pc'[b] = pc[b]
        BY <2>4 DEF Reply
      <3> QED
        BY <3>1, LogKept DEF Names, Activities
    <2>5. CASE ReplyResult(r)
      <3>1. /\ Log(r, {"request"}) /\ pc[r] \notin {"new", "due"} /\ traced' = traced
            /\ \A b \in Activities \ {r} : pc'[b] = pc[b]
        BY <2>5 DEF ReplyResult
      <3> QED
        BY <3>1, LogKept DEF Names, Activities
    <2>6. CASE HttpRecovers(r)
      <3>1. Report(r, {"panic"}, {}, "address", TRUE) /\ pc[r] \notin {"new", "due"}
            /\ traced' = traced /\ \A b \in Activities \ {r} : pc'[b] = pc[b]
        BY <2>6 DEF HttpRecovers
      <3> QED
        BY <3>1, ReportLogs, LogKept DEF Names, Activities
    <2> QED
      BY <1>2, <2>1, <2>2, <2>3, <2>4, <2>5, <2>6 DEF HttpStep
  <1>3. ASSUME NEW r \in Requests, BusStep(r) PROVE ScopeType' /\ ScopeInv'
    <2>1. CASE Dispatch(r)
      <3>1. /\ Log(r, {"executing"}) /\ pc[r] \notin {"new", "due"} /\ traced' = traced
            /\ \A b \in Activities \ {r} : pc'[b] = pc[b]
        BY <2>1 DEF Dispatch
      <3> QED
        BY <3>1, LogKept DEF Names, Activities
    <2>2. CASE CommandFails(r)
      <3>1. /\ Log(r, {"failed"}) /\ pc[r] \notin {"new", "due"} /\ traced' = traced
            /\ \A b \in Activities \ {r} : pc'[b] = pc[b]
        BY <2>2 DEF CommandFails
      <3> QED
        BY <3>1, LogKept DEF Names, Activities
    <2>3. CASE CommandSucceeds(r)
      <3>1. /\ pc[r] = "bus" /\ traced' = traced
            /\ \A b \in Activities \ {r} : pc'[b] = pc[b]
            /\ Log(r, {"dispatched"}) \/ UNCHANGED scope
        BY <2>3 DEF CommandSucceeds
      <3>2. CASE Log(r, {"dispatched"})
        BY <3>1, <3>2, LogKept DEF Names, Activities
      <3>3. CASE UNCHANGED scope
        BY <3>1, <3>3, ScopeSame
      <3> QED
        BY <3>1, <3>2, <3>3
    <2>4. CASE CommandCompletes(r)
      <3>1. /\ Log(r, {"completed"}) /\ pc[r] \notin {"new", "due"} /\ traced' = traced
            /\ \A b \in Activities \ {r} : pc'[b] = pc[b]
        BY <2>4 DEF CommandCompletes
      <3> QED
        BY <3>1, LogKept DEF Names, Activities
    <2>5. CASE BusRecovers(r)
      <3>1. Report(r, {"panic"}, {"command"}, SentryUser(r),
          FALSE) /\ pc[r] \notin {"new", "due"}
            /\ traced' = traced /\ \A b \in Activities \ {r} : pc'[b] = pc[b]
        BY <2>5 DEF BusRecovers
      <3> QED
        BY <3>1, ReportLogs, LogKept DEF Names, Activities
    <2>6. CASE \E s \in Subscribers : Hear(r, s)
      <3>1. PICK s \in Subscribers : Hear(r, s)
        BY <2>6
      <3>2. pc[r] = "events" /\ pc' = pc /\ traced' = traced
        BY <3>1 DEF Hear
      <3>3. CASE Log(r, {"subscriber"})
        BY <3>2, <3>3, LogKept DEF Names, Activities
      <3>4. CASE Report(r, {"subscriber", "panic"}, {"event"}, SentryUser(r), FALSE)
        BY <3>2, <3>4, ReportLogs, LogKept DEF Names, Activities
      <3> QED
        BY <3>1, <3>3, <3>4 DEF Hear
    <2> QED
      BY <1>3, <2>1, <2>2, <2>3, <2>4, <2>5, <2>6 DEF BusStep
  <1>4. ASSUME NEW r \in Requests, Panic(r) PROVE ScopeType' /\ ScopeInv'
    <2>1. UNCHANGED scope /\ traced' = traced
        /\ \A b \in Activities : pc[b] \in {"new", "due"} => pc'[b] \in {"new", "due"}
      BY <1>4 DEF Panic
    <2> QED
      BY <2>1, ScopeSame
  <1>5. ASSUME NEW r \in Requests, Abort(r) PROVE ScopeType' /\ ScopeInv'
    <2>1. UNCHANGED scope /\ traced' = traced
        /\ \A b \in Activities : pc[b] \in {"new", "due"} => pc'[b] \in {"new", "due"}
      BY <1>5 DEF Abort
    <2> QED
      BY <2>1, ScopeSame
  <1>6. ASSUME NEW j \in Jobs, JobStep(j) PROVE ScopeType' /\ ScopeInv'
    <2>1. CASE Claim(j)
      <3>1. BeginScope(j,
          "own") /\ traced' = traced /\ \A b \in Activities \ {j} : pc'[b] = pc[b]
        BY <2>1 DEF Claim
      <3> QED
        BY <3>1, BeginKept, ReportingAssumption DEF Activities, WorkType
    <2>2. CASE UnknownKind(j)
      <3>1. Report(j, {}, {"job_kind"}, SentryUser(j), FALSE) /\ pc[j] \notin {"new", "due"}
            /\ traced' = traced /\ \A b \in Activities \ {j} : pc'[b] = pc[b]
        BY <2>2 DEF UnknownKind
      <3> QED
        BY <3>1, ReportLogs, LogKept DEF Names, Activities
    <2>3. CASE Completes(j)
      <3>1. UNCHANGED scope /\ traced' = traced
          /\ \A b \in Activities : pc[b] \in {"new", "due"} => pc'[b] \in {"new", "due"}
        BY <2>3 DEF Completes
      <3> QED
        BY <3>1, ScopeSame
    <2>4. CASE Fails(j)
      <3>1. PICK names \in {{}, {"panic"}} :
              \/ Report(j, names, {"job_kind"}, SentryUser(j), FALSE)
              \/ Log(j, names)
        BY <2>4 DEF Fails
      <3>2. /\ pc[j] = "claimed" /\ traced' = traced
            /\ \A b \in Activities \ {j} : pc'[b] = pc[b]
        BY <2>4 DEF Fails, Goto
      <3>3. Log(j, names) /\ names \in SUBSET Names
        BY <3>1, ReportLogs DEF Names
      <3> QED
        BY <3>2, <3>3, LogKept DEF Activities
    <2>5. CASE MarkFailed(j)
      <3>1. UNCHANGED scope /\ traced' = traced
          /\ \A b \in Activities : pc[b] \in {"new", "due"} => pc'[b] \in {"new", "due"}
        BY <2>5 DEF MarkFailed
      <3> QED
        BY <3>1, ScopeSame
    <2>6. CASE MarkIsLost(j)
      <3>1. UNCHANGED scope /\ traced' = traced
          /\ \A b \in Activities : pc[b] \in {"new", "due"} => pc'[b] \in {"new", "due"}
        BY <2>6 DEF MarkIsLost
      <3> QED
        BY <3>1, ScopeSame
    <2> QED
      BY <1>6, <2>1, <2>2, <2>3, <2>4, <2>5, <2>6 DEF JobStep
  <1>7. ASSUME Deliver PROVE ScopeType' /\ ScopeInv'
    <2>1. UNCHANGED scope /\ traced' = traced
        /\ \A b \in Activities : pc[b] \in {"new", "due"} => pc'[b] \in {"new", "due"}
      BY <1>7 DEF Deliver
    <2> QED
      BY <2>1, ScopeSame
  <1>8. ASSUME Stop PROVE ScopeType' /\ ScopeInv'
    <2>1. UNCHANGED scope /\ traced' = traced
        /\ \A b \in Activities : pc[b] \in {"new", "due"} => pc'[b] \in {"new", "due"}
      BY <1>8 DEF Stop
    <2> QED
      BY <2>1, ScopeSame
  <1>9. ASSUME RunReturns PROVE ScopeType' /\ ScopeInv'
    <2>1. UNCHANGED scope /\ traced' = traced
        /\ \A b \in Activities : pc[b] \in {"new", "due"} => pc'[b] \in {"new", "due"}
      BY <1>9 DEF RunReturns
    <2> QED
      BY <2>1, ScopeSame
  <1>10. ASSUME FlushEnds PROVE ScopeType' /\ ScopeInv'
    <2>1. UNCHANGED scope /\ traced' = traced
        /\ \A b \in Activities : pc[b] \in {"new", "due"} => pc'[b] \in {"new", "due"}
      BY <1>10 DEF FlushEnds
    <2> QED
      BY <2>1, ScopeSame
  <1>11. ASSUME Kill PROVE ScopeType' /\ ScopeInv'
    <2>1. UNCHANGED scope /\ traced' = traced
        /\ \A b \in Activities : pc[b] \in {"new", "due"} => pc'[b] \in {"new", "due"}
      BY <1>11 DEF Kill
    <2> QED
      BY <2>1, ScopeSame
  <1>12. ASSUME UNCHANGED vars PROVE ScopeType' /\ ScopeInv'
    <2>1. UNCHANGED scope /\ traced' = traced
        /\ \A b \in Activities : pc[b] \in {"new", "due"} => pc'[b] \in {"new", "due"}
      BY <1>12 DEF vars
    <2> QED
      BY <2>1, ScopeSame
  <1> QED
    BY <1>1, <1>2, <1>3, <1>4, <1>5, <1>6, <1>7, <1>8, <1>9, <1>10, <1>11, <1>12 DEF Next

LEMMA SendSame == SendType /\ Quiet /\ before' = before => SendType'
  BY DEF SendType, Quiet, sending

\* A set of numbers that is not empty has a first one.
LEMMA FirstNatural ==
  ASSUME NEW S \in SUBSET Nat, S # {}
  PROVE  \E n \in S : \A m \in S : n <= m
  <1> DEFINE Less == {p \in Nat \X Nat : p[1] < p[2]}
  <1>0. Less = OpToRel(<, Nat)
    BY DEF OpToRel
  <1>1. IsWellFoundedOn(Less, Nat)
    BY <1>0, NatLessThanWellFounded
  <1>2. PICK n \in S : \A m \in S : ~ (<<m, n>> \in Less)
    <2> HIDE DEF Less
    <2> QED 
      BY <1>1, WFMin
  <1>3. \A m \in S : n <= m
    <2> SUFFICES ASSUME NEW m \in S PROVE n <= m
      OBVIOUS
    <2>1. m < n => <<m, n>> \in Less
      <3>1. m < n => <<m, n>>[1] < <<m, n>>[2] /\ <<m, n>> \in Nat \X Nat
        OBVIOUS
      <3> QED
        BY <3>1
    <2>2. ~ (m < n)
      BY <1>2, <2>1
    <2> HIDE DEF Less
    <2> QED
      BY <2>2
  <1> QED
    BY <1>3

LEMMA FirstExists ==
  ASSUME NEW S \in SUBSET Nat, S # {}
  PROVE  (CHOOSE n \in S : \A m \in S : n <= m) \in S
  <1>1. \E n \in S : \A m \in S : n <= m
    BY FirstNatural
  <1> QED
    BY <1>1

\* A report is in the buffer until it is delivered, or was dropped when that was full.
LEMMA SendKept == WorkType /\ ScopeType /\ SendType /\ [Next]_vars => SendType'
  <1> SUFFICES ASSUME WorkType, ScopeType, SendType, [Next]_vars PROVE SendType'
    OBVIOUS
  <1> USE DEF WorkType, Same, Quiet, process
  <1>1. ASSUME NEW r \in Requests, Arrive(r) PROVE SendType'
    <2>1. Quiet /\ before' = before
      BY <1>1 DEF Arrive
    <2> QED
      BY <2>1, SendSame
  <1>2. ASSUME NEW r \in Requests, HttpStep(r) PROVE SendType'
    <2>1. CASE TurnAway(r)
      <3>1. Quiet /\ before' = before
        BY <2>1 DEF TurnAway
      <3> QED
        BY <3>1, SendSame
    <2>2. CASE Refuse(r)
      <3>1. Quiet /\ before' = before
        BY <2>2 DEF Refuse
      <3> QED
        BY <3>1, SendSame
    <2>3. CASE Route(r)
      <3>1. Quiet /\ before' = before
        BY <2>3 DEF Route
      <3> QED
        BY <3>1, SendSame
    <2>4. CASE Reply(r)
      <3>1. Quiet /\ before' = before
        BY <2>4 DEF Reply
      <3> QED
        BY <3>1, SendSame
    <2>5. CASE ReplyResult(r)
      <3>1. Quiet /\ before' = before
        BY <2>5 DEF ReplyResult
      <3> QED
        BY <3>1, SendSame
    <2>6. CASE HttpRecovers(r)
      <3>1. Report(r, {"panic"}, {}, "address", TRUE) /\ before' = before
        BY <2>6 DEF HttpRecovers
      <3> QED
        BY <3>1, ReportKept DEF SentryUser, Names, Tags, Activities
    <2> QED
      BY <1>2, <2>1, <2>2, <2>3, <2>4, <2>5, <2>6 DEF HttpStep
  <1>3. ASSUME NEW r \in Requests, BusStep(r) PROVE SendType'
    <2>1. CASE Dispatch(r)
      <3>1. Quiet /\ before' = before
        BY <2>1 DEF Dispatch
      <3> QED
        BY <3>1, SendSame
    <2>2. CASE CommandFails(r)
      <3>1. Quiet /\ before' = before
        BY <2>2 DEF CommandFails
      <3> QED
        BY <3>1, SendSame
    <2>3. CASE CommandSucceeds(r)
      <3>1. Quiet /\ before' = before
        BY <2>3 DEF CommandSucceeds
      <3> QED
        BY <3>1, SendSame
    <2>4. CASE CommandCompletes(r)
      <3>1. Quiet /\ before' = before
        BY <2>4 DEF CommandCompletes
      <3> QED
        BY <3>1, SendSame
    <2>5. CASE BusRecovers(r)
      <3>1. Report(r, {"panic"}, {"command"}, SentryUser(r), FALSE) /\ before' = before
        BY <2>5 DEF BusRecovers
      <3> QED
        BY <3>1, ReportKept DEF SentryUser, Names, Tags, Activities
    <2>6. CASE \E s \in Subscribers : Hear(r, s)
      <3>1. PICK s \in Subscribers : Hear(r, s)
        BY <2>6
      <3>2. before' = before
        BY <3>1 DEF Hear, process
      <3>3. CASE Quiet
        BY <3>2, <3>3, SendSame
      <3>4. CASE Report(r, {"subscriber", "panic"}, {"event"}, SentryUser(r), FALSE)
        BY <3>2, <3>4, ReportKept DEF SentryUser, Names, Tags, Activities
      <3> QED
        BY <3>1, <3>3, <3>4 DEF Hear
    <2> QED
      BY <1>3, <2>1, <2>2, <2>3, <2>4, <2>5, <2>6 DEF BusStep
  <1>4. ASSUME NEW r \in Requests, Panic(r) PROVE SendType'
    <2>1. Quiet /\ before' = before
      BY <1>4 DEF Panic
    <2> QED
      BY <2>1, SendSame
  <1>5. ASSUME NEW r \in Requests, Abort(r) PROVE SendType'
    <2>1. Quiet /\ before' = before
      BY <1>5 DEF Abort
    <2> QED
      BY <2>1, SendSame
  <1>6. ASSUME NEW j \in Jobs, JobStep(j) PROVE SendType'
    <2>1. CASE Claim(j)
      <3>1. Quiet /\ before' = before
        BY <2>1 DEF Claim
      <3> QED
        BY <3>1, SendSame
    <2>2. CASE UnknownKind(j)
      <3>1. Report(j, {}, {"job_kind"}, SentryUser(j), FALSE) /\ before' = before
        BY <2>2 DEF UnknownKind
      <3> QED
        BY <3>1, ReportKept DEF SentryUser, Names, Tags, Activities
    <2>3. CASE Completes(j)
      <3>1. Quiet /\ before' = before
        BY <2>3 DEF Completes
      <3> QED
        BY <3>1, SendSame
    <2>4. CASE Fails(j)
      <3>1. PICK names \in {{}, {"panic"}} :
              \/ Report(j, names, {"job_kind"}, SentryUser(j), FALSE)
              \/ Quiet
        BY <2>4 DEF Fails
      <3>2. before' = before
        BY <2>4 DEF Fails, process
      <3>3. CASE Quiet
        BY <3>2, <3>3, SendSame
      <3>4. CASE Report(j, names, {"job_kind"}, SentryUser(j), FALSE)
        BY <3>2, <3>4, ReportKept DEF SentryUser, Names, Tags, Activities
      <3> QED
        BY <3>1, <3>3, <3>4
    <2>5. CASE MarkFailed(j)
      <3>1. Quiet /\ before' = before
        BY <2>5 DEF MarkFailed
      <3> QED
        BY <3>1, SendSame
    <2>6. CASE MarkIsLost(j)
      <3>1. Quiet /\ before' = before
        BY <2>6 DEF MarkIsLost
      <3> QED
        BY <3>1, SendSame
    <2> QED
      BY <1>6, <2>1, <2>2, <2>3, <2>4, <2>5, <2>6 DEF JobStep
  <1>7. ASSUME Deliver PROVE SendType'
    <2>1. PICK n \in buffer : buffer' = buffer \ {n} /\ delivered' = delivered \cup {n}
      <3> DEFINE first == CHOOSE n \in buffer : \A m \in buffer : n <= m
      <3>1. buffer' = buffer \ {first} /\ delivered' = delivered \cup {first}
        BY <1>7 DEF Deliver
      <3>2. first \in buffer
        <4>1. buffer # {} /\ buffer \subseteq Nat
          BY <1>7 DEF Deliver, SendType
        <4> QED
          BY <4>1, FirstExists
      <3> QED
        BY <3>1, <3>2
    <2>2. IsFiniteSet(buffer') /\ Cardinality(buffer') <= Cardinality(buffer)
      BY <2>1, FS_Subset, FS_RemoveElement, FS_CardinalityType DEF SendType
    <2>3. Cardinality(buffer') \in Nat /\ Cardinality(buffer) \in Nat
      BY <2>2, FS_CardinalityType DEF SendType
    <2>4. (buffer \cup delivered \cup dropped)' = buffer \cup delivered \cup dropped
      BY <1>7, <2>1 DEF Deliver
    <2>5. reports' = reports /\ before' = before
      BY <1>7 DEF Deliver, process
    <2>6. Cardinality(buffer') <= BufferSize
      BY <2>2, <2>3, ReportingAssumption DEF SendType
    <2> QED
      BY <2>2, <2>4, <2>5, <2>6 DEF SendType
  <1>8. ASSUME Stop PROVE SendType'
    <2>1. Quiet /\ before' = before
      BY <1>8 DEF Stop
    <2> QED
      BY <2>1, SendSame
  <1>9. ASSUME RunReturns PROVE SendType'
    <2>1. before' = Len(reports) /\ Quiet
      BY <1>9 DEF RunReturns, Quiet
    <2>2. Len(reports) \in 0 .. Len(reports)
      BY DEF SendType
    <2> QED
      BY <2>1, <2>2 DEF SendType, Quiet, sending
  <1>10. ASSUME FlushEnds PROVE SendType'
    <2>1. Quiet /\ before' = before
      BY <1>10 DEF FlushEnds
    <2> QED
      BY <2>1, SendSame
  <1>11. ASSUME Kill PROVE SendType'
    <2>1. Quiet /\ before' = before
      BY <1>11 DEF Kill
    <2> QED
      BY <2>1, SendSame
  <1>12. ASSUME UNCHANGED vars PROVE SendType'
    <2>1. Quiet /\ before' = before
      BY <1>12 DEF vars
    <2> QED
      BY <2>1, SendSame
  <1> QED
    BY <1>1, <1>2, <1>3, <1>4, <1>5, <1>6, <1>7, <1>8, <1>9, <1>10, <1>11, <1>12 DEF Next

LEMMA ReportCounts ==
  ASSUME SendType, NEW a \in Activities, NEW names, NEW tags, NEW user, NEW request,
         Report(a, names, tags, user, request)
  PROVE  \A b \in Activities :
           Count(b) \in Nat /\ Count(b)' = Count(b) + (IF b = a THEN 1 ELSE 0)
  <1> DEFINE e == [of |-> a, run |-> attempts[a], trail |-> WithLines(a, names),
                   tags |-> tags, user |-> user, request |-> request,
                   trace |-> hub[hubOf[a]].trace]
  <1>1. reports' = Append(reports, e) /\ reports \in Seq(Event) /\ e.of = a
    BY DEF Report, SendType
  <1> HIDE DEF e
  <1> QED
    BY <1>1, CountAfter

\* A step that neither reports nor raises anything keeps the count of it.
LEMMA CountStays ==
  ASSUME SendType, CountInv, reports' = reports, raised' = raised, unmarked' = unmarked,
         \A r \in Requests : pc'[r] \in {"unwinding", "recovering"}
                               <=> pc[r] \in {"unwinding", "recovering"},
         \A j \in Jobs : pc'[j] \in {"marking", "failed"} <=> pc[j] \in {"marking", "failed"}
  PROVE  CountInv'
  <1>1. \A a : Count(a)' = Count(a)
    BY DEF Count
  <1> QED
    BY <1>1 DEF CountInv

\* Whatever is raised is reported, once.
LEMMA CountKept == WorkType /\ SendType /\ CountInv /\ [Next]_vars => CountInv'
  <1> SUFFICES ASSUME WorkType, SendType, CountInv, [Next]_vars PROVE CountInv'
    OBVIOUS
  <1> USE ReportingAssumption
       DEF Goto, Answer, Same, Fault, Quiet, Log, BeginScope, sending, process, work,
           scope, Activities
  <1>1. ASSUME NEW r \in Requests, Arrive(r) PROVE CountInv'
    <2>1. /\ reports' = reports /\ raised' = raised /\ unmarked' = unmarked
          /\ \A q \in Requests : pc'[q] \in {"unwinding", "recovering"}
                                  <=> pc[q] \in {"unwinding", "recovering"}
          /\ \A k \in Jobs : pc'[k] \in {"marking", "failed"}
                              <=> pc[k] \in {"marking", "failed"}
      BY <1>1 DEF Arrive, WorkType
    <2> QED
      BY <2>1, CountStays
  <1>2. ASSUME NEW r \in Requests, HttpStep(r) PROVE CountInv'
    <2>1. CASE TurnAway(r)
      <3>1. /\ reports' = reports /\ raised' = raised /\ unmarked' = unmarked
            /\ \A q \in Requests : pc'[q] \in {"unwinding", "recovering"}
                                    <=> pc[q] \in {"unwinding", "recovering"}
            /\ \A k \in Jobs : pc'[k] \in {"marking", "failed"}
                                <=> pc[k] \in {"marking", "failed"}
        BY <2>1 DEF TurnAway, WorkType
      <3> QED
        BY <3>1, CountStays
    <2>2. CASE Refuse(r)
      <3>1. /\ reports' = reports /\ raised' = raised /\ unmarked' = unmarked
            /\ \A q \in Requests : pc'[q] \in {"unwinding", "recovering"}
                                    <=> pc[q] \in {"unwinding", "recovering"}
            /\ \A k \in Jobs : pc'[k] \in {"marking", "failed"}
                                <=> pc[k] \in {"marking", "failed"}
        BY <2>2 DEF Refuse, WorkType
      <3> QED
        BY <3>1, CountStays
    <2>3. CASE Route(r)
      <3>1. /\ reports' = reports /\ raised' = raised /\ unmarked' = unmarked
            /\ \A q \in Requests : pc'[q] \in {"unwinding", "recovering"}
                                    <=> pc[q] \in {"unwinding", "recovering"}
            /\ \A k \in Jobs : pc'[k] \in {"marking", "failed"}
                                <=> pc[k] \in {"marking", "failed"}
        BY <2>3 DEF Route, WorkType
      <3> QED
        BY <3>1, CountStays
    <2>4. CASE Reply(r)
      <3>1. /\ reports' = reports /\ raised' = raised /\ unmarked' = unmarked
            /\ \A q \in Requests : pc'[q] \in {"unwinding", "recovering"}
                                    <=> pc[q] \in {"unwinding", "recovering"}
            /\ \A k \in Jobs : pc'[k] \in {"marking", "failed"}
                                <=> pc[k] \in {"marking", "failed"}
        BY <2>4 DEF Reply, WorkType
      <3> QED
        BY <3>1, CountStays
    <2>5. CASE ReplyResult(r)
      <3>1. /\ reports' = reports /\ raised' = raised /\ unmarked' = unmarked
            /\ \A q \in Requests : pc'[q] \in {"unwinding", "recovering"}
                                    <=> pc[q] \in {"unwinding", "recovering"}
            /\ \A k \in Jobs : pc'[k] \in {"marking", "failed"}
                                <=> pc[k] \in {"marking", "failed"}
        BY <2>5 DEF ReplyResult, WorkType
      <3> QED
        BY <3>1, CountStays
    <2>6. CASE HttpRecovers(r)
      <3>1. Report(r, {"panic"}, {}, "address", TRUE) /\ unmarked' = unmarked
        BY <2>6 DEF HttpRecovers
      <3>2. \A b \in Activities : Count(b) \in Nat
          /\ Count(b)' = Count(b) + (IF b = r THEN 1 ELSE 0)
        BY <3>1, ReportCounts DEF Activities
      <3>3. /\ raised' = raised /\ pc[r] \in {"unwinding", "recovering"}
            /\ \A b \in Activities : pc'[b] = IF b = r THEN "answered" ELSE pc[b]
        BY <2>6 DEF HttpRecovers, AfterBusRecovery, WorkType
      <3> QED
        BY <3>1, <3>2, <3>3 DEF CountInv, Activities, WorkType
    <2> QED
      BY <1>2, <2>1, <2>2, <2>3, <2>4, <2>5, <2>6 DEF HttpStep
  <1>3. ASSUME NEW r \in Requests, BusStep(r) PROVE CountInv'
    <2>1. CASE Dispatch(r)
      <3>1. /\ reports' = reports /\ raised' = raised /\ unmarked' = unmarked
            /\ \A q \in Requests : pc'[q] \in {"unwinding", "recovering"}
                                    <=> pc[q] \in {"unwinding", "recovering"}
            /\ \A k \in Jobs : pc'[k] \in {"marking", "failed"}
                                <=> pc[k] \in {"marking", "failed"}
        BY <2>1 DEF Dispatch, WorkType
      <3> QED
        BY <3>1, CountStays
    <2>2. CASE CommandFails(r)
      <3>1. /\ reports' = reports /\ raised' = raised /\ unmarked' = unmarked
            /\ \A q \in Requests : pc'[q] \in {"unwinding", "recovering"}
                                    <=> pc[q] \in {"unwinding", "recovering"}
            /\ \A k \in Jobs : pc'[k] \in {"marking", "failed"}
                                <=> pc[k] \in {"marking", "failed"}
        BY <2>2 DEF CommandFails, WorkType
      <3> QED
        BY <3>1, CountStays
    <2>3. CASE CommandSucceeds(r)
      <3>1. /\ reports' = reports /\ raised' = raised /\ unmarked' = unmarked
            /\ \A q \in Requests : pc'[q] \in {"unwinding", "recovering"}
                                    <=> pc[q] \in {"unwinding", "recovering"}
            /\ \A k \in Jobs : pc'[k] \in {"marking", "failed"}
                                <=> pc[k] \in {"marking", "failed"}
        BY <2>3 DEF CommandSucceeds, WorkType
      <3> QED
        BY <3>1, CountStays
    <2>4. CASE CommandCompletes(r)
      <3>1. /\ reports' = reports /\ raised' = raised /\ unmarked' = unmarked
            /\ \A q \in Requests : pc'[q] \in {"unwinding", "recovering"}
                                    <=> pc[q] \in {"unwinding", "recovering"}
            /\ \A k \in Jobs : pc'[k] \in {"marking", "failed"}
                                <=> pc[k] \in {"marking", "failed"}
        BY <2>4 DEF CommandCompletes, WorkType
      <3> QED
        BY <3>1, CountStays
    <2>5. CASE BusRecovers(r)
      <3>1. Report(r, {"panic"}, {"command"}, SentryUser(r), FALSE) /\ unmarked' = unmarked
        BY <2>5 DEF BusRecovers
      <3>2. \A b \in Activities : Count(b) \in Nat
          /\ Count(b)' = Count(b) + (IF b = r THEN 1 ELSE 0)
        BY <3>1, ReportCounts DEF Activities
      <3>3. /\ raised' = raised /\ pc[r] \in {"unwinding", "recovering"}
            /\ \A b \in Activities : pc'[b] = IF b = r THEN "reply" ELSE pc[b]
        BY <2>5 DEF BusRecovers, AfterBusRecovery, WorkType
      <3> QED
        BY <3>1, <3>2, <3>3 DEF CountInv, Activities, WorkType
    <2>6. CASE \E s \in Subscribers : Hear(r, s)
      <3>1. PICK s \in Subscribers : Hear(r, s)
        BY <2>6
      <3>2. pc' = pc /\ unmarked' = unmarked /\ pc[r] = "events"
        BY <3>1 DEF Hear
      <3>3. CASE Quiet /\ raised' = raised
        BY <3>2, <3>3, CountStays DEF Quiet, sending
      <3>4. CASE Raise(r) /\ Report(r, {"subscriber", "panic"}, {"event"}, SentryUser(r),
          FALSE)
        <4>1. \A b \in Activities : Count(b) \in Nat
            /\ Count(b)' = Count(b) + (IF b = r THEN 1 ELSE 0)
          BY <3>4, ReportCounts DEF Activities
        <4>2. \A b \in Activities : raised'[b] = raised[b] + (IF b = r THEN 1 ELSE 0)
          BY <3>4 DEF Raise, WorkType
        <4> QED
          BY <3>2, <4>1, <4>2 DEF CountInv, Activities, WorkType
      <3> QED
        BY <3>1, <3>3, <3>4 DEF Hear
    <2> QED
      BY <1>3, <2>1, <2>2, <2>3, <2>4, <2>5, <2>6 DEF BusStep
  <1>4. ASSUME NEW r \in Requests, Panic(r) PROVE CountInv'
    <2>1. reports' = reports /\ unmarked' = unmarked /\ pc[r] \notin {"unwinding",
        "recovering"}
      BY <1>4 DEF Panic
    <2>2. \A b \in Activities : Count(b) \in Nat /\ Count(b)' = Count(b)
      BY <2>1, CountType DEF Count, SendType
    <2>3. raised'[r] = raised[r] + 1 /\ pc'[r] \in {"unwinding", "recovering"}
      BY <1>4 DEF Panic, Raise, WorkType
    <2>4. \A b \in Activities \ {r} : raised'[b] = raised[b] /\ pc'[b] = pc[b]
      BY <1>4 DEF Panic, Raise, WorkType
    <2>5. ASSUME NEW q \in Requests
          PROVE  raised'[q] = Count(q)' + (IF pc'[q] \in {"unwinding",
              "recovering"} THEN 1 ELSE 0)
      <3>1. CASE q = r
        BY <3>1, <2>1, <2>2, <2>3 DEF CountInv
      <3>2. CASE q # r
        BY <3>2, <2>2, <2>4 DEF CountInv
      <3> QED
        BY <3>1, <3>2
    <2>6. ASSUME NEW k \in Jobs
          PROVE  /\ Count(k)' = raised'[k]
                 /\ Count(k)' = unmarked'[k] + (IF pc'[k] \in {"marking",
                     "failed"} THEN 1 ELSE 0)
      BY <2>1, <2>2, <2>4 DEF CountInv
    <2> QED
      BY <2>5, <2>6 DEF CountInv
  <1>5. ASSUME NEW r \in Requests, Abort(r) PROVE CountInv'
    <2>1. /\ reports' = reports /\ raised' = raised /\ unmarked' = unmarked
          /\ \A q \in Requests : pc'[q] \in {"unwinding", "recovering"}
                                  <=> pc[q] \in {"unwinding", "recovering"}
          /\ \A k \in Jobs : pc'[k] \in {"marking", "failed"}
                              <=> pc[k] \in {"marking", "failed"}
      BY <1>5 DEF Abort, WorkType
    <2> QED
      BY <2>1, CountStays
  <1>6. ASSUME NEW j \in Jobs, JobStep(j) PROVE CountInv'
    <2>1. CASE Claim(j)
      <3>1. /\ reports' = reports /\ raised' = raised /\ unmarked' = unmarked
            /\ \A q \in Requests : pc'[q] \in {"unwinding", "recovering"}
                                    <=> pc[q] \in {"unwinding", "recovering"}
            /\ \A k \in Jobs : pc'[k] \in {"marking", "failed"}
                                <=> pc[k] \in {"marking", "failed"}
        BY <2>1 DEF Claim, WorkType
      <3> QED
        BY <3>1, CountStays
    <2>2. CASE UnknownKind(j)
      <3>1. Report(j, {}, {"job_kind"}, SentryUser(j), FALSE) /\ unmarked' = unmarked
        BY <2>2 DEF UnknownKind
      <3>2. \A b \in Activities : Count(b) \in Nat
          /\ Count(b)' = Count(b) + (IF b = j THEN 1 ELSE 0)
        BY <3>1, ReportCounts DEF Activities
      <3>3. /\ pc[j] = "claimed"
            /\ \A b \in Activities : /\ raised'[b] = raised[b] + (IF b = j THEN 1 ELSE 0)
                                    /\ pc'[b] = IF b = j THEN "marking" ELSE pc[b]
        BY <2>2 DEF UnknownKind, WorkType, Raise
      <3> QED
        BY <3>1, <3>2, <3>3 DEF CountInv, Activities, WorkType
    <2>3. CASE Completes(j)
      <3>1. /\ reports' = reports /\ raised' = raised /\ unmarked' = unmarked
            /\ \A q \in Requests : pc'[q] \in {"unwinding", "recovering"}
                                    <=> pc[q] \in {"unwinding", "recovering"}
            /\ \A k \in Jobs : pc'[k] \in {"marking", "failed"}
                                <=> pc[k] \in {"marking", "failed"}
        BY <2>3 DEF Completes, WorkType
      <3> QED
        BY <3>1, CountStays
    <2>4. CASE Fails(j)
      <3>1. PICK names \in {{}, {"panic"}} :
              \/ /\ IsLast(j) /\ Report(j, names, {"job_kind"}, SentryUser(j), FALSE)
                 /\ raised' = [raised EXCEPT ![j] = @ + 1] /\ Goto(j, "marking")
              \/ Quiet /\ raised' = raised /\ Goto(j, "due")
        BY <2>4 DEF Fails, IsLast
      <3>2. pc[j] = "claimed" /\ unmarked' = unmarked
        BY <2>4 DEF Fails
      <3>3. CASE Quiet /\ raised' = raised /\ Goto(j, "due")
        BY <3>2, <3>3, CountStays DEF Quiet, sending, Goto, WorkType, Activities
      <3>4. CASE /\ Report(j, names, {"job_kind"}, SentryUser(j), FALSE)
                 /\ raised' = [raised EXCEPT ![j] = @ + 1] /\ Goto(j, "marking")
        <4>1. \A b \in Activities : Count(b) \in Nat
            /\ Count(b)' = Count(b) + (IF b = j THEN 1 ELSE 0)
          BY <3>4, ReportCounts DEF Activities
        <4>2. \A b \in Activities : /\ raised'[b] = raised[b] + (IF b = j THEN 1 ELSE 0)
                                   /\ pc'[b] = IF b = j THEN "marking" ELSE pc[b]
          BY <3>4 DEF Goto, WorkType
        <4> QED
          BY <3>2, <4>1, <4>2 DEF CountInv, Activities, WorkType
      <3> QED
        BY <3>1, <3>3, <3>4
    <2>5. CASE MarkFailed(j)
      <3>1. /\ reports' = reports /\ raised' = raised /\ unmarked' = unmarked
            /\ \A q \in Requests : pc'[q] \in {"unwinding", "recovering"}
                                    <=> pc[q] \in {"unwinding", "recovering"}
            /\ \A k \in Jobs : pc'[k] \in {"marking", "failed"}
                                <=> pc[k] \in {"marking", "failed"}
        BY <2>5 DEF MarkFailed, WorkType
      <3> QED
        BY <3>1, CountStays
    <2>6. CASE MarkIsLost(j)
      <3>1. reports' = reports
        BY <2>6 DEF MarkIsLost
      <3>2. \A b \in Activities : Count(b) \in Nat /\ Count(b)' = Count(b)
        BY <3>1, CountType DEF Count, SendType
      <3>3. /\ raised' = raised /\ pc[j] = "marking"
            /\ \A k \in Jobs : unmarked'[k] = unmarked[k] + (IF k = j THEN 1 ELSE 0)
            /\ \A b \in Activities : pc'[b] = IF b = j THEN "due" ELSE pc[b]
        BY <2>6 DEF MarkIsLost, WorkType
      <3>4. ASSUME NEW q \in Requests
            PROVE  raised'[q] = Count(q)' + (IF pc'[q] \in {"unwinding",
                "recovering"} THEN 1 ELSE 0)
        BY <3>2, <3>3 DEF CountInv, Activities, WorkType
      <3>5. ASSUME NEW k \in Jobs
            PROVE  /\ Count(k)' = raised'[k]
                   /\ Count(k)' = unmarked'[k] + (IF pc'[k] \in {"marking",
                       "failed"} THEN 1 ELSE 0)
        BY <3>2, <3>3 DEF CountInv, Activities, WorkType
      <3> QED
        BY <3>4, <3>5 DEF CountInv
    <2> QED
      BY <1>6, <2>1, <2>2, <2>3, <2>4, <2>5, <2>6 DEF JobStep
  <1>7. ASSUME Deliver PROVE CountInv'
    <2>1. /\ reports' = reports /\ raised' = raised /\ unmarked' = unmarked
          /\ \A q \in Requests : pc'[q] \in {"unwinding", "recovering"}
                                  <=> pc[q] \in {"unwinding", "recovering"}
          /\ \A k \in Jobs : pc'[k] \in {"marking", "failed"}
                              <=> pc[k] \in {"marking", "failed"}
      BY <1>7 DEF Deliver, WorkType
    <2> QED
      BY <2>1, CountStays
  <1>8. ASSUME Stop PROVE CountInv'
    <2>1. /\ reports' = reports /\ raised' = raised /\ unmarked' = unmarked
          /\ \A q \in Requests : pc'[q] \in {"unwinding", "recovering"}
                                  <=> pc[q] \in {"unwinding", "recovering"}
          /\ \A k \in Jobs : pc'[k] \in {"marking", "failed"}
                              <=> pc[k] \in {"marking", "failed"}
      BY <1>8 DEF Stop, WorkType
    <2> QED
      BY <2>1, CountStays
  <1>9. ASSUME RunReturns PROVE CountInv'
    <2>1. /\ reports' = reports /\ raised' = raised /\ unmarked' = unmarked
          /\ \A q \in Requests : pc'[q] \in {"unwinding", "recovering"}
                                  <=> pc[q] \in {"unwinding", "recovering"}
          /\ \A k \in Jobs : pc'[k] \in {"marking", "failed"}
                              <=> pc[k] \in {"marking", "failed"}
      BY <1>9 DEF RunReturns, WorkType
    <2> QED
      BY <2>1, CountStays
  <1>10. ASSUME FlushEnds PROVE CountInv'
    <2>1. /\ reports' = reports /\ raised' = raised /\ unmarked' = unmarked
          /\ \A q \in Requests : pc'[q] \in {"unwinding", "recovering"}
                                  <=> pc[q] \in {"unwinding", "recovering"}
          /\ \A k \in Jobs : pc'[k] \in {"marking", "failed"}
                              <=> pc[k] \in {"marking", "failed"}
      BY <1>10 DEF FlushEnds, WorkType
    <2> QED
      BY <2>1, CountStays
  <1>11. ASSUME Kill PROVE CountInv'
    <2>1. /\ reports' = reports /\ raised' = raised /\ unmarked' = unmarked
          /\ \A q \in Requests : pc'[q] \in {"unwinding", "recovering"}
                                  <=> pc[q] \in {"unwinding", "recovering"}
          /\ \A k \in Jobs : pc'[k] \in {"marking", "failed"}
                              <=> pc[k] \in {"marking", "failed"}
      BY <1>11 DEF Kill, WorkType
    <2> QED
      BY <2>1, CountStays
  <1>12. ASSUME UNCHANGED vars PROVE CountInv'
    <2>1. /\ reports' = reports /\ raised' = raised /\ unmarked' = unmarked
          /\ \A q \in Requests : pc'[q] \in {"unwinding", "recovering"}
                                  <=> pc[q] \in {"unwinding", "recovering"}
          /\ \A k \in Jobs : pc'[k] \in {"marking", "failed"}
                              <=> pc[k] \in {"marking", "failed"}
      BY <1>12 DEF vars, WorkType
    <2> QED
      BY <2>1, CountStays
  <1> QED
    BY <1>1, <1>2, <1>3, <1>4, <1>5, <1>6, <1>7, <1>8, <1>9, <1>10, <1>11, <1>12 DEF Next

\* Once the process is gone, nothing happens.
LEMMA FlushKept == SendType /\ FlushInv /\ [Next]_vars => FlushInv'
  <1> SUFFICES ASSUME SendType, FlushInv, [Next]_vars PROVE FlushInv'
    OBVIOUS
  <1> USE DEF Running, FlushInv, Report, Goto, Answer, Same, Fault, Quiet, sending,
      process, Flushes
  <1>1. ASSUME NEW r \in Requests, Arrive(r) PROVE FlushInv'
    BY <1>1 DEF Arrive
  <1>2. ASSUME NEW r \in Requests, HttpStep(r) PROVE FlushInv'
    <2>1. CASE TurnAway(r)
      BY <2>1 DEF TurnAway
    <2>2. CASE Refuse(r)
      BY <2>2 DEF Refuse
    <2>3. CASE Route(r)
      BY <2>3 DEF Route
    <2>4. CASE Reply(r)
      BY <2>4 DEF Reply
    <2>5. CASE ReplyResult(r)
      BY <2>5 DEF ReplyResult
    <2>6. CASE HttpRecovers(r)
      BY <2>6 DEF HttpRecovers
    <2> QED
      BY <1>2, <2>1, <2>2, <2>3, <2>4, <2>5, <2>6 DEF HttpStep
  <1>3. ASSUME NEW r \in Requests, BusStep(r) PROVE FlushInv'
    <2>1. CASE Dispatch(r)
      BY <2>1 DEF Dispatch
    <2>2. CASE CommandFails(r)
      BY <2>2 DEF CommandFails
    <2>3. CASE CommandSucceeds(r)
      BY <2>3 DEF CommandSucceeds
    <2>4. CASE CommandCompletes(r)
      BY <2>4 DEF CommandCompletes
    <2>5. CASE BusRecovers(r)
      BY <2>5 DEF BusRecovers
    <2>6. CASE \E s \in Subscribers : Hear(r, s)
      BY <2>6 DEF Hear
    <2> QED
      BY <1>3, <2>1, <2>2, <2>3, <2>4, <2>5, <2>6 DEF BusStep
  <1>4. ASSUME NEW r \in Requests, Panic(r) PROVE FlushInv'
    BY <1>4 DEF Panic
  <1>5. ASSUME NEW r \in Requests, Abort(r) PROVE FlushInv'
    BY <1>5 DEF Abort
  <1>6. ASSUME NEW j \in Jobs, JobStep(j) PROVE FlushInv'
    <2>1. CASE Claim(j)
      BY <2>1 DEF Claim
    <2>2. CASE UnknownKind(j)
      BY <2>2 DEF UnknownKind
    <2>3. CASE Completes(j)
      BY <2>3 DEF Completes
    <2>4. CASE Fails(j)
      BY <2>4 DEF Fails
    <2>5. CASE MarkFailed(j)
      BY <2>5 DEF MarkFailed
    <2>6. CASE MarkIsLost(j)
      BY <2>6 DEF MarkIsLost
    <2> QED
      BY <1>6, <2>1, <2>2, <2>3, <2>4, <2>5, <2>6 DEF JobStep
  <1>7. ASSUME Deliver PROVE FlushInv'
    BY <1>7 DEF Deliver
  <1>8. ASSUME Stop PROVE FlushInv'
    BY <1>8 DEF Stop
  <1>9. ASSUME RunReturns PROVE FlushInv'
    BY <1>9 DEF RunReturns
  <1>10. ASSUME FlushEnds PROVE FlushInv'
    <2>1. reports' = reports /\ delivered' = delivered /\ dropped' = dropped
        /\ before' = before
      BY <1>10 DEF FlushEnds
    <2>2. CASE buffer = {}
      BY <1>10, <2>1, <2>2 DEF FlushEnds, SendType
    <2>3. CASE buffer # {}
      BY <1>10, <2>3 DEF FlushEnds
    <2> QED
      BY <2>2, <2>3
  <1>11. ASSUME Kill PROVE FlushInv'
    BY <1>11 DEF Kill
  <1>12. ASSUME UNCHANGED vars PROVE FlushInv'
    BY <1>12 DEF vars
  <1> QED
    BY <1>1, <1>2, <1>3, <1>4, <1>5, <1>6, <1>7, <1>8, <1>9, <1>10, <1>11, <1>12 DEF Next

---------------------------------------------------------------------------
LEMMA InvariantHolds == Spec => []ReportInv
  <1>1. ReportInv /\ [Next]_vars => ReportInv'
    BY WorkKept, ScopeKept, SendKept, CountKept, FlushKept DEF ReportInv
  <1> QED
    BY ReportStart, <1>1, PTL DEF Spec

\* The activities and the hubs are well formed, and every report is delivered, dropped
\* or in the buffer, which never holds more than it can.
THEOREM TypeCorrect == Spec => []TypeOK
  <1>1. ReportInv => TypeOK
    BY DEF ReportInv, WorkType, ScopeType, SendType, TypeOK, Hubs
  <1> QED
    BY InvariantHolds, <1>1, PTL

\* A panic is reported once when its request is answered, by the recovery that it
\* passes first, and a job's failure once for every time that it was final; no
\* other error reaches the tracker (RecoveryMiddleware, recoveryMiddleware,
\* handleFailure).
THEOREM EachFailureIsReportedOnce == Spec => []OneReport
  <1>1. ReportInv => OneReport
    <2> SUFFICES ASSUME ReportInv PROVE OneReport
      OBVIOUS
    <2>1. \A a : Count(a) \in Nat
      BY CountType DEF ReportInv, SendType
    <2>2. ASSUME NEW r \in Requests, pc[r] = "answered" PROVE Count(r) = raised[r]
      BY <2>1, <2>2 DEF ReportInv, CountInv
    <2> QED
      BY <2>2 DEF ReportInv, CountInv, OneReport
  <1> QED
    BY InvariantHolds, <1>1, PTL

\* What was captured before the process went down in order has left the buffer.
THEOREM FlushDelivers == Spec => []Delivered
  <1>1. ReportInv => Delivered
    BY DEF ReportInv, FlushInv, Delivered
  <1> QED
    BY InvariantHolds, <1>1, PTL

---------------------------------------------------------------------------
\* What a step adds to the reports is true.
NewReportsAreTrue == \A n \in DOMAIN reports' \ DOMAIN reports : TrueToOrigin(reports'[n])

LEMMA ReportIsTrue ==
  ASSUME ReportInv, NEW a \in Activities, NEW names, NEW tags, NEW user, NEW request \in BOOLEAN,
         Report(a, names, tags, user, request), pc[a] \notin {"new", "due"},
         Cardinality(tags) = (IF request THEN 0 ELSE 1),
         user = "claims" => a \in claims,
         tags = {"command"} /\ a \in claims => user = "claims"
  PROVE  NewReportsAreTrue
  <1> DEFINE e == [of |-> a, run |-> attempts[a], trail |-> WithLines(a, names),
                   tags |-> tags, user |-> user, request |-> request,
                   trace |-> hub[hubOf[a]].trace]
             last == Len(reports) + 1
  <1>1. hubOf[a] = a /\ hub[a].trail = said[a] /\ (hub[a].trace = "frontend" <=> a \in traced)
    BY DEF ReportInv, ScopeInv
  <1>2. reports' = Append(reports, e) /\ said' = [said EXCEPT ![a] = @ \cup Lines(a, names)]
    BY DEF Report
  <1>3. e.trail = said'[a]
    BY <1>1, <1>2 DEF ReportInv, ScopeType, WithLines
  <1>4. TrueToOrigin(e)
    BY <1>1, <1>3 DEF TrueToOrigin
  <1>5. reports \in Seq(Event)
    BY DEF ReportInv, SendType
  <1> HIDE DEF e
  <1>6. \A n \in DOMAIN reports' \ DOMAIN reports : reports'[n] = e
    BY <1>2, <1>5
  <1> QED
    BY <1>4, <1>6 DEF NewReportsAreTrue

\* Each report has one tag at most, and only that of a command the tag "command".
LEMMA TagsCount ==
  /\ Cardinality({}) = 0 /\ \A tag : Cardinality({tag}) = 1
  /\ {} # {"command"} /\ {"event"} # {"command"} /\ {"job_kind"} # {"command"}
  BY FS_EmptySet, FS_Singleton

\* A request's user is named by its claims, a job has none.
LEMMA UserIs ==
  /\ \A r \in Requests : SentryUser(r) = IF r \in claims THEN "claims" ELSE "address"
  /\ \A j \in Jobs : SentryUser(j) = "nobody"
  BY ReportingAssumption DEF SentryUser

\* A step that is no report adds none.
LEMMA NothingNew == reports' = reports => NewReportsAreTrue
  BY DEF NewReportsAreTrue

\* Whoever reports, reports from its own hub.
LEMMA NewIsTrue == ReportInv /\ [Next]_vars => NewReportsAreTrue
  <1> SUFFICES ASSUME ReportInv, [Next]_vars PROVE NewReportsAreTrue
    OBVIOUS
  <1> USE ReportingAssumption DEF Quiet, sending
  <1>1. ASSUME NEW r \in Requests, Arrive(r) PROVE NewReportsAreTrue
    BY <1>1, NothingNew DEF Arrive
  <1>2. ASSUME NEW r \in Requests, HttpStep(r) PROVE NewReportsAreTrue
    <2>1. CASE TurnAway(r)
      BY <2>1, NothingNew DEF TurnAway
    <2>2. CASE Refuse(r)
      BY <2>2, NothingNew DEF Refuse
    <2>3. CASE Route(r)
      BY <2>3, NothingNew DEF Route
    <2>4. CASE Reply(r)
      BY <2>4, NothingNew DEF Reply
    <2>5. CASE ReplyResult(r)
      BY <2>5, NothingNew DEF ReplyResult
    <2>6. CASE HttpRecovers(r)
      <3>1. Report(r, {"panic"}, {}, "address", TRUE) /\ pc[r] \notin {"new", "due"}
        BY <2>6 DEF HttpRecovers
      <3> QED
        BY <3>1, ReportIsTrue, TagsCount, UserIs DEF Activities
    <2> QED
      BY <1>2, <2>1, <2>2, <2>3, <2>4, <2>5, <2>6 DEF HttpStep
  <1>3. ASSUME NEW r \in Requests, BusStep(r) PROVE NewReportsAreTrue
    <2>1. CASE Dispatch(r)
      BY <2>1, NothingNew DEF Dispatch
    <2>2. CASE CommandFails(r)
      BY <2>2, NothingNew DEF CommandFails
    <2>3. CASE CommandSucceeds(r)
      BY <2>3, NothingNew DEF CommandSucceeds
    <2>4. CASE CommandCompletes(r)
      BY <2>4, NothingNew DEF CommandCompletes
    <2>5. CASE BusRecovers(r)
      <3>1. Report(r, {"panic"}, {"command"}, SentryUser(r),
          FALSE) /\ pc[r] \notin {"new", "due"}
        BY <2>5 DEF BusRecovers
      <3> QED
        BY <3>1, ReportIsTrue, TagsCount, UserIs DEF Activities
    <2>6. CASE \E s \in Subscribers : Hear(r, s)
      <3>1. PICK s \in Subscribers : Hear(r, s)
        BY <2>6
      <3>2. pc[r] = "events"
        BY <3>1 DEF Hear
      <3>3. CASE Quiet
        BY <3>3, NothingNew
      <3>4. CASE Report(r, {"subscriber", "panic"}, {"event"}, SentryUser(r), FALSE)
        BY <3>2, <3>4, ReportIsTrue, TagsCount, UserIs DEF Activities
      <3> QED
        BY <3>1, <3>3, <3>4 DEF Hear
    <2> QED
      BY <1>3, <2>1, <2>2, <2>3, <2>4, <2>5, <2>6 DEF BusStep
  <1>4. ASSUME NEW r \in Requests, Panic(r) PROVE NewReportsAreTrue
    BY <1>4, NothingNew DEF Panic
  <1>5. ASSUME NEW r \in Requests, Abort(r) PROVE NewReportsAreTrue
    BY <1>5, NothingNew DEF Abort
  <1>6. ASSUME NEW j \in Jobs, JobStep(j) PROVE NewReportsAreTrue
    <2>1. CASE Claim(j)
      BY <2>1, NothingNew DEF Claim
    <2>2. CASE UnknownKind(j)
      <3>1. Report(j, {}, {"job_kind"}, SentryUser(j), FALSE) /\ pc[j] \notin {"new", "due"}
        BY <2>2 DEF UnknownKind
      <3> QED
        BY <3>1, ReportIsTrue, TagsCount, UserIs DEF Activities
    <2>3. CASE Completes(j)
      BY <2>3, NothingNew DEF Completes
    <2>4. CASE Fails(j)
      <3>1. PICK names \in {{}, {"panic"}} :
              Report(j, names, {"job_kind"}, SentryUser(j), FALSE) \/ Quiet
        BY <2>4 DEF Fails
      <3>2. pc[j] = "claimed"
        BY <2>4 DEF Fails
      <3>3. CASE Quiet
        BY <3>3, NothingNew
      <3>4. CASE Report(j, names, {"job_kind"}, SentryUser(j), FALSE)
        BY <3>2, <3>4, ReportIsTrue, TagsCount, UserIs DEF Activities
      <3> QED
        BY <3>1, <3>3, <3>4
    <2>5. CASE MarkFailed(j)
      BY <2>5, NothingNew DEF MarkFailed
    <2>6. CASE MarkIsLost(j)
      BY <2>6, NothingNew DEF MarkIsLost
    <2> QED
      BY <1>6, <2>1, <2>2, <2>3, <2>4, <2>5, <2>6 DEF JobStep
  <1>7. ASSUME Deliver PROVE NewReportsAreTrue
    BY <1>7, NothingNew DEF Deliver
  <1>8. ASSUME Stop PROVE NewReportsAreTrue
    BY <1>8, NothingNew DEF Stop
  <1>9. ASSUME RunReturns PROVE NewReportsAreTrue
    BY <1>9, NothingNew DEF RunReturns
  <1>10. ASSUME FlushEnds PROVE NewReportsAreTrue
    BY <1>10, NothingNew DEF FlushEnds
  <1>11. ASSUME Kill PROVE NewReportsAreTrue
    BY <1>11, NothingNew DEF Kill
  <1>12. ASSUME UNCHANGED vars PROVE NewReportsAreTrue
    BY <1>12, NothingNew DEF vars
  <1> QED
    BY <1>1, <1>2, <1>3, <1>4, <1>5, <1>6, <1>7, <1>8, <1>9, <1>10, <1>11, <1>12 DEF Next


\* A new report carries the log lines of its own request or attempt, the tag of
\* the layer that reports it, the user the request has authenticated and the
\* frontend's trace, whatever runs beside it (WithRequestScope, CaptureError).
THEOREM ReportsTellTheTruth == Spec => ReportsAreTrue
  <1>1. ReportInv /\ [Next]_vars => NewReportsAreTrue
    BY NewIsTrue
  <1> QED
    BY InvariantHolds, <1>1, PTL DEF Spec, ReportsAreTrue, NewReportsAreTrue
=============================================================================
