--------------------------- MODULE ErrorReporting ---------------------------
(***************************************************************************)
(* What reaches the error tracker, and what it says: the HTTP middleware   *)
(* chain (buildMiddlewareChain), the buses with their two recoveries, the  *)
(* worker's terminal failures, the reporter and the breadcrumb handler of  *)
(* cmd/, and the flush before the process ends (cmd/main.go).              *)
(*                                                                         *)
(* Sentry hubs are shared objects: a context holds a pointer to one.       *)
(* Requests and jobs run side by side, and each writes its log lines to    *)
(* the hub its context points to and reports from it.                      *)
(***************************************************************************)
EXTENDS Naturals, Sequences, FiniteSets

CONSTANTS
    Requests, Jobs,
    Subscribers,    \* handlers registered for the event of a command
    MaxRetries,     \* of every job
    MaxClaims,      \* bound on the claims of a job
    BufferSize,     \* events the transport holds before it drops new ones
    MaxFaults       \* bound on panics, failed writes, kills and slow flushes

Activities == Requests \cup Jobs

ASSUME ReportingAssumption ==
    /\ Requests \cap Jobs = {}
    /\ "process" \notin Activities
    /\ MaxRetries \in Nat /\ MaxClaims \in Nat /\ BufferSize \in Nat /\ MaxFaults \in Nat

VARIABLES
    traced,     \* requests that carry the frontend's sentry-trace header
    known,      \* jobs whose kind the registry has a handler for
    pc,         \* where an activity is
    claims,     \* requests whose context carries claims
    left,       \* subscribers the event of a request has not reached yet
    answer,     \* what a request is answered
    attempts,   \* times a job was claimed
    hub,        \* the hubs: log lines and trace of each
    hubOf,      \* the hub in the context of an activity
    reports,    \* all that was captured, in order
    buffer, delivered, dropped,   \* where each of them is, by number
    phase,      \* of the process: "up", "draining", "flushing", "gone"
    before,     \* history: how many were captured before the flush began
    ending,     \* history: how the flush ended
    raised,     \* history: panics in a request, and failures that ended a job
    said,       \* history: log lines of an activity in its present scope
    unmarked,   \* history: final failures of a job that could not be written
    faults

work == <<traced, known, pc, claims, left, answer, attempts>>
scope == <<hub, hubOf, said>>
sending == <<reports, buffer, delivered, dropped>>
process == <<phase, before, ending>>
vars == <<work, scope, sending, process, raised, unmarked, faults>>

Goto(a, step) == pc' = [pc EXCEPT ![a] = step]
Fault == faults < MaxFaults /\ faults' = faults + 1
Running == phase # "gone"

---------------------------------------------------------------------------
(* The reporter (cmd/sentry.go) and the breadcrumb handler (cmd/logger.go). *)

Fresh == [trail |-> {}, trace |-> "own"]

\* WithRequestScope puts a clone of the process's hub into the context, and
\* ContinueTrace puts the frontend's trace, if there is one, onto it.
BadScopeOf(a) == "process"
ScopeOf(a) == a

BeginScope(a, trace) ==
    /\ hubOf' = [hubOf EXCEPT ![a] = ScopeOf(a)]
    /\ hub' = [hub EXCEPT ![ScopeOf(a)] =
                 [hub["process"] EXCEPT !.trace = IF trace = "own" THEN @ ELSE trace]]
    /\ said' = [said EXCEPT ![a] = {}]

\* Log lines that are given the context: each becomes a breadcrumb of its hub.
Lines(a, names) == {[of |-> a, run |-> attempts[a], line |-> n] : n \in names}

WithLines(a, names) == hub[hubOf[a]].trail \cup Lines(a, names)

Log(a, names) ==
    /\ hub' = [hub EXCEPT ![hubOf[a]].trail = WithLines(a, names)]
    /\ said' = [said EXCEPT ![a] = @ \cup Lines(a, names)]
    /\ UNCHANGED hubOf

BadHasRoom == Cardinality(buffer) <= BufferSize
HasRoom == Cardinality(buffer) < BufferSize

\* The lines the recovery logs first, and the report, whose tags are set on a
\* scope of its own (WithScope); the transport takes it without blocking, or
\* drops it.
Report(a, names, tags, user, request) ==
    LET n == Len(reports) + 1 IN
    /\ reports' = Append(reports,
         [of |-> a, run |-> attempts[a], trail |-> WithLines(a, names),
          tags |-> tags, user |-> user, request |-> request,
          trace |-> hub[hubOf[a]].trace])
    /\ hub' = [hub EXCEPT ![hubOf[a]].trail = WithLines(a, names)]
    /\ said' = [said EXCEPT ![a] = @ \cup Lines(a, names)]
    /\ IF HasRoom
         THEN buffer' = buffer \cup {n} /\ UNCHANGED dropped
         ELSE dropped' = dropped \cup {n} /\ UNCHANGED buffer
    /\ UNCHANGED <<hubOf, delivered>>

\* sentryUser: the claims of the context, or its IP address, or nobody.
SentryUser(a) ==
    IF a \in Jobs THEN "nobody" ELSE IF a \in claims THEN "claims" ELSE "address"

Quiet == UNCHANGED sending
Same == UNCHANGED <<traced, known, claims, left, attempts, process, unmarked, raised>>

\* Something has failed that the tracker should hear of, once.
Raise(a) == raised' = [raised EXCEPT ![a] = @ + 1]

---------------------------------------------------------------------------
(* The HTTP chain: Trace, IP and ReportScope, then Recovery around the rest. *)

Arrive(r) ==
    /\ pc[r] = "new" /\ phase = "up"
    /\ BeginScope(r, IF r \in traced THEN "frontend" ELSE "own")
    /\ Goto(r, "chain")
    /\ Quiet /\ Same /\ UNCHANGED <<answer, faults>>

Answer(r, with) == answer' = [answer EXCEPT ![r] = with] /\ Goto(r, "answered")

\* A preflight (204) and a cross-origin refusal (403) are answered outside of
\* LoggingMiddleware: no access log.
TurnAway(r) ==
    /\ Running /\ pc[r] = "chain"
    /\ \E with \in {"ok", "refused"} : Answer(r, with)
    /\ Quiet /\ Same /\ UNCHANGED <<scope, faults>>

\* A rate limit or AuthMiddleware refuses; the access log follows.
Refuse(r) ==
    /\ Running /\ pc[r] = "chain"
    /\ Answer(r, "refused") /\ Log(r, {"request"})
    /\ Quiet /\ Same /\ UNCHANGED faults

\* AuthMiddleware puts the claims into the context of what it calls; whoever
\* calls it keeps the context without.
Route(r) ==
    /\ Running /\ pc[r] = "chain"
    /\ claims' \in {claims, claims \cup {r}}
    /\ Goto(r, "handler")
    /\ Quiet
    /\ UNCHANGED <<traced, known, left, answer, attempts, scope, process, unmarked, raised, faults>>

\* The handler answers: a body it cannot read, static files, health.
Reply(r) ==
    /\ Running /\ pc[r] = "handler"
    /\ \E with \in {"ok", "refused"} : Answer(r, with)
    /\ Log(r, {"request"})
    /\ Quiet /\ Same /\ UNCHANGED faults

\* ... or answers with what the bus returned.
ReplyResult(r) ==
    /\ Running /\ pc[r] = "reply"
    /\ Goto(r, "answered") /\ Log(r, {"request"})
    /\ Quiet /\ Same /\ UNCHANGED <<answer, faults>>

\* A panic: in the bus (its Recovery stands in front), or before it is called
\* or after it has returned.
Panic(r) ==
    /\ Running /\ pc[r] \in {"chain", "handler", "bus", "reply"} /\ Fault
    /\ Goto(r, IF pc[r] = "bus" THEN "recovering" ELSE "unwinding")
    /\ Raise(r)
    /\ Quiet
    /\ UNCHANGED <<traced, known, claims, left, answer, attempts, scope, process, unmarked>>

\* RecoveryMiddleware of the HTTP chain.  It reports from the context that it
\* was given, which has no claims.
HttpRecovers(r) ==
    /\ Running /\ pc[r] = "unwinding"
    /\ Report(r, {"panic"}, {}, "address", TRUE)
    /\ Answer(r, "error")
    /\ Same /\ UNCHANGED faults

\* panic(http.ErrAbortHandler) goes on to net/http, which closes the connection.
Abort(r) ==
    /\ Running /\ pc[r] = "handler" /\ Fault
    /\ Answer(r, "aborted")
    /\ Quiet /\ Same /\ UNCHANGED scope

---------------------------------------------------------------------------
(* The buses.  Recovery, Logging and Authorize surround every command and  *)
(* query, Recovery and Logging every subscriber of an event.               *)

Dispatch(r) ==
    /\ Running /\ pc[r] = "handler"
    /\ Goto(r, "bus") /\ Log(r, {"executing"})
    /\ Quiet /\ Same /\ UNCHANGED <<answer, faults>>

\* Any returned error: a validation, a refusal, a failed statement.
CommandFails(r) ==
    /\ Running /\ pc[r] = "bus"
    /\ \E with \in {"refused", "error"} : answer' = [answer EXCEPT ![r] = with]
    /\ Goto(r, "reply") /\ Log(r, {"failed"})
    /\ Quiet /\ Same /\ UNCHANGED faults

\* The handler has succeeded, and its events, if it has collected any, are
\* handed to their subscribers one after the other.
CommandSucceeds(r) ==
    /\ Running /\ pc[r] = "bus"
    /\ \/ left' = [left EXCEPT ![r] = Subscribers] /\ Log(r, {"dispatched"})
       \/ UNCHANGED <<left, scope>>
    /\ Goto(r, "events")
    /\ Quiet
    /\ UNCHANGED <<traced, known, claims, answer, attempts, process, unmarked, raised, faults>>

\* EventBus.Dispatch: the error of a subscriber, a recovered panic too, is
\* dropped and the next one is called.
Hear(r, s) ==
    /\ Running /\ pc[r] = "events" /\ s \in left[r]
    /\ left' = [left EXCEPT ![r] = @ \ {s}]
    /\ \/ Log(r, {"subscriber"}) /\ Quiet /\ UNCHANGED <<raised, faults>>
       \/ Fault /\ Raise(r) /\ Report(r, {"subscriber", "panic"}, {"event"}, SentryUser(r), FALSE)
    /\ UNCHANGED <<traced, known, pc, claims, answer, attempts, process, unmarked>>

CommandCompletes(r) ==
    /\ Running /\ pc[r] = "events" /\ left[r] = {}
    /\ answer' = [answer EXCEPT ![r] = "ok"]
    /\ Goto(r, "reply") /\ Log(r, {"completed"})
    /\ Quiet /\ Same /\ UNCHANGED faults

\* RecoveryMiddleware of the bus turns the panic into an error, which the
\* handler answers with a 500 like any other.
BadAfterBusRecovery == "unwinding"
AfterBusRecovery == "reply"

BusRecovers(r) ==
    /\ Running /\ pc[r] = "recovering"
    /\ Report(r, {"panic"}, {"command"}, SentryUser(r), FALSE)
    /\ answer' = [answer EXCEPT ![r] = "error"]
    /\ Goto(r, AfterBusRecovery)
    /\ Same /\ UNCHANGED faults

---------------------------------------------------------------------------
(* The worker.  Its own log lines have no context, so they leave no trail. *)

\* One slot, and a claim fails once the process is told to stop.
Claim(j) ==
    /\ phase = "up" /\ pc[j] = "due" /\ attempts[j] < MaxClaims
    /\ \A k \in Jobs : pc[k] \in {"due", "done", "failed"}
    /\ attempts' = [attempts EXCEPT ![j] = @ + 1]
    /\ BeginScope(j, "own")
    /\ Goto(j, "claimed")
    /\ Quiet /\ UNCHANGED <<traced, known, claims, left, answer, process, unmarked, raised, faults>>

IsLast(j) == attempts[j] > MaxRetries

\* A kind without a handler is final at once.
UnknownKind(j) ==
    /\ Running /\ pc[j] = "claimed" /\ j \notin known
    /\ Report(j, {}, {"job_kind"}, SentryUser(j), FALSE)
    /\ Raise(j)
    /\ Goto(j, "marking")
    /\ UNCHANGED <<traced, known, claims, left, answer, attempts, process, unmarked, faults>>

Completes(j) ==
    /\ phase = "up" /\ pc[j] = "claimed" /\ j \in known
    /\ Goto(j, "done")
    /\ Quiet /\ Same /\ UNCHANGED <<scope, answer, faults>>

\* The handler returns an error, as it does when the process is told to stop
\* and its context with it, or panics and that is logged.  handleFailure
\* reports a last attempt before it marks the job, and reschedules any other.
Fails(j) ==
    /\ Running /\ pc[j] = "claimed" /\ j \in known
    /\ \E names \in {{}, {"panic"}} :
         \/ /\ IsLast(j)
            /\ Report(j, names, {"job_kind"}, SentryUser(j), FALSE)
            /\ raised' = IF attempts[j] > MaxRetries THEN [raised EXCEPT ![j] = @ + 1] ELSE raised
            /\ Goto(j, "marking")
         \/ /\ ~IsLast(j)
            /\ Log(j, names) /\ Quiet /\ UNCHANGED raised
            /\ Goto(j, "due")
    /\ UNCHANGED <<traced, known, claims, left, answer, attempts, process, unmarked, faults>>

MarkFailed(j) ==
    /\ phase = "up" /\ pc[j] = "marking"
    /\ Goto(j, "failed")
    /\ Quiet /\ Same /\ UNCHANGED <<scope, answer, faults>>

\* MarkFailed fails, on a busy database or with the cancelled context: the job
\* comes back when its lease has run out.
MarkIsLost(j) ==
    /\ Running /\ pc[j] = "marking"
    /\ IF phase = "up" THEN Fault ELSE UNCHANGED faults
    /\ unmarked' = [unmarked EXCEPT ![j] = @ + 1]
    /\ Goto(j, "due")
    /\ Quiet /\ UNCHANGED <<traced, known, claims, left, answer, attempts, scope, process, raised>>

---------------------------------------------------------------------------
(* Delivery, and the end of the process (cmd/main.go). *)

\* The transport sends one event after the other.
Deliver ==
    /\ Running /\ buffer # {}
    /\ LET n == CHOOSE n \in buffer : \A m \in buffer : n <= m IN
         buffer' = buffer \ {n} /\ delivered' = delivered \cup {n}
    /\ UNCHANGED <<work, scope, reports, dropped, process, raised, unmarked, faults>>

\* A signal, or a listener that has failed: nothing new is taken on, and the
\* context of the worker is cancelled.
Stop ==
    /\ phase = "up" /\ phase' = "draining"
    /\ UNCHANGED <<work, scope, sending, before, ending, raised, unmarked, faults>>

JobsRest == \A j \in Jobs : pc[j] \in {"due", "done", "failed"}

\* application.Run returns when the worker has.  Requests may still go on, when
\* the grace period is over or the listener has failed.  Either way main
\* flushes, by its defer or before os.Exit.
BadFlushes == "gone"
Flushes == "flushing"

RunReturns ==
    /\ phase = "draining" /\ JobsRest
    /\ phase' = Flushes /\ before' = Len(reports)
    /\ ending' = IF Flushes = "gone" THEN "clean" ELSE ending
    /\ UNCHANGED <<work, scope, sending, raised, unmarked, faults>>

\* Flush waits until nothing is buffered, for two seconds at most.
FlushEnds ==
    /\ phase = "flushing"
    /\ \/ buffer = {} /\ ending' = "clean" /\ UNCHANGED faults
       \/ buffer # {} /\ Fault /\ ending' = "timeout"
    /\ phase' = "gone"
    /\ UNCHANGED <<work, scope, sending, before, raised, unmarked>>

Kill ==
    /\ Running /\ Fault
    /\ phase' = "gone" /\ ending' = "killed"
    /\ UNCHANGED <<work, scope, sending, before, raised, unmarked>>

---------------------------------------------------------------------------
Init ==
    /\ traced \in SUBSET Requests /\ known \in SUBSET Jobs
    /\ pc = [a \in Activities |-> IF a \in Jobs THEN "due" ELSE "new"]
    /\ claims = {} /\ left = [r \in Requests |-> {}]
    /\ answer = [r \in Requests |-> "none"]
    /\ attempts = [a \in Activities |-> 0]
    /\ hub = [h \in Activities \cup {"process"} |-> Fresh]
    /\ hubOf = [a \in Activities |-> "process"]
    /\ said = [a \in Activities |-> {}]
    /\ reports = <<>> /\ buffer = {} /\ delivered = {} /\ dropped = {}
    /\ phase = "up" /\ before = 0 /\ ending = "none"
    /\ raised = [a \in Activities |-> 0]
    /\ unmarked = [j \in Jobs |-> 0]
    /\ faults = 0

HttpStep(r) ==
    \/ TurnAway(r) \/ Refuse(r) \/ Route(r) \/ Reply(r) \/ ReplyResult(r) \/ HttpRecovers(r)
BusStep(r) ==
    \/ Dispatch(r) \/ CommandFails(r) \/ CommandSucceeds(r) \/ CommandCompletes(r)
    \/ BusRecovers(r) \/ \E s \in Subscribers : Hear(r, s)
JobStep(j) ==
    \/ Claim(j) \/ UnknownKind(j) \/ Completes(j) \/ Fails(j) \/ MarkFailed(j) \/ MarkIsLost(j)

Next ==
    \/ \E r \in Requests : Arrive(r) \/ HttpStep(r) \/ BusStep(r) \/ Panic(r) \/ Abort(r)
    \/ \E j \in Jobs : JobStep(j)
    \/ Deliver \/ Stop \/ RunReturns \/ FlushEnds \/ Kill

Spec == Init /\ [][Next]_vars

---------------------------------------------------------------------------
(* Properties. *)

Steps == {"new", "chain", "handler", "bus", "events", "reply", "recovering", "unwinding",
          "answered", "due", "claimed", "marking", "done", "failed"}
Event == [of : Activities, run : 0 .. MaxClaims,
          trail : SUBSET [of : Activities, run : 0 .. MaxClaims,
                          line : {"executing", "failed", "dispatched", "subscriber", "completed",
                                  "request", "panic"}],
          tags : SUBSET {"command", "event", "job_kind"},
          user : {"claims", "address", "nobody"}, request : BOOLEAN,
          trace : {"own", "frontend"}]

\* The state is well formed, and every report is somewhere.
TypeOK ==
    /\ traced \subseteq Requests /\ claims \subseteq Requests /\ known \subseteq Jobs
    /\ pc \in [Activities -> Steps]
    /\ left \in [Requests -> SUBSET Subscribers]
    /\ answer \in [Requests -> {"none", "ok", "refused", "error", "aborted"}]
    /\ attempts \in [Activities -> 0 .. MaxClaims]
    /\ hubOf \in [Activities -> DOMAIN hub]
    /\ reports \in Seq(Event)
    /\ buffer \cup delivered \cup dropped = DOMAIN reports
    /\ Cardinality(buffer) <= BufferSize
    /\ phase \in {"up", "draining", "flushing", "gone"}
    /\ ending \in {"none", "clean", "timeout", "killed"}
    /\ before \in 0 .. Len(reports)
    /\ faults \in 0 .. MaxFaults

Count(a) == Cardinality({n \in DOMAIN reports : reports[n].of = a})

\* Every panic is reported once, by one of the three recoveries that it passes
\* or by the worker, and nothing else is: no returned error, no sanctioned
\* abort, no attempt that is not the last ("ordinary returned errors must never
\* flow here", error_reporter.go:11).  A job is reported again only when its
\* failure could not be written.
OneReport ==
    /\ \A r \in Requests : pc[r] = "answered" => Count(r) = raised[r]
    /\ \A j \in Jobs :
         /\ Count(j) = raised[j]
         /\ Count(j) = unmarked[j] + (IF pc[j] \in {"marking", "failed"} THEN 1 ELSE 0)

\* A new report is true to its origin, whatever runs beside it.  It carries the
\* log lines of its own request or attempt, all of them that far and no other's
\* ("a clone keeps each request's trail isolated from concurrent requests",
\* sentry.go:73); its tag is that of the layer that reports it and not left over
\* from an earlier report; it names a user only after the request was
\* authenticated, and always when it then fails in the bus; and it joins the
\* frontend's trace if there is one.
TrueToOrigin(e) ==
    /\ e.trail = said'[e.of]
    /\ Cardinality(e.tags) = (IF e.request THEN 0 ELSE 1)
    /\ e.user = "claims" => e.of \in claims
    /\ e.tags = {"command"} /\ e.of \in claims => e.user = "claims"
    /\ e.trace = "frontend" <=> e.of \in traced

ReportsAreTrue ==
    [][\A n \in DOMAIN reports' \ DOMAIN reports : TrueToOrigin(reports'[n])]_vars

\* Whatever was captured before the process went down in order has reached the
\* tracker, unless the transport was full (main.go:46).
Delivered ==
    phase = "gone" /\ ending = "clean" => 1 .. before \subseteq delivered \cup dropped
=============================================================================
