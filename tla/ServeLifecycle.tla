-------------------------- MODULE ServeLifecycle --------------------------
(***************************************************************************)
(* The life of the serve process: the HTTP server with its graceful        *)
(* shutdown (app/presentation/http/server/server.go), the scheduler        *)
(* (app/infrastructure/scheduler/scheduler.go), the loops of the worker    *)
(* (app/infrastructure/worker/worker.go) and the command that ties them to *)
(* one context (app/presentation/console/serve.go).                        *)
(*                                                                         *)
(* Scheduler jobs and worker slots are goroutines of one shape, a call and *)
(* then a select on the context and a ticker; both are a Loop here.        *)
(***************************************************************************)
EXTENDS Naturals

CONSTANTS
    Jobs,           \* the scheduler's jobs
    Slots,          \* the worker's slots
    Connections     \* HTTP connections, with a request at a time each

ASSUME LifecycleAssumption == Jobs \cap Slots = {}

Loops == Jobs \cup Slots

VARIABLES
    signal,         \* SIGINT or SIGTERM has cancelled the command's context
    cancelled,      \* serve's own cancel() has been called
    main,           \* where the main goroutine is
    exit,           \* what RunE returns
    listener,       \* "listening", "failed", "closed"
    serverErr,      \* the channel: "empty", "nil", "error"
    grace,          \* the grace period is over
    request,        \* the request of each connection
    loop, ticked,   \* where a goroutine is, and whether its ticker has fired
    ran             \* history: loops whose function was called

http == <<listener, serverErr, grace, request>>
process == <<signal, cancelled, main, exit, http, loop, ticked, ran>>

Done == signal \/ cancelled
Inflight == {r \in Connections : request[r] = "running"}

---------------------------------------------------------------------------
(* The loops: runJob and tick, Worker.loop and processOne. *)

\* A loop starts with a call, before it looks at its ticker or the context.
FirstStep == "call"

Call(l) ==
    /\ loop[l] = "call"
    /\ loop' = [loop EXCEPT ![l] = "running"] /\ ran' = ran \cup {l}
    /\ UNCHANGED <<signal, cancelled, main, exit, http, ticked>>

\* The function returns, fails, or panics and is recovered: all the same.
Return(l) ==
    /\ loop[l] = "running"
    /\ loop' = [loop EXCEPT ![l] = "select"]
    /\ UNCHANGED <<signal, cancelled, main, exit, http, ticked, ran>>

Ticker(l) ==
    /\ ~ticked[l] /\ loop[l] # "done"
    /\ ticked' = [ticked EXCEPT ![l] = TRUE]
    /\ UNCHANGED <<signal, cancelled, main, exit, http, loop, ran>>

\* select takes any case that is ready: a tick may win over the cancellation.
Again(l) ==
    /\ loop[l] = "select" /\ ticked[l]
    /\ loop' = [loop EXCEPT ![l] = "call"] /\ ticked' = [ticked EXCEPT ![l] = FALSE]
    /\ UNCHANGED <<signal, cancelled, main, exit, http, ran>>

LoopEnds(l) ==
    /\ loop[l] = "select" /\ Done
    /\ loop' = [loop EXCEPT ![l] = "done"]
    /\ UNCHANGED <<signal, cancelled, main, exit, http, ticked, ran>>

Drained(loops) == \A l \in loops : loop[l] = "done"

---------------------------------------------------------------------------
(* The HTTP server. *)

Accept(r) ==
    /\ listener = "listening" /\ request[r] = "idle" /\ main # "exited"
    /\ request' = [request EXCEPT ![r] = "running"]
    /\ UNCHANGED <<signal, cancelled, main, exit, listener, serverErr, grace, loop, ticked, ran>>

Respond(r) ==
    /\ request[r] = "running" /\ main # "exited"
    /\ request' = [request EXCEPT ![r] = "idle"]
    /\ UNCHANGED <<signal, cancelled, main, exit, listener, serverErr, grace, loop, ticked, ran>>

\* ListenAndServe returns: the port is taken, or Accept has failed.
ListenFails ==
    /\ listener = "listening"
    /\ listener' = "failed" /\ serverErr' = "error"
    /\ UNCHANGED <<signal, cancelled, main, exit, grace, request, loop, ticked, ran>>

\* ... or Shutdown has closed the listener: ErrServerClosed counts as nil.
ListenReturns ==
    /\ listener = "closed" /\ serverErr = "empty"
    /\ serverErr' = "nil"
    /\ UNCHANGED <<signal, cancelled, main, exit, listener, grace, request, loop, ticked, ran>>

---------------------------------------------------------------------------
(* The main goroutine: runWithShutdown, then serve's RunE. *)

Goto(step) == main' = step

\* server.Start returns to RunE.
BadReturnWith(code) ==
    Goto("returned") /\ exit' = IF main = "reap" THEN exit ELSE code
ReturnWith(code) == Goto("returned") /\ exit' = code

\* select, first case.
SeeServerErr ==
    /\ main = "select" /\ serverErr # "empty"
    /\ ReturnWith(serverErr)
    /\ UNCHANGED <<signal, cancelled, http, loop, ticked, ran>>

\* select, second case: Shutdown closes the listener, then waits.
SeeDone ==
    /\ main = "select" /\ signal
    /\ Goto("drain")
    /\ listener' = IF listener = "listening" THEN "closed" ELSE listener
    /\ UNCHANGED <<signal, cancelled, exit, serverErr, grace, request, loop, ticked, ran>>

GraceEnds ==
    /\ main = "drain" /\ ~grace /\ grace' = TRUE
    /\ UNCHANGED <<signal, cancelled, main, exit, listener, serverErr, request, loop, ticked, ran>>

\* Shutdown returns when no request is left, or by the deadline.
BadQuiet == TRUE
Quiet == Inflight = {}

ShutdownReturns ==
    /\ main = "drain"
    /\ \/ Quiet /\ Goto("reap") /\ UNCHANGED exit
       \/ grace /\ ReturnWith("error")
    /\ UNCHANGED <<signal, cancelled, http, loop, ticked, ran>>

\* <-serverErr: an error of the listener is only logged here.
Reap ==
    /\ main = "reap" /\ serverErr # "empty"
    /\ ReturnWith("nil")
    /\ UNCHANGED <<signal, cancelled, http, loop, ticked, ran>>

\* cancel() after server.Start.
BadCancelled == cancelled
Cancelled == TRUE

CancelAll ==
    /\ main = "returned"
    /\ cancelled' = Cancelled
    /\ Goto("join")
    /\ UNCHANGED <<signal, exit, http, loop, ticked, ran>>

\* <-schedulerDone, <-workerDone, return: what still runs is killed.
BadJoined == Drained(Jobs)
Joined == Drained(Jobs) /\ Drained(Slots)

Exit ==
    /\ main = "join" /\ Joined
    /\ Goto("exited")
    /\ request' = [r \in Connections |-> IF r \in Inflight THEN "cut" ELSE request[r]]
    /\ UNCHANGED <<signal, cancelled, exit, listener, serverErr, grace, loop, ticked, ran>>

\* signal.NotifyContext: a second signal changes nothing.
Signal ==
    /\ ~signal /\ main # "exited"
    /\ signal' = TRUE
    /\ UNCHANGED <<cancelled, main, exit, http, loop, ticked, ran>>

---------------------------------------------------------------------------
ServeInit ==
    /\ signal = FALSE /\ cancelled = FALSE
    /\ main = "select" /\ exit = "none"
    /\ listener = "listening" /\ serverErr = "empty" /\ grace = FALSE
    /\ request = [r \in Connections |-> "idle"]
    /\ loop = [l \in Loops |-> FirstStep] /\ ticked = [l \in Loops |-> FALSE]
    /\ ran = {}

MainStep == SeeServerErr \/ SeeDone \/ ShutdownReturns \/ Reap \/ CancelAll \/ Exit
LoopStep(l) == Call(l) \/ Return(l) \/ Ticker(l) \/ Again(l) \/ LoopEnds(l)

ServeNext ==
    \/ MainStep \/ ListenFails \/ ListenReturns \/ GraceEnds \/ Signal
    \/ \E l \in Loops : LoopStep(l)
    \/ \E r \in Connections : Accept(r) \/ Respond(r)

ServeSpec == ServeInit /\ [][ServeNext]_process

\* Goroutines run, the deadline passes, the functions of the loops return (they
\* are given the context), and a select does not prefer its ticker for ever.
\* That a request ends, or that anybody sends a signal, is not assumed.
FairServe ==
    /\ ServeSpec
    /\ WF_process(MainStep) /\ WF_process(ListenReturns) /\ WF_process(GraceEnds)
    /\ \A l \in Loops : WF_process(Call(l) \/ Return(l)) /\ SF_process(LoopEnds(l))

---------------------------------------------------------------------------
(* Properties. *)

\* The process is well formed, and an exit has a code.
ServeTypeOK ==
    /\ signal \in BOOLEAN /\ cancelled \in BOOLEAN /\ grace \in BOOLEAN
    /\ main \in {"select", "drain", "reap", "returned", "join", "exited"}
    /\ exit \in {"none", "nil", "error"}
    /\ (exit = "none" <=> main \in {"select", "drain", "reap"})
    /\ listener \in {"listening", "failed", "closed"}
    /\ serverErr \in {"empty", "nil", "error"}
    /\ request \in [Connections -> {"idle", "running", "cut"}]
    /\ loop \in [Loops -> {"call", "running", "select", "done"}]
    /\ ticked \in [Loops -> BOOLEAN]
    /\ ran \subseteq Loops

\* The process never ends under a job of the scheduler or of the worker, by
\* whichever way the server came down (serve.go:38), and a job of the scheduler
\* has run by then ("at least once per process lifetime", scheduler.go:5),
\* however soon the process was told to stop.
NothingKilled == main = "exited" => Drained(Loops) /\ Jobs \subseteq ran

\* Exit code 0 says that every request was answered; one is cut off only after
\* the grace period, or when the listener itself has failed.
CleanExit ==
    \A r \in Connections : request[r] = "cut" => exit = "error" /\ (grace \/ listener = "failed")

\* A signal, and a listener that fails, both end the process ("otherwise
\* scheduler/worker would hang and the process would never exit", serve.go:33),
\* even under a request that never ends.
ShutdownEnds == signal \/ listener = "failed" ~> main = "exited"
=============================================================================
