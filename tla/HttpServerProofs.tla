-------------------------- MODULE HttpServerProofs --------------------------
(***************************************************************************)
(* Theorems about the HTTP server.                                         *)
(*                                                                         *)
(* Of the process that serves (ServeLifecycle): for any scheduler jobs,    *)
(* worker slots and connections.  No fairness is used: these are what a    *)
(* shutdown never does.                                                    *)
(*                                                                         *)
(* Of its RateLimiter: for every rule, every number of requests that wait  *)
(* for the mutex, every delay between the clock and the mutex and every    *)
(* patience of the janitor of at least twice that.                         *)
(***************************************************************************)
EXTENDS ServeLifecycle, RateLimiter, TLAPS

---------------------------------------------------------------------------
(* The life of the process. *)

\* A goroutine that has left its first call has made it, and one that is
\* done stays so.
LoopInv ==
    /\ \A l \in Loops : loop[l] # "call" => l \in ran
    /\ main = "exited" => Drained(Loops)

\* The channel says what became of the listener, which is closed by Shutdown
\* alone and open for as long as main waits for either.
ListenerInv ==
    /\ serverErr = "error" <=> listener = "failed"
    /\ serverErr = "nil" => listener = "closed"
    /\ main = "select" => listener # "closed"
    /\ main # "select" => listener # "listening"

\* Requests that are left when the server has returned have a reason.
Excused == exit = "error" /\ (grace \/ listener = "failed")
RequestInv ==
    /\ main = "reap" => Inflight = {}
    /\ main \in {"returned", "join", "exited"} => Inflight = {} \/ Excused
    /\ CleanExit

\* The inductive invariant.
LifecycleInv == ServeTypeOK /\ LoopInv /\ ListenerInv /\ RequestInv
---------------------------------------------------------------------------
LEMMA LifecycleStart == ServeInit => LifecycleInv
  BY DEF ServeInit, LifecycleInv, ServeTypeOK, LoopInv, ListenerInv, RequestInv, CleanExit,
         FirstStep, Drained

\* Every step keeps it: only main's join leads to the exit, and it waits for every
\* goroutine; ListenAndServe returns once; and a listener that is closed accepts
\* nothing, so what has been drained stays drained.
LEMMA LifecycleKept == LifecycleInv /\ [ServeNext]_process => LifecycleInv'
  <1> SUFFICES ASSUME LifecycleInv, [ServeNext]_process PROVE LifecycleInv'
    OBVIOUS
  <1> USE DEF LifecycleInv, ServeTypeOK, LoopInv, ListenerInv, RequestInv, CleanExit, Excused,
      Inflight, http, Goto, Drained, Loops
  <1>1. ASSUME MainStep PROVE LifecycleInv'
    <2>1. CASE SeeServerErr
      BY <2>1 DEF SeeServerErr, ReturnWith
    <2>2. CASE SeeDone
      BY <2>2 DEF SeeDone
    <2>3. CASE ShutdownReturns
      BY <2>3 DEF ShutdownReturns, Quiet, ReturnWith
    <2>4. CASE Reap
      BY <2>4 DEF Reap, ReturnWith
    <2>5. CASE CancelAll
      BY <2>5 DEF CancelAll, Cancelled
    <2>6. CASE Exit
      BY <2>6 DEF Exit, Joined, Drained
    <2> QED
      BY <1>1, <2>1, <2>2, <2>3, <2>4, <2>5, <2>6 DEF MainStep
  <1>2. ASSUME ListenFails PROVE LifecycleInv'
    BY <1>2 DEF ListenFails
  <1>3. ASSUME ListenReturns PROVE LifecycleInv'
    BY <1>3 DEF ListenReturns
  <1>4. ASSUME GraceEnds PROVE LifecycleInv'
    BY <1>4 DEF GraceEnds
  <1>5. ASSUME Signal PROVE LifecycleInv'
    BY <1>5 DEF Signal
  <1>6. ASSUME NEW l \in Loops, LoopStep(l) PROVE LifecycleInv'
    <2>1. CASE Call(l)
      BY <2>1 DEF Call
    <2>2. CASE Return(l)
      BY <2>2 DEF Return
    <2>3. CASE Ticker(l)
      BY <2>3 DEF Ticker
    <2>4. CASE Again(l)
      BY <2>4 DEF Again
    <2>5. CASE LoopEnds(l)
      BY <2>5 DEF LoopEnds
    <2> QED
      BY <1>6, <2>1, <2>2, <2>3, <2>4, <2>5 DEF LoopStep
  <1>7. ASSUME NEW r \in Connections, Accept(r) PROVE LifecycleInv'
    BY <1>7 DEF Accept
  <1>8. ASSUME NEW r \in Connections, Respond(r) PROVE LifecycleInv'
    BY <1>8 DEF Respond
  <1>9. ASSUME UNCHANGED process PROVE LifecycleInv'
    BY <1>9 DEF process
  <1> QED
    BY <1>1, <1>2, <1>3, <1>4, <1>5, <1>6, <1>7, <1>8, <1>9 DEF ServeNext

---------------------------------------------------------------------------
LEMMA LifecycleInvHolds == ServeSpec => []LifecycleInv
  BY LifecycleStart, LifecycleKept, PTL DEF ServeSpec

\* The process is well formed; main has an exit code exactly when the server
\* has returned (runWithShutdown's four returns).
THEOREM ServeTypeCorrect == ServeSpec => []ServeTypeOK
  <1>1. LifecycleInv => ServeTypeOK
    BY DEF LifecycleInv
  <1> QED
    BY LifecycleInvHolds, <1>1, PTL

\* The process never ends under a job of the scheduler or of the worker, and
\* every job of the scheduler has run by then, whatever stopped the process and
\* whenever (serve.go's cancel() and its two receives from the done channels).
THEOREM NobodyIsKilled == ServeSpec => []NothingKilled
  <1>1. LifecycleInv => NothingKilled
    BY DEF LifecycleInv, LoopInv, NothingKilled, Drained, Loops
  <1> QED
    BY LifecycleInvHolds, <1>1, PTL

\* An exit code of 0 says that every request was answered (the error paths of
\* runWithShutdown).
THEOREM ExitIsHonest == ServeSpec => []CleanExit
  <1>1. LifecycleInv => CleanExit
    BY DEF LifecycleInv, RequestInv
  <1> QED
    BY LifecycleInvHolds, <1>1, PTL

---------------------------------------------------------------------------
(* The rate limiter. *)

\* The bucket owes no more than the time since its last update has refilled.
Solvent == units + age * Tokens >= 0

\* What the janitor has done since the first admission of a window: its sweeps
\* were Idled apart, and x is as far back as the clock of a request can lie that
\* is still to be decided.
Spaced(to, sweeps, x) ==
    /\ \A r \in Requests : clock[r] <= x
    /\ (sweeps = 0 /\ x <= to + Delay) \/ (sweeps * Idled <= to - x)

\* The admissions of a window were paid for from one full bucket, the refill
\* since its beginning and the gifts of the sweeps.
Paid(from, to, sweeps, x) ==
    IF known
      THEN /\ age <= x
           /\ Admissions(from, to) * Per + units + (age - to) * Tokens <= Full + sweeps * Gift
      ELSE Admissions(from, to) * Per + (x - to) * Tokens <= sweeps * Gift

WindowInv ==
    \A from, to \in Ages : from <= to /\ Admissions(from, to) > 0 =>
        \E sweeps, x \in Nat : Spaced(to, sweeps, x) /\ Paid(from, to, sweeps, x)

\* What is missing in the bucket was let through: in the last ticks, or else the
\* ticks have refilled it.
EarnedInv ==
    known => \A a \in Ages :
        \/ admitted[a] * Per + units + age * Tokens >= Full
        \/ admitted[a] * Per + units + age * Tokens >= (a + 1) * Tokens

\* The inductive invariant.
LimitInv == TypeOK /\ Solvent /\ WindowInv /\ EarnedInv /\ LimitHolds

---------------------------------------------------------------------------
(* Arithmetic. *)

LEMMA Monotone ==
  ASSUME NEW a \in Int, NEW b \in Int, a <= b, NEW t \in Nat
  PROVE  a * t <= b * t
  OBVIOUS

LEMMA Distributes ==
  ASSUME NEW a \in Int, NEW b \in Int, NEW t \in Int
  PROVE  /\ a * t \in Int /\ (a + b) * t = a * t + b * t /\ (a - b) * t = a * t - b * t
         /\ (a + 1) * t = a * t + t
  OBVIOUS

\* A number of times that fits is at most the quotient.
LEMMA Quotient ==
  ASSUME NEW n \in Nat, NEW d \in Nat \ {0}, NEW m \in Nat, m * d <= n
  PROVE  m <= n \div d
  <1>1. n \div d \in Nat /\ n < (n \div d) * d + d
    OBVIOUS
  <1>2. CASE n \div d < m
    <2>1. (n \div d) + 1 <= m
      BY <1>1, <1>2
    <2>2. ((n \div d) + 1) * d <= m * d
      BY <1>1, <2>1, Monotone
    <2> QED
      BY <1>1, <2>2, Distributes
  <1> QED
    BY <1>1, <1>2

\* The rule in force is one of at least a token, and a full bucket has enough.
LEMMA RuleType ==
  ASSUME rule \in ParseRateRule
  PROVE  /\ Tokens \in Nat \ {0} /\ Per \in 1 .. Longest /\ Per \in Nat
         /\ Full \in Nat /\ Per <= Full /\ Tokens <= Full /\ Full = Per * Tokens
         /\ Gift \in Nat /\ Idled \in Nat \ {0} /\ Full - Idled * Tokens <= Gift
  <1> USE LimiterAssumption
  <1>1. rule.tokens \in Int /\ rule.tokens > 0 /\ rule.per \in 1 .. Longest
    BY DEF ParseRateRule
  <1>2. Tokens \in Nat \ {0} /\ Per \in 1 .. Longest /\ Per \in Nat \ {0}
    BY <1>1 DEF Tokens, Per
  <1>3. Full \in Nat /\ Full = Per * Tokens
    BY <1>2 DEF Full
  <1>4. Per * 1 <= Per * Tokens /\ 1 * Tokens <= Per * Tokens
    BY <1>2, Monotone
  <1>5. Idled \in Nat \ {0} /\ Idled * Tokens \in Int
    BY <1>2 DEF Idled
  <1>6. Gift \in Nat /\ Full - Idled * Tokens <= Gift
    BY <1>3, <1>5 DEF Gift
  <1> QED
    BY <1>2, <1>3, <1>4, <1>5, <1>6

\* A longer window is given no less.
LEMMA GiftsGrow ==
  ASSUME rule \in ParseRateRule, NEW n \in Nat, NEW sweeps \in Nat, sweeps * Idled <= n
  PROVE  sweeps * Gift <= GivenAway(n) /\ GivenAway(n) \in Nat
  <1>1. Gift \in Nat /\ Idled \in Nat \ {0}
    BY RuleType
  <1>2. sweeps <= n \div Idled /\ n \div Idled \in Nat
    BY <1>1, Quotient
  <1> QED
    BY <1>1, <1>2, Monotone DEF GivenAway

LEMMA GivenAwayGrows ==
  ASSUME rule \in ParseRateRule, NEW n \in Nat
  PROVE  GivenAway(n) <= GivenAway(n + 1) /\ GivenAway(n) \in Nat /\ GivenAway(n + 1) \in Nat
  <1>1. Gift \in Nat /\ Idled \in Nat \ {0}
    BY RuleType
  <1>2. n \div Idled \in Nat /\ (n \div Idled) * Idled <= n
    BY <1>1
  <1>3. (n \div Idled) * Idled <= n + 1
    BY <1>1, <1>2
  <1> QED
    BY <1>1, <1>2, <1>3, GiftsGrow DEF GivenAway

\* What a request finds: never more than a full bucket, nor more than the refill
\* allows, and never less than what the clock it has read can explain.
LEMMA FoundType ==
  ASSUME TypeOK, Solvent, NEW r \in Requests, clock[r] # Idle
  PROVE  /\ clock[r] \in 0 .. Delay /\ Found(r) \in Int /\ Found(r) <= Full
         /\ Found(r) + clock[r] * Tokens >= 0
         /\ ~known => Found(r) = Full
         /\ known => Found(r) = Full \/ Found(r) = units + (age - clock[r]) * Tokens
         /\ known => Found(r) <= units + (age - clock[r]) * Tokens
  <1> USE LimiterAssumption
  <1>1. Tokens \in Nat /\ Full \in Nat /\ units \in Int /\ age \in Nat /\ clock[r] \in 0 .. Delay
    BY RuleType DEF TypeOK, Far, Idle
  <1>2. (age - clock[r]) * Tokens = age * Tokens - clock[r] * Tokens /\ clock[r] * Tokens \in Nat
        /\ age * Tokens \in Nat
    BY <1>1, Distributes
  <1>3. units + age * Tokens >= 0
    BY DEF Solvent
  <1> HIDE DEF Tokens, Full
  <1> QED
    BY <1>1, <1>2, <1>3 DEF Found, Refilled, Clamp

\* Steps keep the rule, and with it what is derived from it.
LEMMA RuleKept ==
  ASSUME rule' = rule
  PROVE  /\ Tokens' = Tokens /\ Per' = Per /\ Full' = Full /\ Gift' = Gift
         /\ \A n : GivenAway(n)' = GivenAway(n)
  BY DEF Tokens, Per, Full, Gift, GivenAway, Idled

\* How the steps move the windows.
LEMMA AdmitCounts ==
  ASSUME TypeOK, Solvent, NEW r \in Requests, Admit(r),
         NEW from \in Ages, NEW to \in Ages, from <= to
  PROVE  Admissions(from, to)' =
           Admissions(from, to) + (IF from <= clock[r] /\ clock[r] <= to THEN 1 ELSE 0)
  <1> USE LimiterAssumption
  <1>1. clock[r] \in 0 .. Delay
    BY FoundType DEF Admit
  <1>2. \A a \in Ages : admitted[a] \in Nat
                        /\ admitted'[a] = IF a < clock[r] THEN admitted[a] ELSE admitted[a] + 1
    BY DEF Admit, TypeOK
  <1>3. from # 0 => from - 1 \in Ages
    BY DEF Ages
  <1>4. from \in Nat /\ to \in Nat
    BY DEF Ages
  <1> QED
    BY <1>1, <1>2, <1>3, <1>4 DEF Admissions

LEMMA TickCounts ==
  ASSUME TypeOK, Tick, NEW from \in Ages, NEW to \in Ages, from <= to
  PROVE  /\ to = 0 => Admissions(from, to)' = 0
         /\ to # 0 /\ from = 0 => Admissions(from, to)' = Admissions(0, to - 1)
         /\ to # 0 /\ from # 0 => Admissions(from, to)' = Admissions(from - 1, to - 1)
  <1> USE LimiterAssumption
  <1>1. \A a \in Ages : admitted[a] \in Nat
                        /\ admitted'[a] = IF a = 0 THEN 0 ELSE admitted[a - 1]
    BY DEF Tick, TypeOK
  <1>2. (from # 0 => from - 1 \in Ages) /\ (to # 0 => to - 1 \in Ages)
    BY DEF Ages
  <1>3. from \in Nat /\ to \in Nat
    BY DEF Ages
  <1> QED
    BY <1>1, <1>2, <1>3 DEF Admissions

LEMMA AdmissionsType ==
  ASSUME TypeOK, NEW from \in Ages, NEW to \in Ages
  PROVE  Admissions(from, to) \in Int
  BY LimiterAssumption DEF TypeOK, Admissions, Ages

---------------------------------------------------------------------------
(* The inductive invariant. *)

LEMMA LimitStart == Init => LimitInv
  <1> SUFFICES ASSUME Init PROVE LimitInv
    OBVIOUS
  <1> USE LimiterAssumption
  <1>1. /\ rule \in ParseRateRule /\ known = FALSE /\ units = 0 /\ age = 0
        /\ clock = [r \in Requests |-> -1] /\ admitted = [a \in Ages |-> 0]
    BY DEF Init, Idle
  <1>2. Tokens \in Nat \ {0} /\ Full \in Nat /\ Per \in Nat /\ Delay * Tokens \in Nat
    BY <1>1, RuleType
  <1>3. TypeOK
    <2>1. 0 \in -(Delay * Tokens) .. Full /\ 0 \in 0 .. Far /\ -1 \in Idle .. Delay
      BY <1>2 DEF Far, Idle
    <2> QED
      BY <1>1, <2>1 DEF TypeOK
  <1>4. \A from, to \in Ages : Admissions(from, to) = 0
    BY <1>1 DEF Admissions, Ages
  <1>5. Solvent
    BY <1>1, <1>2 DEF Solvent
  <1>6. WindowInv
    BY <1>4 DEF WindowInv
  <1>7. EarnedInv
    BY <1>1 DEF EarnedInv
  <1>8. LimitHolds
    <2> SUFFICES ASSUME NEW from \in Ages, NEW to \in Ages, from <= to
                 PROVE  Admissions(from, to) * Per
                          <= Full + (to - from) * Tokens + GivenAway(to - from)
      BY DEF LimitHolds
    <2>1. to - from \in Nat
      BY DEF Ages
    <2>2. (to - from) * Tokens \in Nat /\ GivenAway(to - from) \in Nat
      BY <1>1, <1>2, <2>1, GivenAwayGrows
    <2> QED
      BY <1>2, <1>4, <2>2
  <1> QED
    BY <1>3, <1>5, <1>6, <1>7, <1>8 DEF LimitInv

\* Types, and the debt of the bucket.
LEMMA TypeKept == TypeOK /\ Solvent /\ [Next]_vars => TypeOK' /\ Solvent'
  <1> SUFFICES ASSUME TypeOK, Solvent, [Next]_vars PROVE TypeOK' /\ Solvent'
    OBVIOUS
  <1> USE LimiterAssumption
  <1>1. /\ Tokens \in Nat \ {0} /\ Full \in Nat /\ Per \in Nat \ {0} /\ Delay * Tokens \in Nat
        /\ rule \in ParseRateRule
    BY RuleType DEF TypeOK
  <1>2. rule' = rule
    BY DEF Next, vars, Arrive, Admit, Refuse, Sweep, Tick
  <1>3. ASSUME NEW r \in Requests, Arrive(r) PROVE TypeOK' /\ Solvent'
    BY <1>2, <1>3, RuleKept DEF Arrive, TypeOK, Solvent, Idle
  <1>4. ASSUME NEW r \in Requests, Admit(r) PROVE TypeOK' /\ Solvent'
    <2>1. /\ clock[r] \in 0 .. Delay /\ Found(r) \in Int /\ Found(r) <= Full /\ Found(r) >= Per
          /\ units' = Found(r) - Per /\ age' = clock[r] /\ known' = TRUE
      BY <1>4, FoundType DEF Admit, Enough, Touch
    <2>2. clock' \in [Requests -> Idle .. Delay]
      BY <1>4 DEF Admit, Leave, TypeOK, Idle
    <2>3. admitted' \in [Ages -> Nat]
      BY <1>4 DEF Admit, TypeOK
    <2>4. clock[r] * Tokens \in Nat
      BY <1>1, <2>1
    <2>5. units' \in -(Delay * Tokens) .. Full /\ age' \in 0 .. Far
      BY <1>1, <2>1 DEF Far
    <2> QED
      BY <1>1, <1>2, <2>1, <2>2, <2>3, <2>4, <2>5, RuleKept DEF TypeOK, Solvent
  <1>5. ASSUME NEW r \in Requests, Refuse(r) PROVE TypeOK' /\ Solvent'
    <2>1. /\ clock[r] \in 0 .. Delay /\ Found(r) \in Int /\ Found(r) <= Full
          /\ Found(r) + clock[r] * Tokens >= 0
          /\ units' = Found(r) /\ age' = clock[r] /\ known' = TRUE
      BY <1>5, FoundType DEF Refuse, Left, Touch
    <2>2. clock' \in [Requests -> Idle .. Delay] /\ admitted' = admitted
      BY <1>5 DEF Refuse, Leave, TypeOK, Idle
    <2>3. clock[r] * Tokens \in Nat /\ clock[r] * Tokens <= Delay * Tokens
      BY <1>1, <2>1, Monotone
    <2>4. units' \in -(Delay * Tokens) .. Full /\ age' \in 0 .. Far
      BY <1>1, <2>1, <2>3 DEF Far
    <2> QED
      BY <1>1, <1>2, <2>1, <2>2, <2>4, RuleKept DEF TypeOK, Solvent
  <1>6. ASSUME Sweep PROVE TypeOK' /\ Solvent'
    <2>1. known' = FALSE /\ units' = 0 /\ age' = 0 /\ clock' = clock /\ admitted' = admitted
      BY <1>6 DEF Sweep
    <2>2. 0 \in -(Delay * Tokens) .. Full /\ 0 \in 0 .. Far /\ 0 + 0 * Tokens >= 0
      BY <1>1 DEF Far
    <2> QED
      BY <1>2, <2>1, <2>2, RuleKept DEF TypeOK, Solvent
  <1>7. ASSUME Tick PROVE TypeOK' /\ Solvent'
    <2>1. age' \in 0 .. Far /\ age <= age' /\ age \in Nat /\ age' \in Nat /\ units' = units
          /\ known' = known
      BY <1>7 DEF Tick, TypeOK, Far
    <2>2. age * Tokens <= age' * Tokens
      <3>1. age \in Int /\ age' \in Int /\ age <= age' /\ Tokens \in Nat
        BY <1>1, <2>1
      <3> QED
        BY <3>1, Monotone
    <2>3. clock' \in [Requests -> Idle .. Delay]
      BY <1>7 DEF Tick, TypeOK, Idle
    <2>4. admitted' \in [Ages -> Nat]
      <3>1. \A a \in Ages : a # 0 => a - 1 \in Ages
        BY DEF Ages
      <3> QED
        BY <1>7, <3>1 DEF Tick, TypeOK
    <2>5. units \in Int /\ age * Tokens \in Int /\ age' * Tokens \in Int
      <3>1. units \in Int /\ age \in Int /\ age' \in Int /\ Tokens \in Int
        BY <1>1, <2>1 DEF TypeOK
      <3> QED
        BY <3>1
    <2>6. Solvent'
      <3>1. units + age * Tokens >= 0
        BY DEF Solvent
      <3>2. units + age' * Tokens >= 0
        BY <2>2, <2>5, <3>1
      <3> QED
        BY <1>2, <2>1, <3>2, RuleKept DEF Solvent
    <2>7. known \in BOOLEAN /\ units \in -(Delay * Tokens) .. Full
      BY DEF TypeOK
    <2> QED
      BY <1>1, <1>2, <2>1, <2>3, <2>4, <2>6, <2>7, RuleKept DEF TypeOK
  <1>8. CASE UNCHANGED vars
    BY <1>2, <1>8, RuleKept DEF vars, TypeOK, Solvent
  <1> QED
    BY <1>3, <1>4, <1>5, <1>6, <1>7, <1>8 DEF Next

\* The bucket lacks what was let through, however requests overtake each other.
LEMMA EarnedKept == TypeOK /\ Solvent /\ EarnedInv /\ [Next]_vars => EarnedInv'
  <1> SUFFICES ASSUME TypeOK, Solvent, EarnedInv, [Next]_vars PROVE EarnedInv'
    OBVIOUS
  <1> USE LimiterAssumption
  <1>1. /\ Tokens \in Nat \ {0} /\ Full \in Nat /\ Per \in Nat \ {0} /\ Full = Per * Tokens
        /\ Per <= Longest /\ rule \in ParseRateRule /\ units \in Int /\ age \in Nat
    BY RuleType DEF TypeOK, Far
  <1>2. rule' = rule
    BY DEF Next, vars, Arrive, Admit, Refuse, Sweep, Tick
  <1>3. /\ Tokens' = Tokens /\ Per' = Per /\ Full' = Full
    BY <1>2, RuleKept
  <1>4. ASSUME NEW r \in Requests, Arrive(r) PROVE EarnedInv'
    BY <1>3, <1>4 DEF Arrive, EarnedInv
  <1>5. ASSUME NEW r \in Requests, Admit(r) PROVE EarnedInv'
    <2>1. /\ clock[r] \in 0 .. Delay /\ Found(r) \in Int /\ Found(r) <= Full /\ Found(r) >= Per
          /\ ~known => Found(r) = Full
          /\ known => Found(r) = Full \/ Found(r) = units + (age - clock[r]) * Tokens
          /\ units' = Found(r) - Per /\ age' = clock[r] /\ known' = TRUE
      BY <1>5, FoundType DEF Admit, Enough, Touch
    <2>2. SUFFICES ASSUME NEW a \in Ages
                   PROVE  \/ admitted'[a] * Per + units' + age' * Tokens >= Full
                          \/ admitted'[a] * Per + units' + age' * Tokens >= (a + 1) * Tokens
      BY <1>3 DEF EarnedInv
    <2>3. a \in Nat /\ admitted[a] \in Nat
          /\ admitted'[a] = IF a < clock[r] THEN admitted[a] ELSE admitted[a] + 1
      BY <1>5 DEF Admit, TypeOK, Ages
    <2>4. clock[r] * Tokens \in Nat /\ age * Tokens \in Nat /\ admitted[a] * Per \in Nat
          /\ (age - clock[r]) * Tokens = age * Tokens - clock[r] * Tokens
          /\ (admitted[a] + 1) * Per = admitted[a] * Per + Per
      BY <1>1, <2>1, <2>3, Distributes
    <2>5. CASE a < clock[r]
      <3>1. (a + 1) * Tokens <= clock[r] * Tokens
        BY <1>1, <2>1, <2>3, <2>5, Monotone
      <3> QED
        BY <1>1, <2>1, <2>3, <2>4, <2>5, <3>1
    <2>6. CASE ~(a < clock[r]) /\ Found(r) = Full
      BY <1>1, <2>1, <2>3, <2>4, <2>6
    <2>7. CASE ~(a < clock[r]) /\ known /\ Found(r) = units + (age - clock[r]) * Tokens
      <3>1. \/ admitted[a] * Per + units + age * Tokens >= Full
            \/ admitted[a] * Per + units + age * Tokens >= (a + 1) * Tokens
        BY <2>7 DEF EarnedInv
      <3>2. (a + 1) * Tokens \in Int
        BY <1>1, <2>3
      <3> QED
        BY <1>1, <2>1, <2>3, <2>4, <2>7, <3>1, <3>2
    <2> QED
      BY <2>1, <2>5, <2>6, <2>7
  <1>6. ASSUME NEW r \in Requests, Refuse(r) PROVE EarnedInv'
    <2>1. /\ clock[r] \in 0 .. Delay /\ Found(r) \in Int /\ Found(r) <= Full
          /\ ~known => Found(r) = Full
          /\ known => Found(r) = Full \/ Found(r) = units + (age - clock[r]) * Tokens
          /\ units' = Found(r) /\ age' = clock[r] /\ known' = TRUE /\ admitted' = admitted
      BY <1>6, FoundType DEF Refuse, Left, Touch
    <2>2. SUFFICES ASSUME NEW a \in Ages
                   PROVE  \/ admitted[a] * Per + units' + age' * Tokens >= Full
                          \/ admitted[a] * Per + units' + age' * Tokens >= (a + 1) * Tokens
      BY <1>3, <2>1 DEF EarnedInv
    <2>3. a \in Nat /\ admitted[a] \in Nat
      BY DEF TypeOK, Ages
    <2>4. clock[r] * Tokens \in Nat /\ age * Tokens \in Nat /\ admitted[a] * Per \in Nat
          /\ (age - clock[r]) * Tokens = age * Tokens - clock[r] * Tokens
      BY <1>1, <2>1, <2>3, Distributes
    <2>5. CASE Found(r) = Full
      BY <1>1, <2>1, <2>3, <2>4, <2>5
    <2>6. CASE known /\ Found(r) = units + (age - clock[r]) * Tokens
      <3>1. \/ admitted[a] * Per + units + age * Tokens >= Full
            \/ admitted[a] * Per + units + age * Tokens >= (a + 1) * Tokens
        BY <2>6 DEF EarnedInv
      <3>2. (a + 1) * Tokens \in Int
        BY <1>1, <2>3
      <3> QED
        BY <1>1, <2>1, <2>3, <2>4, <2>6, <3>1, <3>2
    <2> QED
      BY <2>1, <2>5, <2>6
  <1>7. ASSUME Sweep PROVE EarnedInv'
    BY <1>7 DEF Sweep, EarnedInv
  <1>8. ASSUME Tick PROVE EarnedInv'
    <2>1. SUFFICES ASSUME known, NEW a \in Ages
                   PROVE  \/ admitted'[a] * Per + units + age' * Tokens >= Full
                          \/ admitted'[a] * Per + units + age' * Tokens >= (a + 1) * Tokens
      BY <1>3, <1>8 DEF Tick, EarnedInv
    <2>2. /\ a \in Nat /\ age' = IF age < Far THEN age + 1 ELSE age
          /\ admitted'[a] = IF a = 0 THEN 0 ELSE admitted[a - 1]
      BY <1>8, <2>1 DEF Tick, Ages
    <2>3. a # 0 => a - 1 \in Ages /\ admitted[a - 1] \in Nat
      BY DEF Ages, TypeOK
    <2>4. units + age * Tokens >= 0 /\ age * Tokens \in Nat
      BY <1>1 DEF Solvent
    <2>5. CASE age < Far
      <3>1. age' * Tokens = age * Tokens + Tokens
        BY <1>1, <2>2, <2>5, Distributes
      <3>2. CASE a = 0
        <4>1. admitted'[a] * Per = 0 /\ (a + 1) * Tokens = Tokens
          BY <1>1, <2>2, <3>2
        <4> QED
          BY <1>1, <2>4, <3>1, <4>1
      <3>3. CASE a # 0
        <4>1. \/ admitted[a - 1] * Per + units + age * Tokens >= Full
              \/ admitted[a - 1] * Per + units + age * Tokens >= ((a - 1) + 1) * Tokens
          BY <2>1, <2>3, <3>3 DEF EarnedInv
        <4>2. (a + 1) * Tokens = ((a - 1) + 1) * Tokens + Tokens /\ a * Tokens \in Int
              /\ admitted[a - 1] * Per \in Int
          BY <1>1, <2>2, <2>3, <3>3, Distributes
        <4> QED
          BY <1>1, <2>2, <2>4, <3>1, <3>3, <4>1, <4>2
      <3> QED
        BY <3>2, <3>3
    <2>6. CASE ~(age < Far)
      <3>1. age \in Int /\ Delay \in Nat /\ Per + Delay <= age /\ age' = age
        BY <1>1, <2>2, <2>6 DEF Far
      <3>2. (Per + Delay) * Tokens <= age * Tokens
        BY <1>1, <3>1, Monotone
      <3>3. (Per + Delay) * Tokens = Full + Delay * Tokens /\ Delay * Tokens \in Int
        BY <1>1, <3>1, Distributes
      <3>4. units >= -(Delay * Tokens)
        BY <3>3 DEF TypeOK
      <3>5. admitted'[a] * Per \in Nat
        <4>1. admitted'[a] \in Nat
          BY <2>2, <2>3
        <4> QED
          BY <1>1, <4>1
      <3> QED
        BY <1>1, <2>4, <3>1, <3>2, <3>3, <3>4, <3>5
    <2> QED
      BY <2>5, <2>6
  <1>9. CASE UNCHANGED vars
    BY <1>3, <1>9 DEF vars, EarnedInv
  <1> QED
    BY <1>4, <1>5, <1>6, <1>7, <1>8, <1>9 DEF Next

\* Every window stays paid for: a touch moves the level of the bucket to another
\* time, a sweep fills it once more, and comes Idled after the one before.
LEMMA WindowKept == LimitInv /\ [Next]_vars => WindowInv'
  <1> SUFFICES ASSUME LimitInv, [Next]_vars PROVE WindowInv'
    OBVIOUS
  <1> USE LimiterAssumption
  <1>0. TypeOK /\ Solvent /\ WindowInv
    BY DEF LimitInv
  <1>1. /\ Tokens \in Nat \ {0} /\ Full \in Nat /\ Per \in Nat \ {0} /\ Per <= Full
        /\ Gift \in Nat /\ Idled \in Nat \ {0} /\ Full - Idled * Tokens <= Gift
        /\ units \in Int /\ age \in Nat
    BY <1>0, RuleType DEF TypeOK, Far
  <1>2. rule' = rule
    BY DEF Next, vars, Arrive, Admit, Refuse, Sweep, Tick
  <1>3. Tokens' = Tokens /\ Per' = Per /\ Full' = Full /\ Gift' = Gift /\ Idled' = Idled
    BY <1>2, RuleKept DEF Idled
  <1>4. SUFFICES ASSUME NEW from \in Ages, NEW to \in Ages, from <= to, Admissions(from, to)' > 0
                 PROVE  \E sweeps, x \in Nat : Spaced(to, sweeps, x)' /\ Paid(from, to, sweeps, x)'
    BY DEF WindowInv
  <1>5. from \in Nat /\ to \in Nat
    BY DEF Ages
  <1> DEFINE n == Admissions(from, to)
  <1>6. n \in Int
    BY <1>0, AdmissionsType
  <1>7. n > 0 => \E sweeps, x \in Nat : Spaced(to, sweeps, x) /\ Paid(from, to, sweeps, x)
    BY <1>0, <1>4 DEF WindowInv
  <1>8. ASSUME NEW r \in Requests, Arrive(r)
        PROVE  \E sweeps, x \in Nat : Spaced(to, sweeps, x)' /\ Paid(from, to, sweeps, x)'
    <2>1. n' = n /\ units' = units /\ age' = age /\ known' = known
      BY <1>8 DEF Arrive, Admissions
    <2>2. PICK sweeps \in Nat, x \in Nat : Spaced(to, sweeps, x) /\ Paid(from, to, sweeps, x)
      BY <1>4, <1>7, <2>1
    <2>3. \A q \in Requests : clock'[q] <= x
      BY <1>0, <1>8, <2>2 DEF Arrive, Spaced, TypeOK
    <2> QED
      BY <1>3, <2>1, <2>2, <2>3 DEF Spaced, Paid
  <1>9. ASSUME NEW r \in Requests, Admit(r)
        PROVE  \E sweeps, x \in Nat : Spaced(to, sweeps, x)' /\ Paid(from, to, sweeps, x)'
    <2>1. /\ clock[r] \in 0 .. Delay /\ Found(r) \in Int /\ Found(r) <= Full
          /\ known => Found(r) <= units + (age - clock[r]) * Tokens
          /\ units' = Found(r) - Per /\ age' = clock[r] /\ known' = TRUE
      BY <1>0, <1>9, FoundType DEF Admit, Enough, Touch
    <2>2. n' = n + (IF from <= clock[r] /\ clock[r] <= to THEN 1 ELSE 0)
      BY <1>0, <1>4, <1>9, AdmitCounts
    <2>3. clock' = [clock EXCEPT ![r] = -1]
      BY <1>9 DEF Admit, Leave, Idle
    <2>4. /\ (age - clock[r]) * Tokens = age * Tokens - clock[r] * Tokens
          /\ (clock[r] - to) * Tokens = clock[r] * Tokens - to * Tokens
          /\ (age - to) * Tokens = age * Tokens - to * Tokens
          /\ age * Tokens \in Int /\ clock[r] * Tokens \in Int /\ to * Tokens \in Int
          /\ n * Per \in Int /\ n' * Per = n * Per + (n' - n) * Per
      BY <1>1, <1>5, <1>6, <2>1, <2>2, Distributes
    <2>5. n' = n \/ (n' = n + 1 /\ clock[r] <= to)
      BY <1>6, <2>2
    <2>6. CASE ~(n > 0)
      <3>1. n' * Per <= Per /\ clock[r] <= to
        <4>1. n' <= 1 /\ clock[r] <= to /\ n' \in Int
          BY <1>4, <1>6, <2>5, <2>6
        <4>2. n' * Per <= 1 * Per
          BY <1>1, <4>1, Monotone
        <4> QED
          BY <1>1, <4>1, <4>2
      <3>2. (clock[r] - to) * Tokens <= 0 * Tokens
        BY <1>1, <1>5, <2>1, <3>1, Monotone
      <3>3. n' * Per + units' + (age' - to) * Tokens <= Full + 0 * Gift
        <4>1. n' * Per \in Int
          BY <1>1, <1>6, <2>5
        <4> QED
          BY <1>1, <2>1, <2>4, <3>1, <3>2, <4>1
      <3>4. Paid(from, to, 0, to + Delay)'
        BY <1>3, <1>5, <2>1, <3>3 DEF Paid
      <3>5. \A q \in Requests : clock'[q] <= to + Delay
        BY <1>0, <1>5, <2>3 DEF TypeOK, Idle
      <3>6. Spaced(to, 0, to + Delay)'
        BY <1>5, <3>5 DEF Spaced
      <3>7. to + Delay \in Nat
        BY <1>5
      <3> QED
        BY <3>4, <3>6, <3>7
    <2>7. CASE n > 0
      <3>1. PICK sweeps \in Nat, x \in Nat : Spaced(to, sweeps, x) /\ Paid(from, to, sweeps, x)
        BY <1>7, <2>7
      <3>2. sweeps * Gift \in Nat /\ clock[r] <= x
        BY <1>1, <3>1 DEF Spaced
      <3>3. n' * Per <= n * Per + Per
        <4>1. n' * Per <= (n + 1) * Per
          <5>1. n' \in Int /\ n + 1 \in Int /\ n' <= n + 1
            BY <1>6, <2>5
          <5> HIDE DEF n
          <5> QED
            BY <1>1, <5>1, Monotone
        <4> HIDE DEF n
        <4> QED
          BY <1>1, <1>6, <4>1, Distributes
      <3>4. n' * Per + units' + (age' - to) * Tokens <= Full + sweeps * Gift
        <4>0. n' * Per \in Int
          BY <1>1, <1>6, <2>5
        <4>1. CASE known
          <5>1. n * Per + units + (age - to) * Tokens <= Full + sweeps * Gift
            BY <3>1, <4>1 DEF Paid
          <5> QED
            BY <1>1, <2>1, <2>4, <3>2, <3>3, <4>0, <4>1, <5>1
        <4>2. CASE ~known
          <5>1. n * Per + (x - to) * Tokens <= sweeps * Gift
            BY <3>1, <4>2 DEF Paid
          <5>2. (clock[r] - to) * Tokens <= (x - to) * Tokens /\ (x - to) * Tokens \in Int
            BY <1>1, <1>5, <2>1, <3>2, Monotone
          <5> QED
            BY <1>1, <2>1, <2>4, <3>2, <3>3, <4>0, <5>1, <5>2
        <4> QED
          BY <4>1, <4>2
      <3>5. \A q \in Requests : clock'[q] <= x
        BY <1>0, <2>3, <3>1 DEF Spaced, TypeOK
      <3> QED
        BY <1>3, <2>1, <3>1, <3>2, <3>4, <3>5 DEF Spaced, Paid
    <2> QED
      BY <2>6, <2>7
  <1>10. ASSUME NEW r \in Requests, Refuse(r)
         PROVE  \E sweeps, x \in Nat : Spaced(to, sweeps, x)' /\ Paid(from, to, sweeps, x)'
    <2>1. /\ clock[r] \in 0 .. Delay /\ Found(r) \in Int /\ Found(r) <= Full
          /\ known => Found(r) <= units + (age - clock[r]) * Tokens
          /\ units' = Found(r) /\ age' = clock[r] /\ known' = TRUE
      BY <1>0, <1>10, FoundType DEF Refuse, Left, Touch
    <2>2. n' = n
      BY <1>10 DEF Refuse, Admissions
    <2>3. clock' = [clock EXCEPT ![r] = -1]
      BY <1>10 DEF Refuse, Leave, Idle
    <2>4. PICK sweeps \in Nat, x \in Nat : Spaced(to, sweeps, x) /\ Paid(from, to, sweeps, x)
      BY <1>4, <1>7, <2>2
    <2>5. /\ (age - clock[r]) * Tokens = age * Tokens - clock[r] * Tokens
          /\ (clock[r] - to) * Tokens = clock[r] * Tokens - to * Tokens
          /\ (age - to) * Tokens = age * Tokens - to * Tokens
          /\ age * Tokens \in Int /\ clock[r] * Tokens \in Int /\ to * Tokens \in Int
          /\ n * Per \in Int
      BY <1>1, <1>5, <1>6, <2>1, Distributes
    <2>6. sweeps * Gift \in Nat /\ clock[r] <= x
      BY <1>1, <2>4 DEF Spaced
    <2>7. n * Per + units' + (age' - to) * Tokens <= Full + sweeps * Gift
      <3>1. CASE known
        <4>1. n * Per + units + (age - to) * Tokens <= Full + sweeps * Gift
          BY <2>4, <3>1 DEF Paid
        <4> QED
          BY <1>1, <2>1, <2>5, <2>6, <3>1, <4>1
      <3>2. CASE ~known
        <4>1. n * Per + (x - to) * Tokens <= sweeps * Gift
          BY <2>4, <3>2 DEF Paid
        <4>2. (clock[r] - to) * Tokens <= (x - to) * Tokens /\ (x - to) * Tokens \in Int
          BY <1>1, <1>5, <2>1, <2>6, Monotone
        <4> QED
          BY <1>1, <2>1, <2>5, <2>6, <4>1, <4>2
      <3> QED
        BY <3>1, <3>2
    <2>8. \A q \in Requests : clock'[q] <= x
      BY <1>0, <2>3, <2>4 DEF Spaced, TypeOK
    <2> QED
      BY <1>3, <2>1, <2>2, <2>4, <2>6, <2>7, <2>8 DEF Spaced, Paid
  <1>11. ASSUME Sweep
         PROVE  \E sweeps, x \in Nat : Spaced(to, sweeps, x)' /\ Paid(from, to, sweeps, x)'
    <2>1. known /\ age > DropAfter /\ clock' = clock /\ n' = n /\ known' = FALSE
      BY <1>1, <1>11 DEF Sweep, IdleFor, Admissions
    <2>2. PICK sweeps \in Nat, x \in Nat : Spaced(to, sweeps, x) /\ Paid(from, to, sweeps, x)
      BY <1>4, <1>7, <2>1
    <2>3. /\ (sweeps + 1) * Idled = sweeps * Idled + Idled /\ sweeps * Idled \in Nat
          /\ (sweeps + 1) * Gift = sweeps * Gift + Gift /\ sweeps * Gift \in Nat
      BY <1>1, <2>2, Distributes
    <2>4. age <= x /\ x > DropAfter
      BY <1>1, <2>1, <2>2 DEF Paid
    <2>5. (sweeps + 1) * Idled <= to - Delay
      <3>1. Idled = DropAfter + 1 - 2 * Delay
        BY DEF Idled
      <3>2. sweeps = 0 => sweeps * Idled = 0
        BY <1>1
      <3> QED
        BY <1>1, <1>5, <2>2, <2>3, <2>4, <3>1, <3>2 DEF Spaced
    <2>6. \A q \in Requests : clock'[q] <= Delay
      BY <1>0, <2>1 DEF TypeOK, Idle
    <2>7. n * Per + (Delay - to) * Tokens <= (sweeps + 1) * Gift
      <3>1. n * Per + units + (age - to) * Tokens <= Full + sweeps * Gift
        BY <2>1, <2>2 DEF Paid
      <3>2. (DropAfter + 1) * Tokens <= age * Tokens
        BY <1>1, <2>1, Monotone
      <3>3. units >= -(Delay * Tokens)
        BY <1>0, <1>1 DEF TypeOK
      <3>4. /\ (age - to) * Tokens = age * Tokens - to * Tokens
            /\ (Delay - to) * Tokens = Delay * Tokens - to * Tokens
            /\ Idled * Tokens = (DropAfter + 1) * Tokens - 2 * (Delay * Tokens)
            /\ age * Tokens \in Int /\ Delay * Tokens \in Int /\ to * Tokens \in Int
            /\ (DropAfter + 1) * Tokens \in Int
        BY <1>1, <1>5, Distributes DEF Idled
      <3>5. n * Per \in Int
        BY <1>1, <1>6
      <3> QED
        BY <1>1, <2>3, <3>1, <3>2, <3>3, <3>4, <3>5
    <2>8. Spaced(to, sweeps + 1, Delay)'
      BY <1>3, <2>5, <2>6 DEF Spaced
    <2>9. Paid(from, to, sweeps + 1, Delay)'
      BY <1>3, <2>1, <2>7 DEF Paid
    <2>10. sweeps + 1 \in Nat /\ Delay \in Nat
      BY <2>2
    <2> QED
      BY <2>8, <2>9, <2>10
  <1>12. ASSUME Tick
         PROVE  \E sweeps, x \in Nat : Spaced(to, sweeps, x)' /\ Paid(from, to, sweeps, x)'
    <2>1. /\ known' = known /\ units' = units
          /\ known => age' = age \/ age' = age + 1
          /\ \A q \in Requests : clock'[q] = IF clock[q] = -1 THEN -1 ELSE clock[q] + 1
      BY <1>12 DEF Tick, Idle
    <2>2. to # 0
      BY <1>0, <1>4, <1>12, TickCounts
    <2> DEFINE start == IF from = 0 THEN 0 ELSE from - 1
    <2>3. /\ start \in Ages /\ to - 1 \in Ages /\ start <= to - 1
          /\ n' = Admissions(start, to - 1)
      BY <1>0, <1>4, <1>5, <1>12, <2>2, TickCounts DEF Ages
    <2>4. PICK sweeps \in Nat, x \in Nat :
            Spaced(to - 1, sweeps, x) /\ Paid(start, to - 1, sweeps, x)
      BY <1>0, <1>4, <2>3 DEF WindowInv
    <2>5. sweeps * Idled \in Nat /\ sweeps * Gift \in Nat
      BY <1>1, <2>4
    <2>6. \A q \in Requests : clock'[q] <= x + 1
      BY <1>0, <2>1, <2>4 DEF Spaced, TypeOK, Idle
    <2>7. Spaced(to, sweeps, x + 1)'
      BY <1>3, <1>5, <2>4, <2>5, <2>6 DEF Spaced
    <2>8. Paid(from, to, sweeps, x + 1)'
      <3>0. n' \in Int /\ n' * Per \in Int
        BY <1>0, <1>1, <2>3, AdmissionsType
      <3>1. CASE known
        <4>1. age <= x /\ n' * Per + units + (age - (to - 1)) * Tokens <= Full + sweeps * Gift
          BY <2>3, <2>4, <3>1 DEF Paid
        <4>2. age' - to <= age - (to - 1) /\ age' \in Int /\ age' <= x + 1
          BY <1>1, <1>5, <2>1, <2>4, <3>1, <4>1
        <4>3. (age' - to) * Tokens <= (age - (to - 1)) * Tokens
              /\ (age' - to) * Tokens \in Int /\ (age - (to - 1)) * Tokens \in Int
          <5>1. age - (to - 1) \in Int /\ age' - to \in Int
            BY <1>1, <1>5, <4>2
          <5> QED
            BY <1>1, <4>2, <5>1, Monotone, Distributes
        <4>4. n' * Per + units + (age' - to) * Tokens <= Full + sweeps * Gift
          BY <1>1, <2>5, <3>0, <4>1, <4>3
        <4> QED
          BY <1>3, <2>1, <3>1, <4>2, <4>4 DEF Paid
      <3>2. CASE ~known
        <4>1. n' * Per + (x - (to - 1)) * Tokens <= sweeps * Gift
          BY <2>3, <2>4, <3>2 DEF Paid
        <4>2. x - (to - 1) = (x + 1) - to
          BY <1>5, <2>4
        <4> QED
          BY <1>3, <2>1, <3>2, <4>1, <4>2 DEF Paid
      <3> QED
        BY <3>1, <3>2
    <2>9. x + 1 \in Nat
      BY <2>4
    <2> QED
      BY <2>7, <2>8, <2>9
  <1>13. CASE UNCHANGED vars
    <2>1. n' = n /\ units' = units /\ age' = age /\ known' = known /\ clock' = clock
      BY <1>13 DEF vars, Admissions
    <2> QED
      BY <1>3, <1>4, <1>7, <2>1 DEF Spaced, Paid
  <1> QED
    BY <1>8, <1>9, <1>10, <1>11, <1>12, <1>13 DEF Next

\* No window comes to hold more than its share.
LEMMA LimitKept == LimitInv /\ [Next]_vars => LimitHolds'
  <1> SUFFICES ASSUME LimitInv, [Next]_vars PROVE LimitHolds'
    OBVIOUS
  <1> USE LimiterAssumption
  <1>0. TypeOK /\ Solvent /\ WindowInv /\ LimitHolds /\ TypeOK'
    BY TypeKept DEF LimitInv
  <1>1. /\ Tokens \in Nat \ {0} /\ Full \in Nat /\ Per \in Nat \ {0}
        /\ Gift \in Nat /\ Idled \in Nat \ {0}
        /\ units \in Int /\ age \in Nat /\ rule \in ParseRateRule
    BY <1>0, RuleType DEF TypeOK, Far
  <1>2. rule' = rule
    BY DEF Next, vars, Arrive, Admit, Refuse, Sweep, Tick
  <1>3. Tokens' = Tokens /\ Per' = Per /\ Full' = Full /\ \A k : GivenAway(k)' = GivenAway(k)
    BY <1>2, RuleKept
  <1>4. SUFFICES ASSUME NEW from \in Ages, NEW to \in Ages, from <= to
                 PROVE  Admissions(from, to)' * Per
                          <= Full + (to - from) * Tokens + GivenAway(to - from)
    BY <1>3 DEF LimitHolds
  <1>5. from \in Nat /\ to \in Nat /\ to - from \in Nat
    BY <1>4 DEF Ages
  <1> DEFINE n == Admissions(from, to)
  <1>6. n \in Int
    BY <1>0, AdmissionsType
  <1>7. n * Per <= Full + (to - from) * Tokens + GivenAway(to - from)
    BY <1>0, <1>4 DEF LimitHolds
  <1>8. CASE n' = n
    BY <1>7, <1>8
  <1>9. ASSUME NEW r \in Requests, Admit(r), n' # n
        PROVE  n' * Per <= Full + (to - from) * Tokens + GivenAway(to - from)
    <2>1. /\ clock[r] \in 0 .. Delay /\ Found(r) \in Int /\ Found(r) <= Full /\ Found(r) >= Per
          /\ ~known => Found(r) = Full
          /\ known => Found(r) <= units + (age - clock[r]) * Tokens
      BY <1>0, <1>9, FoundType DEF Admit, Enough
    <2>2. n' = n + 1 /\ from <= clock[r] /\ clock[r] <= to
      BY <1>0, <1>4, <1>6, <1>9, AdmitCounts
    <2>3. n' * Per = n * Per + Per /\ n * Per \in Int
      <3> HIDE DEF n
      <3> QED
        BY <1>1, <1>6, <2>2, Distributes
    <2>4. (to - from) * Tokens \in Nat /\ GivenAway(to - from) \in Nat
      BY <1>1, <1>5, GivenAwayGrows
    <2>5. CASE ~(n > 0)
      <3>1. n * Per <= 0 * Per
        <4> HIDE DEF n
        <4> QED
          BY <1>1, <1>6, <2>5, Monotone
      <3> QED
        BY <1>1, <2>1, <2>3, <2>4, <3>1
    <2>6. CASE n > 0
      <3>1. PICK sweeps \in Nat, x \in Nat : Spaced(to, sweeps, x) /\ Paid(from, to, sweeps, x)
        BY <1>0, <1>4, <2>6 DEF WindowInv
      <3>2. clock[r] <= x /\ sweeps * Idled \in Nat /\ sweeps * Gift \in Nat
        BY <1>1, <3>1 DEF Spaced
      <3>3. sweeps * Idled <= to - from
        <4>1. CASE sweeps = 0
          BY <1>1, <1>5, <4>1
        <4>2. CASE sweeps * Idled <= to - x
          BY <1>5, <2>1, <2>2, <3>1, <3>2, <4>2
        <4> QED
          BY <3>1, <4>1, <4>2 DEF Spaced
      <3>4. sweeps * Gift <= GivenAway(to - from)
        BY <1>1, <1>5, <3>1, <3>3, GiftsGrow
      <3>5. n * Per + Found(r) + (clock[r] - to) * Tokens <= Full + sweeps * Gift
        <4>1. CASE known
          <5>1. n * Per + units + (age - to) * Tokens <= Full + sweeps * Gift
            BY <3>1, <4>1 DEF Paid
          <5>2. /\ (age - clock[r]) * Tokens = age * Tokens - clock[r] * Tokens
                /\ (clock[r] - to) * Tokens = clock[r] * Tokens - to * Tokens
                /\ (age - to) * Tokens = age * Tokens - to * Tokens
                /\ age * Tokens \in Int /\ clock[r] * Tokens \in Int /\ to * Tokens \in Int
            BY <1>1, <1>5, <2>1, Distributes
          <5> QED
            BY <1>1, <2>1, <2>3, <3>2, <4>1, <5>1, <5>2
        <4>2. CASE ~known
          <5>1. n * Per + (x - to) * Tokens <= sweeps * Gift
            BY <3>1, <4>2 DEF Paid
          <5>2. /\ (clock[r] - to) * Tokens <= (x - to) * Tokens
                /\ (x - to) * Tokens \in Int /\ (clock[r] - to) * Tokens \in Int
            BY <1>1, <1>5, <2>1, <3>2, Monotone
          <5> QED
            BY <1>1, <2>1, <2>3, <3>2, <4>2, <5>1, <5>2
        <4> QED
          BY <4>1, <4>2
      <3>6. (to - clock[r]) * Tokens <= (to - from) * Tokens
        BY <1>1, <1>5, <2>1, <2>2, Monotone
      <3>7. (to - clock[r]) * Tokens = -((clock[r] - to) * Tokens)
            /\ (clock[r] - to) * Tokens \in Int
        BY <1>1, <1>5, <2>1, Distributes
      <3> QED
        BY <1>1, <2>1, <2>3, <2>4, <3>2, <3>4, <3>5, <3>6, <3>7
    <2> QED
      BY <2>5, <2>6
  <1>10. ASSUME Tick PROVE n' * Per <= Full + (to - from) * Tokens + GivenAway(to - from)
    <2>1. (to - from) * Tokens \in Nat /\ GivenAway(to - from) \in Nat
      BY <1>1, <1>5, GivenAwayGrows
    <2>2. CASE to = 0
      <3>1. n' = 0
        BY <1>0, <1>4, <1>10, <2>2, TickCounts
      <3> QED
        BY <1>1, <2>1, <3>1
    <2>3. CASE to # 0 /\ from = 0
      <3>1. n' = Admissions(0, to - 1) /\ 0 \in Ages /\ to - 1 \in Ages /\ 0 <= to - 1
        BY <1>0, <1>4, <1>5, <1>10, <2>3, TickCounts DEF Ages
      <3>2. n' * Per <= Full + (to - 1) * Tokens + GivenAway(to - 1)
        <4>1. to - 1 - 0 = to - 1
          BY <1>5
        <4> QED
          BY <1>0, <3>1, <4>1 DEF LimitHolds
      <3>3. to - 1 \in Nat /\ (to - 1) + 1 = to - from
        BY <1>5, <2>3
      <3>4. GivenAway(to - 1) <= GivenAway(to - from) /\ GivenAway(to - 1) \in Nat
        BY <1>1, <3>3, GivenAwayGrows
      <3>5. (to - 1) * Tokens <= (to - from) * Tokens /\ (to - 1) * Tokens \in Int
        BY <1>1, <1>5, <3>3, Monotone
      <3>6. n' * Per \in Int
        BY <1>0, <1>1, <3>1, AdmissionsType
      <3> QED
        BY <1>1, <2>1, <3>2, <3>4, <3>5, <3>6
    <2>4. CASE to # 0 /\ from # 0
      <3>1. /\ n' = Admissions(from - 1, to - 1)
            /\ from - 1 \in Ages /\ to - 1 \in Ages /\ from - 1 <= to - 1
            /\ (to - 1) - (from - 1) = to - from
        BY <1>0, <1>4, <1>5, <1>10, <2>4, TickCounts DEF Ages
      <3> QED
        BY <1>0, <3>1 DEF LimitHolds
    <2> QED
      BY <2>2, <2>3, <2>4
  <1>11. CASE UNCHANGED admitted
    BY <1>8, <1>11 DEF Admissions
  <1> QED
    BY <1>8, <1>9, <1>10, <1>11 DEF Next, Arrive, Refuse, Sweep, vars

---------------------------------------------------------------------------
LEMMA InvariantHolds == Spec => []LimitInv
  <1>1. LimitInv /\ [Next]_vars => LimitInv'
    BY TypeKept, WindowKept, EarnedKept, LimitKept DEF LimitInv
  <1> QED
    BY LimitStart, <1>1, PTL DEF Spec

\* The bucket never overflows, and owes no more than what the ticks between
\* requests that overtook each other refill (RateLimiter.allow).
THEOREM TypeCorrect == Spec => []TypeOK
  <1>1. LimitInv => TypeOK
    BY DEF LimitInv
  <1> QED
    BY InvariantHolds, <1>1, PTL

\* No window of any length lets more requests through than a burst, the rule's
\* share of it and the full buckets that sweeps leave behind in it, in whatever
\* order overlapping requests take the mutex (RateLimiter.allow, Sweep).
THEOREM LimitIsKept == Spec => []LimitHolds
  <1>1. LimitInv => LimitHolds
    BY DEF LimitInv
  <1> QED
    BY InvariantHolds, <1>1, PTL

\* Whoever gets a 429 has had what the rule grants in the Per time before, but
\* for the refill that an overtaken request's wait may have cost it.
THEOREM RefusalsAreEarned == Spec => RefusalIsEarned
  <1> DEFINE Earned(r) == Admissions(0, Per + Delay) * Per > Full - Per - Delay * Tokens
  <1>1. ASSUME LimitInv, NEW r \in Requests, Refuse(r) PROVE Earned(r)
    <2> USE LimiterAssumption
    <2>1. /\ TypeOK /\ Solvent /\ EarnedInv
          /\ Tokens \in Nat \ {0} /\ Full \in Nat /\ Per \in 1 .. Longest /\ Per \in Nat
          /\ Per <= Full /\ Full = Per * Tokens /\ units \in Int /\ age \in Nat
      BY <1>1, RuleType DEF LimitInv, TypeOK, Far
    <2>2. /\ clock[r] \in 0 .. Delay /\ Found(r) \in Int /\ Found(r) < Per
          /\ ~known => Found(r) = Full
          /\ known => Found(r) = Full \/ Found(r) = units + (age - clock[r]) * Tokens
      BY <1>1, <2>1, FoundType DEF Refuse, Enough
    <2>3. known /\ Found(r) = units + (age - clock[r]) * Tokens
      BY <2>1, <2>2
    <2>4. Per + Delay \in Ages /\ Admissions(0, Per + Delay) = admitted[Per + Delay]
          /\ admitted[Per + Delay] \in Nat
      BY <2>1 DEF Ages, Admissions, TypeOK
    <2>5. \/ admitted[Per + Delay] * Per + units + age * Tokens >= Full
          \/ admitted[Per + Delay] * Per + units + age * Tokens >= ((Per + Delay) + 1) * Tokens
      BY <2>1, <2>3, <2>4 DEF EarnedInv
    <2>6. ((Per + Delay) + 1) * Tokens = Full + Delay * Tokens + Tokens /\ Delay * Tokens \in Nat
      BY <2>1, Distributes
    <2>7. /\ (age - clock[r]) * Tokens = age * Tokens - clock[r] * Tokens
          /\ clock[r] * Tokens <= Delay * Tokens /\ clock[r] * Tokens \in Int
          /\ age * Tokens \in Int /\ admitted[Per + Delay] * Per \in Int
      BY <2>1, <2>2, <2>4, Distributes, Monotone
    <2> QED
      BY <2>1, <2>2, <2>3, <2>4, <2>5, <2>6, <2>7
  <1>2. LimitInv /\ [Next]_vars => [\A r \in Requests : Refuse(r) => Earned(r)]_vars
    BY <1>1
  <1> QED
    BY InvariantHolds, <1>2, PTL DEF Spec, RefusalIsEarned
=============================================================================
