---------------------------- MODULE RateLimiter ----------------------------
(***************************************************************************)
(* The per-IP token bucket in front of login and refresh, and its janitor  *)
(* (app/presentation/http/middleware/ratelimit.go).                        *)
(*                                                                         *)
(* Buckets of different addresses share nothing but the mutex, so this is  *)
(* the bucket of one address.  Requests read the clock before they take    *)
(* the mutex, so they may be decided in another order than they arrived.   *)
(* A token is Per units here and a tick refills Tokens units: the float64  *)
(* arithmetic is exact.  Instants are kept as distances from now.  A rule  *)
(* of no tokens switches the limiter off, and there is nothing to model.   *)
(***************************************************************************)
EXTENDS Integers

CONSTANTS
    Requests,       \* requests of the address that wait for the mutex at once
    Specs,          \* what the configuration may say
    Longest,        \* bound on the Per of a rule
    DropAfter,      \* janitorDropAfter
    Delay           \* bound on the wait between the clock and the mutex

ASSUME LimiterAssumption ==
    /\ Longest \in Nat /\ Specs \subseteq [tokens : Int, per : 1 .. Longest]
    /\ DropAfter \in Nat /\ Delay \in Nat /\ 2 * Delay <= DropAfter

VARIABLES
    rule,       \* the rule in force, from the start of the process on
    known,      \* the map has a bucket for the address
    units,      \* its tokens, in units
    age,        \* now minus its updatedAt
    clock,      \* now minus the time a waiting request has read; -1 when idle
    admitted    \* history: how many were let through that read the clock at most so
                \* many ticks ago

vars == <<rule, known, units, age, clock, admitted>>

\* ParseRateRule refuses the rest, and the process does not start.
ParseRateRule == {spec \in Specs : spec.tokens > 0}

Tokens == rule.tokens
Per == rule.per
Full == Tokens * Per

\* No clamp and no janitor can tell an age beyond this from a greater one.
Far == DropAfter + Longest + 2 * Delay + 1
Idle == -1
Ages == 0 .. Longest + Delay
Waiting == {r \in Requests : clock[r] # Idle}

---------------------------------------------------------------------------
\* The middleware calls allow(ip, time.Now()).
Arrive(r) ==
    /\ clock[r] = Idle
    /\ clock' = [clock EXCEPT ![r] = 0]
    /\ UNCHANGED <<rule, known, units, age, admitted>>

\* The refill of a known bucket for a request that has read the clock a while
\* ago; the time since the last update comes out negative when requests
\* overtake each other.
BadClamp(u) == u
Clamp(u) == IF u > Full THEN Full ELSE u
Refilled(ago) == Clamp(units + (age - ago) * Tokens)

\* The tokens a request finds, which is a full bucket when there is none.
Found(r) == IF known THEN Refilled(clock[r]) ELSE Full

Leave(r) == clock' = [clock EXCEPT ![r] = Idle]

Touch(r) == known' = TRUE /\ age' = clock[r]

Enough(u) == u >= Per

Admit(r) ==
    /\ clock[r] # Idle
    /\ Enough(Found(r))
    /\ units' = Found(r) - Per
    /\ admitted' = [a \in Ages |-> IF a < clock[r] THEN admitted[a] ELSE admitted[a] + 1]
    /\ Touch(r) /\ Leave(r) /\ UNCHANGED rule

\* 429: nothing is taken from the bucket.
BadLeft(r) == Found(r) - Per
Left(r) == Found(r)

Refuse(r) ==
    /\ clock[r] # Idle
    /\ ~Enough(Found(r))
    /\ units' = Left(r)
    /\ Touch(r) /\ Leave(r)
    /\ UNCHANGED <<rule, admitted>>

\* The janitor works with the time of its tick, which may be a little old.
BadIdleFor(lag) == age - lag >= 0
IdleFor(lag) == age - lag > DropAfter

Sweep ==
    /\ known /\ \E lag \in 0 .. Delay : IdleFor(lag)
    /\ known' = FALSE /\ units' = 0 /\ age' = 0
    /\ UNCHANGED <<rule, clock, admitted>>

\* Every instant moves one tick into the past.
Tick ==
    /\ \A r \in Requests : clock[r] < Delay
    /\ age' = IF known /\ age < Far THEN age + 1 ELSE age
    /\ clock' = [r \in Requests |-> IF clock[r] = Idle THEN Idle ELSE clock[r] + 1]
    /\ admitted' = [a \in Ages |-> IF a = 0 THEN 0 ELSE admitted[a - 1]]
    /\ UNCHANGED <<rule, known, units>>

Init ==
    /\ rule \in ParseRateRule
    /\ known = FALSE /\ units = 0 /\ age = 0
    /\ clock = [r \in Requests |-> Idle]
    /\ admitted = [a \in Ages |-> 0]

Next ==
    \/ \E r \in Requests : Arrive(r) \/ Admit(r) \/ Refuse(r)
    \/ Sweep \/ Tick

Spec == Init /\ [][Next]_vars

---------------------------------------------------------------------------
(* Properties. *)

\* Requests let through that read the clock from .. to ticks ago.
Admissions(from, to) == admitted[to] - (IF from = 0 THEN 0 ELSE admitted[from - 1])

\* The bucket never overflows; requests that overtake each other may leave it
\* below zero by what the ticks between them refill.
TypeOK ==
    /\ rule \in ParseRateRule /\ known \in BOOLEAN
    /\ units \in -(Delay * Tokens) .. Full
    /\ age \in 0 .. Far
    /\ clock \in [Requests -> Idle .. Delay]
    /\ admitted \in [Ages -> Nat]

\* What sweeps give away in a window: a bucket that is dropped comes back full,
\* which with a rule over more than DropAfter it could not have become by itself.
\* A sweep comes more than DropAfter after the request that touched the bucket,
\* which may have overtaken a later one, and before one that may wait already.
Idled == DropAfter + 1 - 2 * Delay
Gift == IF Idled * Tokens < Full THEN Full - Idled * Tokens ELSE 0
GivenAway(length) == (length \div Idled) * Gift

\* Tokens requests in Per time, after a burst of Tokens: no window lets more
\* through, in whatever order overlapping requests take the mutex; what the
\* janitor sweeps meanwhile costs nothing, or no more than a burst in DropAfter
\* time when the rule is longer than that (ratelimit.go:179).
LimitHolds ==
    \A from, to \in Ages :
        from <= to => Admissions(from, to) * Per
                        <= Full + (to - from) * Tokens + GivenAway(to - from)

\* A refusal is earned, and refusals do not prolong themselves: the bucket was
\* emptied by what was let through in the Per time before.  A request that was
\* overtaken may miss the tokens its wait would have refilled, and no more.
RefusalIsEarned ==
    [][\A r \in Requests : Refuse(r) =>
          Admissions(0, Per + Delay) * Per > Full - Per - Delay * Tokens]_vars
=============================================================================
