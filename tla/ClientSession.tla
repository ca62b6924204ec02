--------------------------- MODULE ClientSession ---------------------------
(***************************************************************************)
(* The session of one browser tab (assets/app.ts and assets/app-ui/Auth):  *)
(* the bootstrap, the single-flight refresh, its timer and its retries,    *)
(* login, logout and the calls of authFetch.                               *)
(*                                                                         *)
(* JavaScript runs to its next await: each step is the code between two    *)
(* awaits.  What the server answers is left open, except that an outage    *)
(* that has begun fails every call from then on.                           *)
(***************************************************************************)
EXTENDS Naturals

CONSTANTS
    Fetches,        \* calls of authFetch that may be in flight
    MaxRetries      \* MAX_RETRIES

ASSUME SessionAssumption == MaxRetries \in Nat \ {0}

VARIABLES
    page,           \* "loading", "restoring" (bootstrap awaits), "mounted"
    hint,           \* the gk_session cookie is there
    auth,           \* isAuthenticated, user and the access token: set together
    timers,         \* timeouts that have not fired; refreshTimer is the last
    inFlight,       \* inFlight # null
    posts,          \* POST /auth/refresh calls that have not been answered
    retries,        \* retries
    login, logout,  \* a login or a logout has been sent
    fetch,          \* where each call of authFetch is
    outage          \* the server has gone away for good

memory == <<auth, timers, inFlight, posts, retries>>
calls == <<login, logout, fetch>>
vars == <<page, hint, memory, calls, outage>>

---------------------------------------------------------------------------
(* state.ts: the timer. *)

\* clearRefreshTimer, as the timeouts that are left.  Only armRefreshTimer sets
\* one, and clears the one before: refreshTimer is always the only one.
Cleared == 0

\* armRefreshTimer.
Arm == timers' = Cleared + 1

ClearAuth == auth' = FALSE /\ timers' = Cleared

---------------------------------------------------------------------------
(* refresh.ts. *)

\* The single-flight guard.
BadJoins == posts > 1
Joins == inFlight

\* refresh(): join the rotation that is in flight, or start one.
Refresh ==
    /\ inFlight' = TRUE
    /\ posts' = IF Joins THEN posts ELSE posts + 1

\* What an authFetch does with the result of its refresh: it repeats the call,
\* or returns the 401.
BadAfterRefresh(good) == IF good THEN "again" ELSE "await"
AfterRefresh(good) == IF good THEN "again" ELSE "idle"

\* finally: inFlight = null, and whoever awaits the promise goes on.
Settle(good) ==
    /\ posts' = posts - 1 /\ inFlight' = FALSE
    /\ fetch' = [f \in Fetches |->
                   IF fetch[f] = "await" THEN AfterRefresh(good) ELSE fetch[f]]
    /\ page' = IF page = "restoring" THEN "mounted" ELSE page
    /\ UNCHANGED <<login, logout, outage>>

\* 200 with a usable body.
BadArmOnSession == UNCHANGED timers
ArmOnSession == Arm

RefreshSucceeds ==
    /\ posts > 0 /\ ~outage
    /\ Settle(TRUE)
    /\ retries' = 0 /\ auth' = TRUE /\ hint' = TRUE
    /\ ArmOnSession

\* 401: the reply has cleared the cookies, clearSessionHint and clearAuth.
RefreshDenied ==
    /\ posts > 0 /\ ~outage
    /\ Settle(FALSE)
    /\ retries' = 0 /\ hint' = FALSE /\ ClearAuth

\* onTransientFailure: a 5xx, a network error, or a malformed body, whose reply
\* has set the cookies.
BadBudgetLeft == retries <= MaxRetries
BudgetLeft == retries < MaxRetries

BadCounted == retries
Counted == retries + 1

RefreshMisses ==
    /\ posts > 0
    /\ Settle(FALSE)
    /\ \/ auth /\ BudgetLeft /\ retries' = Counted /\ Arm /\ UNCHANGED auth
       \/ ~(auth /\ BudgetLeft) /\ retries' = 0 /\ ClearAuth
    /\ UNCHANGED hint \/ hint' = TRUE

\* The timer, of scheduleRefresh or of scheduleRetry, runs out.
TimerFires ==
    /\ timers > 0 /\ timers' = timers - 1
    /\ Refresh
    /\ UNCHANGED <<page, hint, auth, retries, calls, outage>>

---------------------------------------------------------------------------
(* app.ts: bootstrap restores a session before it mounts the router. *)

Bootstrap ==
    /\ page = "loading"
    /\ \/ hint /\ page' = "restoring" /\ Refresh
       \/ ~hint /\ page' = "mounted" /\ UNCHANGED <<inFlight, posts>>
    /\ UNCHANGED <<hint, auth, timers, retries, calls, outage>>

\* A reload loses everything but the cookies; replies to the old page are lost.
Reload ==
    /\ page # "loading"
    /\ page' = "loading"
    /\ auth' = FALSE /\ timers' = 0 /\ inFlight' = FALSE /\ posts' = 0 /\ retries' = 0
    /\ login' = FALSE /\ logout' = FALSE /\ fetch' = [f \in Fetches |-> "idle"]
    /\ UNCHANGED <<hint, outage>>

---------------------------------------------------------------------------
(* login.ts and logout.ts.  The login page is open to all (authGuard keeps *)
(* guests out of other pages, but nobody out of this one).                 *)

Login ==
    /\ page = "mounted" /\ ~login
    /\ login' = TRUE
    /\ UNCHANGED <<page, hint, memory, logout, fetch, outage>>

\* 200: the reply has set the cookies.
LoginSucceeds ==
    /\ login /\ login' = FALSE /\ ~outage
    /\ auth' = TRUE /\ Arm /\ hint' = TRUE
    /\ UNCHANGED <<page, inFlight, posts, retries, logout, fetch, outage>>

\* Any other answer, or none, goes to the login form.
LoginMisses ==
    /\ login /\ login' = FALSE
    /\ UNCHANGED <<page, hint, memory, logout, fetch, outage>>

Logout ==
    /\ page = "mounted" /\ auth /\ ~logout
    /\ logout' = TRUE
    /\ UNCHANGED <<page, hint, memory, login, fetch, outage>>

\* finally: whatever became of the POST.
LogoutReply ==
    /\ logout /\ logout' = FALSE
    /\ ClearAuth /\ hint' = FALSE
    /\ UNCHANGED <<page, inFlight, posts, retries, login, fetch, outage>>

---------------------------------------------------------------------------
(* authFetch.ts. *)

Goto(f, step) == fetch' = [fetch EXCEPT ![f] = step]

Fetch(f) ==
    /\ page = "mounted" /\ fetch[f] = "idle"
    /\ Goto(f, "first")
    /\ UNCHANGED <<page, hint, memory, login, logout, outage>>

\* Anything but a 401 goes to the caller, a 401 waits for a refresh.
FetchReply(f) ==
    /\ fetch[f] = "first"
    /\ \/ Goto(f, "idle") /\ UNCHANGED <<inFlight, posts>>
       \/ Goto(f, "await") /\ Refresh
    /\ UNCHANGED <<page, hint, auth, timers, retries, login, logout, outage>>

\* The second answer is final.
FetchAgainReply(f) ==
    /\ fetch[f] = "again"
    /\ Goto(f, "idle")
    /\ UNCHANGED <<page, hint, memory, login, logout, outage>>

---------------------------------------------------------------------------
OutageBegins ==
    /\ ~outage /\ outage' = TRUE
    /\ UNCHANGED <<page, hint, memory, calls>>

Init ==
    /\ page = "loading" /\ hint \in BOOLEAN
    /\ auth = FALSE /\ timers = 0 /\ inFlight = FALSE /\ posts = 0 /\ retries = 0
    /\ login = FALSE /\ logout = FALSE /\ fetch = [f \in Fetches |-> "idle"]
    /\ outage = FALSE

RefreshReply == RefreshSucceeds \/ RefreshDenied \/ RefreshMisses
LoginReply == LoginSucceeds \/ LoginMisses

Next ==
    \/ RefreshReply \/ TimerFires \/ Bootstrap \/ Reload
    \/ Login \/ LoginReply \/ Logout \/ LogoutReply
    \/ \E f \in Fetches : Fetch(f) \/ FetchReply(f) \/ FetchAgainReply(f)
    \/ OutageBegins

Spec == Init /\ [][Next]_vars

---------------------------------------------------------------------------
(* Properties. *)

\* The tab's variables are well formed, and the retries stay in their budget.
TypeOK ==
    /\ page \in {"loading", "restoring", "mounted"}
    /\ hint \in BOOLEAN /\ auth \in BOOLEAN /\ inFlight \in BOOLEAN
    /\ login \in BOOLEAN /\ logout \in BOOLEAN /\ outage \in BOOLEAN
    /\ timers \in Nat /\ posts \in Nat
    /\ retries \in 0 .. MaxRetries
    /\ fetch \in [Fetches -> {"idle", "first", "await", "again"}]

\* Bootstrap, timer, retries and 401s share one rotation: two would present the
\* same cookie, which the server takes for a theft (refresh.ts:61).
OneRotation == posts <= 1

\* Whoever is shown as signed in is renewed before the access token expires: a
\* timer is armed or a rotation is on its way, whatever login, logout, 401s
\* and failures did in between.
SessionIsTended == auth => timers + posts > 0

\* A server that is gone is not retried for ever: the budget runs out, however
\* many other calls ask for a refresh meanwhile, and the tab signs out.
GivesUp == outage ~> ~auth

\* Every call of authFetch comes back to its caller.
FetchesReturn == \A f \in Fetches : fetch[f] # "idle" ~> fetch[f] = "idle"

\* A session is looked after: one rotation at a time, and a timer or a rotation
\* whenever the tab is signed in, whatever login, logout, 401s and failures did
\* in between (refresh.ts:61).
Tended == OneRotation /\ SessionIsTended

\* The application is shown, if only to a guest, however the restoring ends.
BootstrapEnds == page # "mounted" ~> page = "mounted"

\* The retries of an outage come to an end, and so does all that waits for a
\* refresh: the calls of authFetch and the bootstrap.
WaitingEnds == GivesUp /\ FetchesReturn /\ BootstrapEnds
=============================================================================
