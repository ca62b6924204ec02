-------------------------- MODULE SessionAndServer --------------------------
(***************************************************************************)
(* A tab and its server: ClientSession, whose calls are answered by        *)
(* TokenRotation, over a network that loses calls and replies.             *)
(*                                                                         *)
(* Each step is one of the tab, one statement of the server, or a reply,   *)
(* which is a step of both.  The cookies belong to the browser: they       *)
(* change when a reply comes in, whatever page is there by then.           *)
(***************************************************************************)
EXTENDS ClientSession, FiniteSets

CONSTANTS
    Account,        \* the user of the browser
    Browser,
    Tokens,         \* numbers, in the order they are minted
    Calls, NoToken, NoUser,
    MaxTroubles     \* bound on all that goes wrong: see Trouble

ASSUME SystemAssumption ==
    /\ Tokens = 1 .. Cardinality(Tokens) /\ Calls \subseteq Nat
    /\ NoToken \notin Tokens /\ NoUser # Account /\ MaxTroubles \in Nat

VARIABLES
    users, row, expired, about, jar, call, faults, answered, denied, revoked,
    sent,       \* what the page awaits of a call to the server
    bare,       \* refreshes that were sent without a cookie
    troubles,   \* how much has gone wrong
    excused     \* history: something has happened to this session since its
                \* login after which it may be lost

server == <<users, row, expired, about, jar, call, faults, answered, denied, revoked>>
system == <<vars, server, sent, bare, troubles, excused>>

Server == INSTANCE TokenRotation
            WITH Users <- {Account}, Browsers <- {Browser}, Events <- {"lose", "logout"},
                 MaxFaults <- MaxTroubles

Cookie == jar[Browser]
Awaited(what) == {c \in Calls : sent[c] = what}
Await(c, what) == sent' = [sent EXCEPT ![c] = what]

\* The server is at work on the call, or its reply is on the way.
Pending(c) == call[c].pc # "idle"
Unused == {c \in Calls : ~Pending(c) /\ sent[c] = "nothing"}
Free(c) == c \in Unused /\ \A d \in Unused : c <= d

\* A reload, a lost reply, a logout elsewhere, a login over another one, an
\* outage; and a statement that fails, which the server counts.
Trouble == troubles + faults < MaxTroubles /\ troubles' = troubles + 1

---------------------------------------------------------------------------
(* Calls.  Any may be lost on its way. *)

\* The cookie that goes along is the one the browser has now.
PostRefresh ==
    \/ UNCHANGED <<server, sent, bare>>
    \/ Cookie = NoToken /\ bare' = bare + 1 /\ UNCHANGED <<server, sent>>
    \/ \E c \in Calls :
         Free(c) /\ Server!Send(c, Browser) /\ Await(c, "refresh") /\ UNCHANGED bare

\* The timer, the bootstrap and the calls that got a 401 ask for a refresh,
\* which joins the one in flight or posts one.
Asks(step) ==
    /\ step
    /\ IF posts' > posts THEN PostRefresh ELSE UNCHANGED <<server, sent, bare>>
    /\ UNCHANGED <<troubles, excused>>

SendLogin ==
    /\ Login /\ IF auth \/ \E c \in Calls : Pending(c) THEN Trouble ELSE UNCHANGED troubles
    /\ \/ UNCHANGED <<server, sent>>
       \/ \E c \in Calls : Free(c) /\ Server!Login(c, Browser, Account) /\ Await(c, "login")
    /\ UNCHANGED <<bare, excused>>

SendLogout ==
    /\ Logout
    /\ \/ UNCHANGED <<server, sent>>
       \/ \E c \in Calls : Free(c) /\ Server!SendLogout(c, Browser, Account) /\ Await(c, "logout")
    /\ excused' = TRUE
    /\ UNCHANGED <<bare, troubles>>

---------------------------------------------------------------------------
(* Replies. *)

\* A 200 whose body is cut off has brought its cookies.
RefreshReplied(c) ==
    /\ sent[c] = "refresh" /\ Await(c, "nothing")
    /\ \/ Server!Granted(c) /\ Cookie' = call[c].new
          /\ (RefreshSucceeds \/ RefreshMisses) /\ hint'
       \/ Server!Denied(c) /\ Cookie' = NoToken /\ RefreshDenied
    /\ UNCHANGED <<bare, troubles, excused>>

\* "missing refresh token": a 401 that clears no cookie.
NoCookie ==
    /\ bare > 0 /\ bare' = bare - 1
    /\ RefreshDenied
    /\ UNCHANGED <<server, sent, troubles, excused>>

\* The page gives up on a call: it was answered by a 5xx, or its reply will
\* never arrive, which is a trouble unless the server has gone anyway.
GivesUpOn(c) ==
    /\ Await(c, "nothing")
    /\ IF Pending(c) /\ ~outage THEN Trouble ELSE UNCHANGED troubles

\* ... or it never reached the server.
RefreshBreaks ==
    /\ RefreshMisses /\ UNCHANGED hint
    /\ \/ \E c \in Awaited("refresh") :
            GivesUpOn(c) /\ excused' = (excused \/ Pending(c)) /\ UNCHANGED bare
       \/ posts > bare + Cardinality(Awaited("refresh"))
          /\ UNCHANGED <<sent, bare, troubles, excused>>
       \/ bare > 0 /\ bare' = bare - 1 /\ UNCHANGED <<sent, troubles, excused>>
    /\ UNCHANGED server

\* A login begins a session of its own, unless calls of the last one are about
\* (the 401 of a refresh that was sent before the login ends it) or the new one
\* has been ended while the reply was on its way.
FreshStart(c) ==
    /\ ~logout /\ \A d \in Calls \ {c} : ~Pending(d)
    /\ Server!Usable(call[c].new)

LoginReplied(c) ==
    /\ sent[c] = "login" /\ Await(c, "nothing")
    /\ Server!Granted(c) /\ Cookie' = call[c].new
    /\ LoginSucceeds
    /\ excused' = (posts > 0 \/ (excused /\ ~FreshStart(c)))
    /\ UNCHANGED <<bare, troubles>>

LoginBreaks ==
    /\ LoginMisses
    /\ \/ \E c \in Awaited("login") : GivesUpOn(c)
       \/ Awaited("login") = {} /\ UNCHANGED <<sent, troubles>>
    /\ UNCHANGED <<server, bare, excused>>

LogoutReplied(c) ==
    /\ sent[c] = "logout" /\ Await(c, "nothing")
    /\ Server!Denied(c) /\ Cookie' = NoToken
    /\ LogoutReply
    /\ UNCHANGED <<bare, troubles, excused>>

LogoutBreaks ==
    /\ LogoutReply
    /\ \/ \E c \in Awaited("logout") : GivesUpOn(c)
       \/ Awaited("logout") = {} /\ UNCHANGED <<sent, troubles>>
    /\ UNCHANGED <<server, bare, excused>>

\* The page that sent the call has gone, or has given up on it: the browser
\* takes the cookies of the reply, or the reply is lost.
Orphaned(c) ==
    /\ sent[c] = "nothing"
    /\ Server!Granted(c) \/ Server!Denied(c)
    /\ \/ Cookie' = (IF call[c].pc = "granted" THEN call[c].new ELSE NoToken)
          /\ hint' = (Cookie' # NoToken)
       \/ UNCHANGED <<jar, hint>>
    /\ UNCHANGED <<page, memory, calls, outage, sent, bare, troubles, excused>>

---------------------------------------------------------------------------
(* Steps of one side alone. *)

Leave ==
    /\ Reload /\ Trouble
    /\ sent' = [c \in Calls |-> "nothing"] /\ bare' = 0
    /\ excused' = (excused \/ \E c \in Awaited("refresh") : Pending(c))
    /\ UNCHANGED server

TabAlone ==
    /\ \/ (\E f \in Fetches : Fetch(f) \/ FetchAgainReply(f)) /\ UNCHANGED troubles
       \/ OutageBegins /\ Trouble
    /\ UNCHANGED <<server, sent, bare, excused>>

InOrder == \A t \in Server!Minted : 1 .. t \subseteq Server!Minted

Handles(c) ==
    /\ \/ Server!FindByHash(c) \/ Server!FindByID(c) \/ Server!SaveNew(c) \/ Server!MarkUsed(c)
       \/ Server!Revoke(c) \/ Server!LoginSave(c) \/ Server!Logout(c) \/ Server!Fail(c)
    /\ InOrder' /\ troubles + faults' <= MaxTroubles
    /\ UNCHANGED <<vars, sent, bare, troubles, excused>>

\* The user logs out on another device, which ends every session.
EndsElsewhere ==
    /\ Trouble /\ \E t \in Tokens : row[t] # "absent"
    /\ Server!DeleteByUserID(Account)
    /\ revoked' = revoked \cup Server!Families(Account)
    /\ excused' = TRUE
    /\ UNCHANGED <<vars, users, expired, about, jar, call, faults, answered, denied, sent, bare>>

---------------------------------------------------------------------------
SystemInit ==
    /\ Init /\ Server!Init
    /\ sent = [c \in Calls |-> "nothing"] /\ bare = 0 /\ troubles = 0 /\ excused = FALSE

RefreshEnds == NoCookie \/ RefreshBreaks \/ \E c \in Calls : RefreshReplied(c)
LoginEnds == LoginBreaks \/ \E c \in Calls : LoginReplied(c)
LogoutEnds == LogoutBreaks \/ \E c \in Calls : LogoutReplied(c)

SystemNext ==
    \/ Asks(TimerFires) \/ Asks(Bootstrap) \/ \E f \in Fetches : Asks(FetchReply(f))
    \/ SendLogin \/ SendLogout
    \/ RefreshEnds \/ LoginEnds \/ LogoutEnds
    \/ \E c \in Calls : Handles(c) \/ Orphaned(c)
    \/ Leave \/ TabAlone \/ EndsElsewhere

SystemSpec == SystemInit /\ [][SystemNext]_system

\* Timers run out, calls end, if only by an error, and the server goes on with
\* what it has begun.  The user owes nothing.
FairSystem ==
    /\ SystemSpec
    /\ WF_system(RefreshEnds) /\ WF_system(LoginEnds) /\ WF_system(LogoutEnds)
    /\ WF_system(Asks(TimerFires)) /\ WF_system(Asks(Bootstrap))
    /\ \A f \in Fetches : WF_system(Asks(FetchReply(f)))
                         /\ WF_system(FetchAgainReply(f) /\ TabAlone)
    /\ \A c \in Calls : WF_system(Handles(c))

---------------------------------------------------------------------------
(* Properties. *)

\* Both sides are well formed, and what the page awaits of the server are
\* calls that it has made.
SystemTypeOK ==
    /\ TypeOK /\ Server!TypeOK
    /\ sent \in [Calls -> {"nothing", "refresh", "login", "logout"}]
    /\ bare + Cardinality(Awaited("refresh")) <= posts
    /\ Awaited("login") # {} => login
    /\ Awaited("logout") # {} => logout
    /\ troubles + faults <= MaxTroubles

\* The browser has a usable refresh token, or is about to get one.
SessionLives ==
    \/ Cookie # NoToken /\ Server!Usable(Cookie)
    \/ \E c \in Calls : call[c].pc = "granted" /\ Server!Usable(call[c].new)

\* Whoever is shown as signed in is signed in with the server: the tab's own
\* calls are never taken for a theft ("the backend's compare-and-swap treats
\* as token theft", refresh.ts:63), however its timer, its retries, its 401s and
\* a second login fall together, unless a reply was lost or the session ended.
SessionIsReal == auth /\ ~excused => SessionLives

\* A tab is signed out only for cause: a logout, here or elsewhere, a reply of
\* the server that was lost, a reload, or a budget of retries that is spent, and
\* then the hint stays for the next page load ("a momentary 5xx / offline blip
\* during a mid-session refresh must NOT log the user out", refresh.ts:47).
StaysSignedIn ==
    [][auth /\ ~auth' =>
         excused \/ page' = "loading" \/ (retries = MaxRetries /\ hint')]_system

\* A tab that shows a session which the server has ended finds out, even when
\* a late reply has signed it in again after its logout.
GhostsEnd == auth /\ ~SessionLives ~> ~auth \/ SessionLives
=============================================================================
