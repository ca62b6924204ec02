----------------------- MODULE SessionAndServerProofs -----------------------
(***************************************************************************)
(* Theorems about SessionAndServer for any number of tokens, calls, calls  *)
(* of authFetch and troubles, and any budget of retries.  No fairness is   *)
(* used: these are what a tab and its server never do to each other.       *)
(***************************************************************************)
EXTENDS SessionAndServer, FiniteSetTheorems, TLAPS

Rotates(c) == call[c].pc \in {"find", "user", "save", "mark"}
Fetched(c) == call[c].pc \in {"mark", "granted"}

\* What the server keeps: a row, a cookie and a call that rotates are of tokens
\* that were minted, and nothing expires.
ServerInv ==
    /\ Server!TypeOK
    /\ users = {Account} /\ expired = {}
    /\ \A t \in Tokens : row[t] # "absent" => t \in Server!Minted
    /\ Cookie # NoToken => Cookie \in answered
    /\ answered \subseteq Server!Minted

\* What a call presents has been answered, and what it has minted is its own and
\* has not.
CallInv ==
    /\ \A c \in Calls :
         /\ Rotates(c) => call[c].old \in answered /\ call[c].user = Account
         /\ Fetched(c) => call[c].new \in Server!Minted \ answered
    /\ \A c, d \in Calls :
         Fetched(c) /\ Fetched(d) /\ call[c].new = call[d].new => c = d

\* The tab: what is true or false, and the rest of its shape.
Flags == /\ hint \in BOOLEAN /\ auth \in BOOLEAN /\ inFlight \in BOOLEAN
         /\ login \in BOOLEAN /\ logout \in BOOLEAN /\ outage \in BOOLEAN
Shape == /\ page \in {"loading", "restoring", "mounted"}
         /\ retries \in 0 .. MaxRetries
         /\ fetch \in [Fetches -> {"idle", "first", "await", "again"}]

\* One refresh at most is in flight.  It may have gone without a cookie, and it
\* may have been lost on its way.
NoneAwaited == \A c \in Calls : sent[c] # "refresh"
OneAwaited == \A c, d \in Calls : sent[c] = "refresh" /\ sent[d] = "refresh" => c = d
RotationInv ==
    \/ posts = 0 /\ ~inFlight /\ bare = 0 /\ NoneAwaited
    \/ posts = 1 /\ inFlight /\ ((bare = 0 /\ OneAwaited) \/ (bare = 1 /\ NoneAwaited))

\* Whoever is signed in has a timer armed or a refresh in flight.
TimerInv == (timers = 0 \/ timers = 1) /\ (auth => timers = 1 \/ posts = 1)

\* What the page awaits of the server are calls that it has made, one login and
\* one logout at most.
AwaitInv ==
    /\ sent \in [Calls -> {"nothing", "refresh", "login", "logout"}]
    /\ \A c \in Calls : (sent[c] = "login" => login) /\ (sent[c] = "logout" => logout)
    /\ \A c, d \in Calls : sent[c] = sent[d] /\ sent[c] \in {"login", "logout"} => c = d

TroubleInv == troubles \in Nat /\ troubles + faults <= MaxTroubles

PageInv == Flags /\ Shape /\ RotationInv /\ TimerInv /\ AwaitInv /\ TroubleInv

\* A call that ends no session: a login, or the refresh that the page awaits, which
\* holds a token of value before and after it has used the one it presents.
Harmless(c) ==
    \/ call[c].pc = "idle"
    \/ call[c].pc = "login" /\ call[c].old = NoToken
    \/ /\ call[c].pc = "granted" /\ row[call[c].new] = "live"
       /\ call[c].old = NoToken \/ sent[c] = "refresh"
    \/ /\ Rotates(c) /\ sent[c] = "refresh" /\ row[call[c].old] = "live"
       /\ call[c].pc = "mark" => row[call[c].new] = "live"

\* The browser's cookie is live, or its successor is on its way.
CookieHolds ==
    Cookie # NoToken =>
      \/ row[Cookie] = "live"
      \/ \E c \in Calls : call[c].pc = "granted" /\ call[c].old = Cookie

\* A session without an excuse is real.
RealInv ==
    ~excused =>
      /\ ~logout
      /\ auth => Cookie # NoToken /\ hint /\ bare = 0
      /\ \A c \in Calls : Harmless(c)
      /\ CookieHolds

\* The inductive invariant.
SystemInv == ServerInv /\ CallInv /\ PageInv /\ RealInv
---------------------------------------------------------------------------
\* A call that nobody has made.
LEMMA IdleCall == Server!Idle = [pc |-> "idle", at |-> Browser, user |-> NoUser,
                                 old |-> NoToken, new |-> NoToken]
  BY DEF Server!Idle

\* Initially there is nothing to lose.
LEMMA SystemStart == SystemInit => SystemInv
  <1> SUFFICES ASSUME SystemInit PROVE SystemInv
    OBVIOUS
  <1> USE SessionAssumption, SystemAssumption, IdleCall DEF SystemInit, Init, Server!Init
  <1>1. ServerInv
    BY DEF ServerInv, Server!TypeOK, Server!CallPCs, Server!Fallible, Cookie
  <1>2. CallInv
    BY DEF CallInv, Rotates, Fetched
  <1>3. Flags
    BY DEF Flags
  <1>4. Shape
    BY DEF Shape
  <1>5. RotationInv /\ TimerInv /\ AwaitInv /\ TroubleInv
    BY DEF RotationInv, NoneAwaited, TimerInv, AwaitInv, TroubleInv
  <1>6. RealInv
    BY DEF RealInv, Harmless, CookieHolds, Cookie
  <1> QED
    BY <1>1, <1>2, <1>3, <1>4, <1>5, <1>6 DEF SystemInv, PageInv

---------------------------------------------------------------------------
(* The server. *)

\* The user's sessions end on another device.
Deletes ==
    /\ Server!DeleteByUserID(Account)
    /\ revoked' = revoked \cup Server!Families(Account)
    /\ UNCHANGED <<users, expired, about, jar, call, faults, answered, denied>>

Statement(c) ==
    \/ Server!FindByHash(c) \/ Server!FindByID(c) \/ Server!SaveNew(c) \/ Server!MarkUsed(c)
    \/ Server!Revoke(c) \/ Server!LoginSave(c) \/ Server!Logout(c) \/ Server!Fail(c)
Message(c) ==
    \/ Server!Send(c, Browser) \/ Server!Login(c, Browser, Account)
    \/ Server!SendLogout(c, Browser, Account)
    \/ Server!Granted(c) \/ Server!Denied(c)

\* Whatever a tab and its server do, the server does one of its steps, or loses
\* the user's tokens to a logout elsewhere.
LEMMA ServerSteps ==
    [SystemNext]_system =>
      UNCHANGED server \/ Deletes \/ \E c \in Calls : Statement(c) \/ Message(c)
  <1> SUFFICES ASSUME [SystemNext]_system
               PROVE  UNCHANGED server \/ Deletes \/ \E c \in Calls : Statement(c) \/ Message(c)
    OBVIOUS
  <1> USE DEF Statement, Message
  <1>1. ASSUME NEW step, Asks(step)
        PROVE  UNCHANGED server \/ \E c \in Calls : Message(c)
    BY <1>1 DEF Asks, PostRefresh
  <1>2. CASE SendLogin \/ SendLogout
    BY <1>2 DEF SendLogin, SendLogout
  <1>3. CASE RefreshEnds
    BY <1>3 DEF RefreshEnds, NoCookie, RefreshBreaks, RefreshReplied
  <1>4. CASE LoginEnds \/ LogoutEnds
    BY <1>4 DEF LoginEnds, LogoutEnds, LoginBreaks, LogoutBreaks, LoginReplied, LogoutReplied
  <1>5. CASE \E c \in Calls : Handles(c) \/ Orphaned(c)
    BY <1>5 DEF Handles, Orphaned
  <1>6. CASE Leave \/ TabAlone
    BY <1>6 DEF Leave, TabAlone
  <1>7. CASE EndsElsewhere
    BY <1>7 DEF EndsElsewhere, Deletes
  <1>8. CASE UNCHANGED system
    BY <1>8 DEF system, server
  <1> QED
    BY <1>1, <1>2, <1>3, <1>4, <1>5, <1>6, <1>7, <1>8 DEF SystemNext

\* A statement of the server that goes on to another keeps what the call knows.
LEMMA ServerGoesOn ==
  ASSUME ServerInv, CallInv, NEW c \in Calls, NEW to \in Server!CallPCs,
         call' = [call EXCEPT ![c].pc = to],
         to = "granted" => call[c].pc = "mark",
         to \in {"user", "save"} => Rotates(c),
         to \notin {"find", "mark"},
         UNCHANGED <<users, expired, about, jar, answered>>,
         row' \in [Tokens -> {"absent", "live", "used"}],
         \A t \in Tokens : row'[t] # "absent" => row[t] # "absent",
         denied' \subseteq Tokens, revoked' \subseteq Tokens \cup {NoToken},
         UNCHANGED faults
  PROVE  ServerInv' /\ CallInv'
  <1> USE DEF ServerInv, CallInv, Server!TypeOK, Server!Minted, Rotates, Fetched
  <1>1. Server!TypeOK'
    OBVIOUS
  <1>2. ServerInv'
    BY <1>1 DEF Cookie
  <1>3. \A d \in Calls : Rotates(d)' => Rotates(d) /\ call'[d].old = call[d].old
                                              /\ call'[d].user = call[d].user
    OBVIOUS
  <1>4. \A d \in Calls : Fetched(d)' => Fetched(d) /\ call'[d].new = call[d].new
    OBVIOUS
  <1> QED
    BY <1>2, <1>3, <1>4

\* A statement that inserts a token gives it to its call alone.
LEMMA SavedKept ==
  ASSUME ServerInv, CallInv, NEW c \in Calls, NEW t \in Tokens \ Server!Minted,
         NEW to \in {"mark", "granted"}, NEW family \in Tokens \cup {NoToken},
         NEW parent \in Tokens \cup {NoToken},
         Server!Save(t, call[c].user, family, parent),
         call' = [call EXCEPT ![c].new = t, ![c].pc = to],
         to = "mark" => Rotates(c),
         UNCHANGED <<users, expired, jar, faults, answered, denied, revoked>>
  PROVE  ServerInv' /\ CallInv'
  <1> USE DEF ServerInv, CallInv, Server!TypeOK, Rotates, Fetched, Server!Save
  <1>1. call[c].user = Account
    OBVIOUS
  <1>2. Server!TypeOK'
    <2>1. row' \in [Tokens -> {"absent", "live", "used"}]
      OBVIOUS
    <2>2. about' \in [Tokens -> [owner : {Account} \cup {NoUser}, login : Tokens \cup {NoToken},
                                parent : Tokens \cup {NoToken}]]
      BY <1>1
    <2> DEFINE Call == [pc : Server!CallPCs, at : {Browser}, user : {Account} \cup {NoUser},
                        old : Tokens \cup {NoToken}, new : Tokens \cup {NoToken}]
    <2>3. call' \in [Calls -> Call]
      <3>1. to \in Server!CallPCs
        BY DEF Server!CallPCs, Server!Fallible
      <3> HIDE DEF ServerInv, CallInv
      <3>2. call \in [Calls -> Call]
        BY DEF ServerInv
      <3>3. [call[c] EXCEPT !.new = t, !.pc = to] \in Call
        BY <3>1, <3>2
      <3> HIDE DEF Call
      <3> QED
        BY <3>2, <3>3
    <2> QED
      BY <2>1, <2>2, <2>3
  <1>3. Server!Minted' = Server!Minted \cup {t}
    BY <1>1, SystemAssumption DEF Server!Minted
  <1>4. ServerInv'
    BY <1>2, <1>3 DEF Cookie
  <1>5. \A d \in Calls : Fetched(d)' => call'[d].new = (IF d = c THEN t ELSE call[d].new)
                                        /\ (d # c => Fetched(d))
    OBVIOUS
  <1>6. \A d \in Calls : Rotates(d)' => Rotates(d) /\ call'[d].old = call[d].old
                                              /\ call'[d].user = call[d].user
    OBVIOUS
  <1> QED
    BY <1>3, <1>4, <1>5, <1>6

\* A call that ends takes nothing along.
LEMMA ServerEnds ==
  ASSUME ServerInv, CallInv, NEW c \in Calls,
         call' = [call EXCEPT ![c] = Server!Idle],
         UNCHANGED <<users, row, expired, about, jar, answered, denied, revoked>>,
         faults' \in 0 .. MaxTroubles
  PROVE  ServerInv' /\ CallInv'
  BY IdleCall DEF ServerInv, CallInv, Server!TypeOK, Server!CallPCs, Server!Minted, Rotates,
     Fetched, Cookie

\* The server stays well formed.
LEMMA ServerKept == SystemInv /\ [SystemNext]_system => ServerInv' /\ CallInv'
  <1> SUFFICES ASSUME SystemInv, [SystemNext]_system PROVE ServerInv' /\ CallInv'
    OBVIOUS
  <1> USE SystemAssumption, IdleCall
  <1>0. ServerInv /\ CallInv
    BY DEF SystemInv
  <1>1. CASE UNCHANGED server
    BY <1>0, <1>1 DEF server, ServerInv, CallInv, Server!TypeOK, Server!Minted, Rotates, Fetched,
       Cookie
  <1>2. CASE Deletes
    <2>1. revoked' \subseteq Tokens \cup {NoToken}
      BY <1>0, <1>2 DEF Deletes, Server!Families, Server!Owned, ServerInv, Server!TypeOK
    <2>2. /\ row' \in [Tokens -> {"absent", "live", "used"}]
          /\ \A t \in Tokens : row'[t] # "absent" => row[t] # "absent"
      BY <1>0, <1>2 DEF Deletes, Server!DeleteByUserID, ServerInv, Server!TypeOK
    <2> QED
      BY <1>0, <1>2, <2>1, <2>2
         DEF Deletes, ServerInv, CallInv, Server!TypeOK, Server!Minted, Rotates, Fetched, Cookie
  <1>3. ASSUME NEW c \in Calls, Statement(c) PROVE ServerInv' /\ CallInv'
    <2> USE <1>0
    <2>1. CASE Server!FindByHash(c)
      <3>1. PICK to \in {"denied", "revoke", "user"} :
              /\ call' = [call EXCEPT ![c].pc = to]
              /\ to = "user" => Rotates(c)
        BY <2>1 DEF Server!FindByHash, Server!Deny, Server!Goto, ServerInv, Rotates
      <3>2. denied' \subseteq Tokens
        BY <2>1 DEF Server!FindByHash, Server!Deny, Server!Owned, ServerInv, Server!TypeOK
      <3> QED
        BY <2>1, <3>1, <3>2, ServerGoesOn
           DEF Server!FindByHash, Server!table, ServerInv, Server!TypeOK, Server!CallPCs,
               Server!Fallible
    <2>2. CASE Server!FindByID(c)
      <3>1. PICK to \in {"denied", "save"} :
              /\ call' = [call EXCEPT ![c].pc = to]
              /\ to = "save" => Rotates(c)
        BY <2>2 DEF Server!FindByID, Server!Deny, Server!Goto, Server!Following, Rotates
      <3>2. denied' \subseteq Tokens
        BY <2>2 DEF Server!FindByID, Server!Deny, Server!Owned, ServerInv, Server!TypeOK
      <3> QED
        BY <2>2, <3>1, <3>2, ServerGoesOn
           DEF Server!FindByID, Server!table, ServerInv, Server!TypeOK, Server!CallPCs,
               Server!Fallible
    <2>3. CASE Server!SaveNew(c)
      <3>1. PICK t \in Tokens \ Server!Minted :
              /\ Server!Save(t, call[c].user, about[call[c].old].login, call[c].old)
              /\ call' = [call EXCEPT ![c].new = t, ![c].pc = Server!Following.save]
        BY <2>3 DEF Server!SaveNew, Server!GenerateRefreshToken
      <3>2. call[c].pc = "save" /\ Rotates(c)
        BY <2>3 DEF Server!SaveNew, Rotates
      <3>3. about[call[c].old].login \in Tokens \cup {NoToken}
        BY <3>2 DEF CallInv, ServerInv, Server!TypeOK
      <3>4. call[c].old \in Tokens \cup {NoToken}
        BY DEF ServerInv, Server!TypeOK
      <3>5. call' = [call EXCEPT ![c].new = t, ![c].pc = "mark"]
        BY <3>1 DEF Server!Following
      <3> QED
        BY <2>3, <3>1, <3>2, <3>3, <3>4, <3>5, SavedKept DEF Server!SaveNew, Server!history
    <2>4. CASE Server!MarkUsed(c)
      <3>1. PICK to \in {"granted", "revoke"} : call' = [call EXCEPT ![c].pc = to]
        BY <2>4 DEF Server!MarkUsed, Server!Goto, Server!Following
      <3>2. /\ row' \in [Tokens -> {"absent", "live", "used"}]
            /\ \A t \in Tokens : row'[t] # "absent" => row[t] # "absent"
        BY <2>4 DEF Server!MarkUsed, Server!Affected, ServerInv, Server!TypeOK
      <3> QED
        BY <2>4, <3>1, <3>2, ServerGoesOn
           DEF Server!MarkUsed, Server!history, ServerInv, Server!TypeOK, Server!CallPCs,
               Server!Fallible
    <2>5. CASE Server!Revoke(c) \/ Server!Logout(c)
      <3>1. call' = [call EXCEPT ![c].pc = "denied"]
        BY <2>5 DEF Server!Revoke, Server!Logout, Server!Deny, Server!Goto
      <3>2. denied' \subseteq Tokens /\ revoked' \subseteq Tokens \cup {NoToken}
        BY <2>5 DEF Server!Revoke, Server!Logout, Server!Deny, Server!Owned, Server!Families,
           ServerInv, Server!TypeOK
      <3>3. /\ row' \in [Tokens -> {"absent", "live", "used"}]
            /\ \A t \in Tokens : row'[t] # "absent" => row[t] # "absent"
        BY <2>5 DEF Server!Revoke, Server!Logout, Server!DeleteByUserID, ServerInv, Server!TypeOK
      <3>4. /\ "denied" \in Server!CallPCs
            /\ UNCHANGED <<users, expired, about, jar, faults, answered>>
        BY <2>5 DEF Server!Revoke, Server!Logout, Server!CallPCs
      <3> QED
        BY <3>1, <3>2, <3>3, <3>4, ServerGoesOn
    <2>6. CASE Server!LoginSave(c)
      <3>1. PICK t \in Tokens \ Server!Minted :
              /\ Server!Save(t, call[c].user, t, NoToken)
              /\ call' = [call EXCEPT ![c].new = t, ![c].pc = "granted"]
        BY <2>6 DEF Server!LoginSave, Server!GenerateRefreshToken
      <3> QED
        BY <2>6, <3>1, SavedKept DEF Server!LoginSave, Server!history
    <2>7. CASE Server!Fail(c)
      <3>1. call' = [call EXCEPT ![c] = Server!Idle] /\ faults' \in 0 .. MaxTroubles
        BY <2>7 DEF Server!Fail, Server!OnError, ServerInv, Server!TypeOK
      <3> QED
        BY <2>7, <3>1, ServerEnds
           DEF Server!Fail, Server!OnError, Server!table, ServerInv, Server!TypeOK
    <2> QED
      BY <1>3, <2>1, <2>2, <2>3, <2>4, <2>5, <2>6, <2>7 DEF Statement
  <1>4. ASSUME NEW c \in Calls, Message(c) PROVE ServerInv' /\ CallInv'
    <2> USE <1>0
    <2>1. CASE Server!Send(c, Browser)
      <3>1. Cookie \in answered /\ about[Cookie].owner = Account
        BY <2>1 DEF Server!Send, Cookie, ServerInv, Server!TypeOK, Server!Minted
      <3>2. call' = [call EXCEPT ![c] = [pc |-> "find", at |-> Browser, user |-> Account,
                                         old |-> Cookie, new |-> NoToken]]
        BY <2>1, <3>1 DEF Server!Send, Cookie
      <3> QED
        BY <2>1, <3>1, <3>2 DEF Server!Send, Server!table, Server!history, ServerInv, CallInv,
           Server!TypeOK, Server!CallPCs, Server!Fallible, Server!Minted, Rotates, Fetched, Cookie
    <2>2. CASE Server!Login(c, Browser, Account) \/ Server!SendLogout(c, Browser, Account)
      <3>1. PICK to \in {"login", "logout"}, old \in Tokens \cup {NoToken} :
              call' = [call EXCEPT ![c] = [pc |-> to, at |-> Browser, user |-> Account,
                                           old |-> old, new |-> NoToken]]
        BY <2>2 DEF Server!Login, Server!SendLogout, ServerInv, Server!TypeOK
      <3> QED
        BY <2>2, <3>1 DEF Server!Login, Server!SendLogout, Server!table, Server!history, ServerInv,
           CallInv, Server!TypeOK, Server!CallPCs, Server!Fallible, Server!Minted, Rotates,
           Fetched, Cookie
    <2>3. CASE Server!Granted(c)
      <3>1. call[c].new \in Server!Minted \ answered /\ Fetched(c)
        BY <2>3 DEF Server!Granted, CallInv, Fetched
      <3>2. \A d \in Calls \ {c} : Fetched(d) => call[d].new # call[c].new
        BY <3>1 DEF CallInv
      <3>3. call' = [call EXCEPT ![c] = Server!Idle] /\ answered' = answered \cup {call[c].new}
        BY <2>3 DEF Server!Granted
      <3>4. call[c].at = Browser
        BY DEF ServerInv, Server!TypeOK
      <3>5. ServerInv'
        BY <2>3, <3>1, <3>3, <3>4 DEF Server!Granted, Server!table, ServerInv, Server!TypeOK,
           Server!CallPCs, Server!Minted, Cookie
      <3>6. Server!Minted' = Server!Minted
        BY <2>3 DEF Server!Granted, Server!table, Server!Minted
      <3> QED
        BY <3>1, <3>2, <3>3, <3>5, <3>6 DEF CallInv, Rotates, Fetched, ServerInv, Server!TypeOK
    <2>4. CASE Server!Denied(c)
      <3>1. Cookie' \in {Cookie, NoToken} /\ jar' \in [{Browser} -> Tokens \cup {NoToken}]
        BY <2>4 DEF Server!Denied, ServerInv, Server!TypeOK, Cookie
      <3> QED
        BY <2>4, <3>1 DEF Server!Denied, Server!table, Server!history, ServerInv, CallInv,
           Server!TypeOK, Server!CallPCs, Server!Minted, Rotates, Fetched
    <2> QED
      BY <1>4, <2>1, <2>2, <2>3, <2>4 DEF Message
  <1> QED
    BY <1>1, <1>2, <1>3, <1>4, ServerSteps

---------------------------------------------------------------------------
(* The page. *)

\* Flags are true or false.
LEMMA FlagsKept == Flags /\ [SystemNext]_system => Flags'
  <1> SUFFICES ASSUME Flags, [SystemNext]_system PROVE Flags'
    OBVIOUS
  <1> USE DEF Flags
  <1>1. ASSUME RefreshReply PROVE Flags'
    BY <1>1 DEF RefreshReply, RefreshSucceeds, RefreshDenied, RefreshMisses, Settle, ClearAuth
  <1>2. ASSUME Asks(TimerFires) PROVE Flags'
    BY <1>2 DEF Asks, TimerFires, Refresh, calls
  <1>3. ASSUME Asks(Bootstrap) PROVE Flags'
    BY <1>3 DEF Asks, Bootstrap, Refresh, calls
  <1>4. ASSUME NEW f \in Fetches, Asks(FetchReply(f)) PROVE Flags'
    BY <1>4 DEF Asks, FetchReply, Refresh
  <1>5. CASE SendLogin \/ SendLogout
    BY <1>5 DEF SendLogin, SendLogout, Login, Logout, memory
  <1>6. CASE RefreshEnds
    BY <1>1, <1>6 DEF RefreshEnds, NoCookie, RefreshBreaks, RefreshReplied, RefreshReply
  <1>7. CASE LoginEnds
    BY <1>7 DEF LoginEnds, LoginBreaks, LoginReplied, LoginSucceeds, LoginMisses, memory
  <1>8. CASE LogoutEnds
    BY <1>8 DEF LogoutEnds, LogoutBreaks, LogoutReplied, LogoutReply, ClearAuth
  <1>9. ASSUME NEW c \in Calls, Handles(c) \/ Orphaned(c) PROVE Flags'
    BY <1>9 DEF Handles, Orphaned, vars, memory, calls
  <1>10. CASE Leave
    BY <1>10 DEF Leave, Reload
  <1>11. CASE TabAlone
    BY <1>11 DEF TabAlone, Fetch, FetchAgainReply, OutageBegins, memory, calls
  <1>12. CASE EndsElsewhere
    BY <1>12 DEF EndsElsewhere, vars, memory, calls
  <1>13. CASE UNCHANGED system
    BY <1>13 DEF system, vars, memory, calls
  <1> QED
    BY <1>2, <1>3, <1>4, <1>5, <1>6, <1>7, <1>8, <1>9, <1>10, <1>11, <1>12, <1>13 DEF SystemNext

\* So is the rest of its shape.
LEMMA ShapeKept == Shape /\ [SystemNext]_system => Shape'
  <1> SUFFICES ASSUME Shape, [SystemNext]_system PROVE Shape'
    OBVIOUS
  <1> USE SessionAssumption DEF Shape
  <1>1. ASSUME Settle(TRUE) \/ Settle(FALSE), retries' \in 0 .. MaxRetries PROVE Shape'
    <2>1. fetch' \in [Fetches -> {"idle", "first", "await", "again"}]
      BY <1>1 DEF Settle, AfterRefresh
    <2>2. page' \in {"loading", "restoring", "mounted"}
      BY <1>1 DEF Settle
    <2> QED
      BY <1>1, <2>1, <2>2
  <1>2. ASSUME RefreshReply PROVE Shape'
    <2>1. CASE RefreshSucceeds
      <3>1. retries' \in 0 .. MaxRetries
        BY <2>1 DEF RefreshSucceeds
      <3> QED
        BY <1>1, <2>1, <3>1 DEF RefreshSucceeds
    <2>2. CASE RefreshDenied
      <3>1. retries' \in 0 .. MaxRetries
        BY <2>2 DEF RefreshDenied
      <3> QED
        BY <1>1, <2>2, <3>1 DEF RefreshDenied
    <2>3. CASE RefreshMisses
      <3>1. retries' \in 0 .. MaxRetries
        BY <2>3 DEF RefreshMisses, BudgetLeft, Counted
      <3> QED
        BY <1>1, <2>3, <3>1 DEF RefreshMisses
    <2> QED
      BY <1>2, <2>1, <2>2, <2>3 DEF RefreshReply
  <1>3. CASE Asks(TimerFires) \/ Asks(Bootstrap)
    BY <1>3 DEF Asks, TimerFires, Bootstrap, calls
  <1>4. ASSUME NEW f \in Fetches, Asks(FetchReply(f)) PROVE Shape'
    BY <1>4 DEF Asks, FetchReply, Goto
  <1>5. CASE SendLogin \/ SendLogout
    BY <1>5 DEF SendLogin, SendLogout, Login, Logout, memory
  <1>6. CASE RefreshEnds
    BY <1>2, <1>6 DEF RefreshEnds, NoCookie, RefreshBreaks, RefreshReplied, RefreshReply
  <1>7. CASE LoginEnds
    BY <1>7 DEF LoginEnds, LoginBreaks, LoginReplied, LoginSucceeds, LoginMisses, memory
  <1>8. CASE LogoutEnds
    BY <1>8 DEF LogoutEnds, LogoutBreaks, LogoutReplied, LogoutReply
  <1>9. ASSUME NEW c \in Calls, Handles(c) \/ Orphaned(c) PROVE Shape'
    BY <1>9 DEF Handles, Orphaned, vars, memory, calls
  <1>10. CASE Leave
    BY <1>10 DEF Leave, Reload
  <1>11. CASE TabAlone
    BY <1>11 DEF TabAlone, Fetch, FetchAgainReply, OutageBegins, Goto, memory, calls
  <1>12. CASE EndsElsewhere
    BY <1>12 DEF EndsElsewhere, vars, memory, calls
  <1>13. CASE UNCHANGED system
    BY <1>13 DEF system, vars, memory, calls
  <1> QED
    BY <1>3, <1>4, <1>5, <1>6, <1>7, <1>8, <1>9, <1>10, <1>11, <1>12, <1>13 DEF SystemNext

\* Troubles stay within their bound.
LEMMA TroubleKept == ServerInv /\ TroubleInv /\ [SystemNext]_system => TroubleInv'
  <1> SUFFICES ASSUME ServerInv, TroubleInv, [SystemNext]_system PROVE TroubleInv'
    OBVIOUS
  <1>1. troubles \in Nat /\ faults \in 0 .. MaxTroubles /\ MaxTroubles \in Nat
    BY SystemAssumption DEF TroubleInv, ServerInv, Server!TypeOK
  <1>2. ASSUME UNCHANGED faults, Trouble \/ UNCHANGED troubles PROVE TroubleInv'
    BY <1>1, <1>2 DEF TroubleInv, Trouble
  <1>3. CASE Asks(TimerFires) \/ Asks(Bootstrap) \/ \E f \in Fetches : Asks(FetchReply(f))
    BY <1>2, <1>3 DEF Asks, PostRefresh, Server!Send, server
  <1>4. CASE SendLogin
    BY <1>2, <1>4 DEF SendLogin, Server!Login, server
  <1>5. CASE SendLogout
    BY <1>2, <1>5 DEF SendLogout, Server!SendLogout, server
  <1>6. CASE RefreshEnds
    BY <1>2, <1>6 DEF RefreshEnds, NoCookie, RefreshBreaks, RefreshReplied, GivesUpOn,
       Server!Granted, Server!Denied, server
  <1>7. CASE LoginEnds
    BY <1>2, <1>7 DEF LoginEnds, LoginBreaks, LoginReplied, GivesUpOn, Server!Granted, server
  <1>8. CASE LogoutEnds
    BY <1>2, <1>8 DEF LogoutEnds, LogoutBreaks, LogoutReplied, GivesUpOn, Server!Denied, server
  <1>9. ASSUME NEW c \in Calls, Handles(c) PROVE TroubleInv'
    BY <1>1, <1>9 DEF Handles, TroubleInv
  <1>10. ASSUME NEW c \in Calls, Orphaned(c) PROVE TroubleInv'
    BY <1>2, <1>10 DEF Orphaned, Server!Granted, Server!Denied
  <1>11. CASE Leave \/ TabAlone \/ EndsElsewhere
    BY <1>2, <1>11 DEF Leave, TabAlone, EndsElsewhere, server
  <1>12. CASE UNCHANGED system
    BY <1>2, <1>12 DEF system, server
  <1> QED
    BY <1>3, <1>4, <1>5, <1>6, <1>7, <1>8, <1>9, <1>10, <1>11, <1>12 DEF SystemNext

\* What is awaited is an answer to a call of the page.
LEMMA AwaitKept == Flags /\ AwaitInv /\ [SystemNext]_system => AwaitInv'
  <1> SUFFICES ASSUME Flags, AwaitInv, [SystemNext]_system PROVE AwaitInv'
    OBVIOUS
  <1> USE DEF AwaitInv, Await
  <1>1. ASSUME UNCHANGED <<login, logout>>,
               UNCHANGED sent \/ \E c \in Calls : Await(c, "nothing") \/ Await(c, "refresh")
        PROVE  AwaitInv'
    BY <1>1
  <1>2. CASE Asks(TimerFires) \/ Asks(Bootstrap) \/ \E f \in Fetches : Asks(FetchReply(f))
    <2>1. UNCHANGED <<login, logout>>
      BY <1>2 DEF Asks, TimerFires, Bootstrap, FetchReply, calls
    <2> QED
      BY <1>1, <1>2, <2>1 DEF Asks, PostRefresh
  <1>3. CASE SendLogin
    <2>1. ~login /\ login' = TRUE /\ UNCHANGED logout
      BY <1>3 DEF SendLogin, Login
    <2>2. \A c \in Calls : sent[c] # "login"
      BY <2>1
    <2>3. UNCHANGED sent \/ \E c \in Calls : Await(c, "login")
      BY <1>3 DEF SendLogin
    <2> QED
      BY <2>1, <2>2, <2>3
  <1>4. CASE SendLogout
    <2>1. ~logout /\ logout' = TRUE /\ UNCHANGED login
      BY <1>4 DEF SendLogout, Logout
    <2>2. \A c \in Calls : sent[c] # "logout"
      BY <2>1
    <2>3. UNCHANGED sent \/ \E c \in Calls : Await(c, "logout")
      BY <1>4 DEF SendLogout
    <2> QED
      BY <2>1, <2>2, <2>3
  <1>5. CASE RefreshEnds
    <2>1. UNCHANGED <<login, logout>>
      BY <1>5 DEF RefreshEnds, NoCookie, RefreshBreaks, RefreshReplied, RefreshSucceeds,
         RefreshDenied, RefreshMisses, Settle
    <2> QED
      BY <1>1, <1>5, <2>1
         DEF RefreshEnds, NoCookie, RefreshBreaks, RefreshReplied, GivesUpOn, Awaited
  <1>6. CASE LoginEnds
    <2>1. UNCHANGED logout
      BY <1>6 DEF LoginEnds, LoginBreaks, LoginReplied, LoginSucceeds, LoginMisses
    <2>2. \/ \E c \in Calls : sent[c] = "login" /\ Await(c, "nothing")
          \/ (\A c \in Calls : sent[c] # "login") /\ UNCHANGED sent
      BY <1>6 DEF LoginEnds, LoginBreaks, LoginReplied, GivesUpOn, Awaited
    <2> QED
      BY <2>1, <2>2
  <1>7. CASE LogoutEnds
    <2>1. UNCHANGED login
      BY <1>7 DEF LogoutEnds, LogoutBreaks, LogoutReplied, LogoutReply
    <2>2. \/ \E c \in Calls : sent[c] = "logout" /\ Await(c, "nothing")
          \/ (\A c \in Calls : sent[c] # "logout") /\ UNCHANGED sent
      BY <1>7 DEF LogoutEnds, LogoutBreaks, LogoutReplied, GivesUpOn, Awaited
    <2> QED
      BY <2>1, <2>2
  <1>8. ASSUME NEW c \in Calls, Handles(c) \/ Orphaned(c) PROVE AwaitInv'
    BY <1>8 DEF Handles, Orphaned, vars, calls
  <1>9. CASE Leave
    BY <1>9 DEF Leave
  <1>10. CASE TabAlone
    BY <1>10 DEF TabAlone, Fetch, FetchAgainReply, OutageBegins, memory, calls
  <1>11. CASE EndsElsewhere
    BY <1>11 DEF EndsElsewhere, vars, calls
  <1>12. CASE UNCHANGED system
    BY <1>12 DEF system, vars, calls
  <1> QED
    BY <1>2, <1>3, <1>4, <1>5, <1>6, <1>7, <1>8, <1>9, <1>10, <1>11, <1>12 DEF SystemNext

\* Whoever asks for a refresh has one in flight.
LEMMA AsksOne ==
  ASSUME RotationInv, Refresh PROVE posts' = 1 /\ inFlight' = TRUE
  BY DEF RotationInv, Refresh, Joins

\* An end of a refresh is the end of the only one.
LEMMA RefreshIsOver ==
  ASSUME RotationInv, AwaitInv, RefreshEnds
  PROVE  /\ posts = 1 /\ posts' = 0 /\ ~inFlight' /\ bare' = 0 /\ NoneAwaited'
         /\ RefreshSucceeds \/ RefreshDenied \/ RefreshMisses
  <1> USE DEF RotationInv
  <1>1. /\ RefreshSucceeds \/ RefreshDenied \/ RefreshMisses
        /\ posts > 0 /\ posts' = posts - 1 /\ inFlight' = FALSE
    BY DEF RefreshEnds, NoCookie, RefreshBreaks, RefreshReplied, RefreshSucceeds, RefreshDenied,
       RefreshMisses, Settle
  <1>2. posts = 1 /\ posts' = 0 /\ ~inFlight'
    BY <1>1
  <1>3. ASSUME NEW c \in Calls, sent[c] = "refresh", Await(c, "nothing")
        PROVE  bare = 0 /\ NoneAwaited'
    <2>1. bare = 0 /\ OneAwaited
      BY <1>2, <1>3 DEF NoneAwaited
    <2> QED
      BY <1>3, <2>1 DEF NoneAwaited, OneAwaited, Await, AwaitInv
  <1>4. CASE bare > 0 /\ bare' = bare - 1 /\ UNCHANGED sent
    BY <1>1, <1>2, <1>4 DEF NoneAwaited
  <1>5. CASE posts > bare + Cardinality(Awaited("refresh")) /\ UNCHANGED <<sent, bare>>
    <2>1. ASSUME NEW c \in Calls, sent[c] = "refresh" PROVE FALSE
      <3>1. OneAwaited /\ bare = 0
        BY <1>2, <2>1 DEF NoneAwaited
      <3>2. Awaited("refresh") = {c}
        BY <2>1, <3>1 DEF Awaited, OneAwaited
      <3>3. Cardinality(Awaited("refresh")) = 1
        BY <3>2, FS_Singleton
      <3> QED
        BY <1>2, <1>5, <3>1, <3>3
    <2>2. NoneAwaited /\ NoneAwaited'
      BY <1>5, <2>1 DEF NoneAwaited
    <2>3. Awaited("refresh") = {}
      BY <2>2 DEF Awaited, NoneAwaited
    <2>4. Cardinality(Awaited("refresh")) = 0
      BY <2>3, FS_EmptySet
    <2> QED
      BY <1>1, <1>2, <1>5, <2>2, <2>4
  <1>6. CASE \E c \in Calls : sent[c] = "refresh" /\ Await(c, "nothing") /\ UNCHANGED bare
    BY <1>1, <1>2, <1>3, <1>6
  <1> QED
    BY <1>1, <1>4, <1>5, <1>6
       DEF RefreshEnds, NoCookie, RefreshBreaks, RefreshReplied, GivesUpOn, Awaited

\* There is one refresh in flight at most.
LEMMA RotationKept == Flags /\ RotationInv /\ AwaitInv /\ [SystemNext]_system => RotationInv'
  <1> SUFFICES ASSUME Flags, RotationInv, AwaitInv, [SystemNext]_system PROVE RotationInv'
    OBVIOUS
  <1>1. ASSUME UNCHANGED <<inFlight, posts, bare>>,
               UNCHANGED sent
                 \/ \E c \in Calls, what \in {"nothing", "login", "logout"} : Await(c, what)
        PROVE  RotationInv'
    <2>1. \A c \in Calls : sent'[c] = "refresh" => sent[c] = "refresh"
      BY <1>1 DEF Await, AwaitInv
    <2> QED
      BY <1>1, <2>1 DEF RotationInv, NoneAwaited, OneAwaited
  <1>2. ASSUME Refresh \/ UNCHANGED <<inFlight, posts>>,
               IF posts' > posts THEN PostRefresh ELSE UNCHANGED <<server, sent, bare>>
        PROVE  RotationInv'
    <2>1. CASE posts' > posts
      <3>1. /\ posts = 0 /\ posts' = 1 /\ inFlight' = TRUE /\ bare = 0 /\ NoneAwaited
        <4>1. Refresh
          BY <1>2, <2>1 DEF RotationInv
        <4>2. posts' = 1 /\ inFlight' = TRUE
          BY <4>1, AsksOne
        <4>3. posts # 1
          BY <2>1, <4>2
        <4> QED
          BY <4>2, <4>3 DEF RotationInv
      <3>2. CASE UNCHANGED <<sent, bare>>
        BY <3>1, <3>2 DEF RotationInv, NoneAwaited, OneAwaited
      <3>3. CASE bare' = bare + 1 /\ UNCHANGED sent
        BY <3>1, <3>3 DEF RotationInv, NoneAwaited
      <3>4. ASSUME NEW c \in Calls, Await(c, "refresh"), UNCHANGED bare PROVE RotationInv'
        BY <3>1, <3>4 DEF RotationInv, NoneAwaited, OneAwaited, Await, AwaitInv
      <3> QED
        BY <1>2, <2>1, <3>2, <3>3, <3>4 DEF PostRefresh
    <2>2. CASE ~(posts' > posts)
      <3>1. UNCHANGED <<sent, bare>>
        BY <1>2, <2>2
      <3>2. UNCHANGED <<inFlight, posts>>
        <4>1. SUFFICES ASSUME Refresh PROVE UNCHANGED <<inFlight, posts>>
          BY <1>2
        <4>2. posts' = 1 /\ inFlight' = TRUE
          BY <4>1, AsksOne
        <4>3. posts # 0
          BY <2>2, <4>2
        <4>4. posts = 1 /\ inFlight
          BY <4>3 DEF RotationInv
        <4>5. inFlight = TRUE
          BY <4>4 DEF Flags
        <4> QED
          BY <4>2, <4>4, <4>5
      <3> QED
        BY <1>1, <3>1, <3>2
    <2> QED
      BY <2>1, <2>2
  <1>3. CASE Asks(TimerFires) \/ Asks(Bootstrap) \/ \E f \in Fetches : Asks(FetchReply(f))
    BY <1>2, <1>3 DEF Asks, TimerFires, Bootstrap, FetchReply
  <1>4. CASE SendLogin
    BY <1>1, <1>4 DEF SendLogin, Login, memory
  <1>5. CASE SendLogout
    BY <1>1, <1>5 DEF SendLogout, Logout, memory
  <1>6. CASE RefreshEnds
    BY <1>6, RefreshIsOver DEF RotationInv, NoneAwaited
  <1>7. CASE LoginEnds
    <2>1. UNCHANGED <<inFlight, posts, bare>>
      BY <1>7 DEF LoginEnds, LoginBreaks, LoginReplied, LoginSucceeds, LoginMisses, memory
    <2>2. UNCHANGED sent \/ \E c \in Calls : Await(c, "nothing")
      BY <1>7 DEF LoginEnds, LoginBreaks, LoginReplied, GivesUpOn, Awaited
    <2> QED
      BY <1>1, <2>1, <2>2
  <1>8. CASE LogoutEnds
    <2>1. UNCHANGED <<inFlight, posts, bare>>
      BY <1>8 DEF LogoutEnds, LogoutBreaks, LogoutReplied, LogoutReply
    <2>2. UNCHANGED sent \/ \E c \in Calls : Await(c, "nothing")
      BY <1>8 DEF LogoutEnds, LogoutBreaks, LogoutReplied, GivesUpOn, Awaited
    <2> QED
      BY <1>1, <2>1, <2>2
  <1>9. ASSUME NEW c \in Calls, Handles(c) \/ Orphaned(c) PROVE RotationInv'
    BY <1>1, <1>9 DEF Handles, Orphaned, vars, memory
  <1>10. CASE Leave
    BY <1>10 DEF Leave, Reload, RotationInv, NoneAwaited
  <1>11. CASE TabAlone
    BY <1>1, <1>11 DEF TabAlone, Fetch, FetchAgainReply, OutageBegins, memory
  <1>12. CASE EndsElsewhere \/ UNCHANGED system
    BY <1>1, <1>12 DEF EndsElsewhere, system, vars, memory
  <1> QED
    BY <1>3, <1>4, <1>5, <1>6, <1>7, <1>8, <1>9, <1>10, <1>11, <1>12 DEF SystemNext

\* Whoever is signed in is renewed.
LEMMA TimerKept == RotationInv /\ AwaitInv /\ TimerInv /\ [SystemNext]_system => TimerInv'
  <1> SUFFICES ASSUME RotationInv, AwaitInv, TimerInv, [SystemNext]_system PROVE TimerInv'
    OBVIOUS
  <1>1. ASSUME auth' => auth, UNCHANGED timers, posts' = posts \/ posts' = 1 PROVE TimerInv'
    BY <1>1 DEF TimerInv
  <1>2. ASSUME timers' = 1 \/ (timers' = 0 /\ ~auth') PROVE TimerInv'
    BY <1>2 DEF TimerInv
  <1>3. CASE Asks(TimerFires)
    <2>1. Refresh /\ timers > 0 /\ timers' = timers - 1
      BY <1>3 DEF Asks, TimerFires
    <2>2. posts' = 1 /\ timers' = 0
      BY <2>1, AsksOne DEF TimerInv
    <2> QED
      BY <2>2 DEF TimerInv
  <1>4. CASE Asks(Bootstrap) \/ \E f \in Fetches : Asks(FetchReply(f))
    <2>1. UNCHANGED <<auth, timers>> /\ (Refresh \/ UNCHANGED posts)
      BY <1>4 DEF Asks, Bootstrap, FetchReply
    <2> QED
      BY <1>1, <2>1, AsksOne
  <1>5. CASE SendLogin \/ SendLogout
    BY <1>1, <1>5 DEF SendLogin, SendLogout, Login, Logout, memory
  <1>6. CASE RefreshEnds
    <2>1. CASE RefreshSucceeds
      BY <1>2, <2>1 DEF RefreshSucceeds, Arm, ArmOnSession, Cleared
    <2>2. CASE RefreshDenied
      BY <1>2, <2>2 DEF RefreshDenied, ClearAuth, Cleared
    <2>3. CASE RefreshMisses
      BY <1>2, <2>3 DEF RefreshMisses, ClearAuth, Arm, Cleared
    <2> QED
      BY <1>6, <2>1, <2>2, <2>3, RefreshIsOver
  <1>7. CASE LoginEnds
    <2>1. timers' = 1 \/ UNCHANGED <<auth, timers, posts>>
      BY <1>7 DEF LoginEnds, LoginBreaks, LoginReplied, LoginSucceeds, LoginMisses, memory, Arm,
         Cleared
    <2> QED
      BY <1>1, <1>2, <2>1
  <1>8. CASE LogoutEnds
    BY <1>2, <1>8 DEF LogoutEnds, LogoutBreaks, LogoutReplied, LogoutReply, ClearAuth, Cleared
  <1>9. ASSUME NEW c \in Calls, Handles(c) \/ Orphaned(c) PROVE TimerInv'
    BY <1>1, <1>9 DEF Handles, Orphaned, vars, memory
  <1>10. CASE Leave
    BY <1>2, <1>10 DEF Leave, Reload
  <1>11. CASE TabAlone
    BY <1>1, <1>11 DEF TabAlone, Fetch, FetchAgainReply, OutageBegins, memory
  <1>12. CASE EndsElsewhere \/ UNCHANGED system
    BY <1>1, <1>12 DEF EndsElsewhere, system, vars, memory
  <1> QED
    BY <1>3, <1>4, <1>5, <1>6, <1>7, <1>8, <1>9, <1>10, <1>11, <1>12 DEF SystemNext

---------------------------------------------------------------------------
(* The session. *)

\* A step of the page leaves a session as real as it was, when it gives up no call
\* that the server is at work on.
LEMMA PageLeavesReal ==
  ASSUME RealInv, UNCHANGED server,
         ~excused' => /\ ~excused /\ ~logout'
                      /\ auth' => Cookie # NoToken /\ hint' /\ bare' = 0
                      /\ \A c \in Calls : sent[c] = "refresh" /\ Pending(c) => sent'[c] = "refresh"
  PROVE  RealInv'
  <1> SUFFICES ASSUME ~excused' PROVE RealInv'
    BY DEF RealInv
  <1>1. UNCHANGED <<row, jar, call>>
    BY DEF server
  <1>2. \A c \in Calls : Harmless(c)'
    BY <1>1 DEF RealInv, Harmless, Rotates, Pending
  <1>3. CookieHolds'
    BY <1>1 DEF RealInv, CookieHolds, Cookie
  <1> QED
    BY <1>1, <1>2, <1>3 DEF RealInv, Cookie

\* A new call of the page takes nothing from the session.
LEMMA SendLeavesReal ==
  ASSUME RealInv, ServerInv, AwaitInv, ~excused, NEW c \in Calls, NEW what \in {"refresh", "login"},
         call[c].pc = "idle", Harmless(c)', Await(c, what),
         \A d \in Calls \ {c} : call'[d] = call[d],
         UNCHANGED <<row, jar, auth, hint, bare, logout>>
  PROVE  RealInv'
  <1>1. \A d \in Calls \ {c} : sent'[d] = sent[d] /\ call'[d] = call[d]
    BY DEF Await, AwaitInv
  <1>2. \A d \in Calls : Harmless(d)'
    BY <1>1 DEF RealInv, Harmless, Rotates
  <1>3. CookieHolds'
    BY <1>1 DEF RealInv, CookieHolds, Cookie
  <1> QED
    BY <1>2, <1>3 DEF RealInv, Cookie

\* The refresh presents a token of value.
LEMMA AskKeepsReal ==
  ASSUME SystemInv, Refresh \/ UNCHANGED posts,
         IF posts' > posts THEN PostRefresh ELSE UNCHANGED <<server, sent, bare>>,
         UNCHANGED <<auth, hint, logout, excused>>
  PROVE  RealInv'
  <1> USE DEF SystemInv, PageInv
  <1> SUFFICES ASSUME ~excused PROVE RealInv'
    BY DEF RealInv
  <1>1. CASE UNCHANGED <<server, sent, bare>>
    BY <1>1, PageLeavesReal DEF RealInv
  <1>2. CASE Cookie = NoToken /\ bare' = bare + 1 /\ UNCHANGED <<server, sent>>
    BY <1>2, PageLeavesReal DEF RealInv
  <1>3. ASSUME posts' > posts, NEW c \in Calls, Server!Send(c, Browser), Await(c, "refresh"),
               UNCHANGED bare
        PROVE  RealInv'
    <2>1. NoneAwaited
      <3>1. posts # 1
        <4>1. Refresh => posts' = 1
          BY AsksOne
        <4>2. (posts' = 1 \/ posts' = posts) /\ posts' > posts
          BY <1>3, <4>1
        <4> QED
          BY <4>2
      <3> QED
        BY <3>1 DEF RotationInv
    <2>2. Cookie # NoToken
      BY <1>3 DEF Server!Send, Cookie
    <2>3. row[Cookie] = "live"
      BY <2>1, <2>2 DEF RealInv, CookieHolds, Harmless, Rotates, NoneAwaited
    <2>4. call' = [call EXCEPT ![c] = [pc |-> "find", at |-> Browser, user |-> about[Cookie].owner,
                                       old |-> Cookie, new |-> NoToken]]
      BY <1>3 DEF Server!Send, Cookie
    <2>5. call'[c].pc = "find" /\ call'[c].old = Cookie /\ sent'[c] = "refresh"
      BY <1>3, <2>4 DEF ServerInv, Server!TypeOK, Await, AwaitInv
    <2>6. UNCHANGED <<row, jar>>
      BY <1>3 DEF Server!Send, Server!table
    <2>7. Harmless(c)'
      BY <2>3, <2>5, <2>6 DEF Harmless, Rotates, Cookie
    <2>8. \A d \in Calls \ {c} : call'[d] = call[d]
      BY <2>4 DEF ServerInv, Server!TypeOK
    <2>9. call[c].pc = "idle"
      BY <1>3 DEF Server!Send
    <2> QED
      BY <1>3, <2>6, <2>7, <2>8, <2>9, SendLeavesReal
  <1> QED
    BY <1>1, <1>2, <1>3 DEF PostRefresh

\* The login begins with nothing to lose.
LEMMA LoginKeepsReal == SystemInv /\ SendLogin => RealInv'
  <1> SUFFICES ASSUME SystemInv, SendLogin PROVE RealInv'
    OBVIOUS
  <1> USE DEF SystemInv, PageInv
  <1>1. UNCHANGED <<auth, hint, bare, logout, excused>>
    BY DEF SendLogin, Login, memory
  <1> SUFFICES ASSUME ~excused PROVE RealInv'
    BY <1>1 DEF RealInv
  <1>2. CASE UNCHANGED <<server, sent>>
    BY <1>1, <1>2, PageLeavesReal DEF RealInv
  <1>3. ASSUME NEW c \in Calls, Server!Login(c, Browser, Account), Await(c, "login")
        PROVE  RealInv'
    <2>1. call' = [call EXCEPT ![c] = [pc |-> "login", at |-> Browser, user |-> Account,
                                       old |-> NoToken, new |-> NoToken]]
      BY <1>3 DEF Server!Login
    <2>2. call'[c].pc = "login" /\ call'[c].old = NoToken
      BY <2>1 DEF ServerInv, Server!TypeOK
    <2>3. UNCHANGED <<row, jar>> /\ call[c].pc = "idle"
      BY <1>3 DEF Server!Login, Server!table
    <2>4. Harmless(c)'
      BY <2>2 DEF Harmless
    <2>5. \A d \in Calls \ {c} : call'[d] = call[d]
      BY <2>1 DEF ServerInv, Server!TypeOK
    <2> QED
      BY <1>1, <1>3, <2>3, <2>4, <2>5, SendLeavesReal
  <1> QED
    BY <1>2, <1>3 DEF SendLogin

\* A reply that the browser takes hands it what the server has.
LEMMA GrantKeepsReal ==
  ASSUME ServerInv, CallInv, NEW c \in Calls, Server!Granted(c), Cookie' = call[c].new,
         row[call[c].new] = "live", ~logout', auth' => hint' /\ bare' = 0,
         \A d \in Calls \ {c} : Harmless(d) /\ sent'[d] = sent[d]
  PROVE  RealInv'
  <1>1. call' = [call EXCEPT ![c] = Server!Idle] /\ UNCHANGED row
    BY DEF Server!Granted, Server!table
  <1>2. call[c].new \in Tokens
    BY DEF Server!Granted, CallInv, Fetched, Server!Minted
  <1>3. /\ call'[c].pc = "idle"
        /\ \A d \in Calls \ {c} : call'[d] = call[d]
    BY <1>1, IdleCall DEF ServerInv, Server!TypeOK
  <1>4. \A d \in Calls : Harmless(d)'
    BY <1>1, <1>3 DEF Harmless, Rotates
  <1> QED
    BY <1>1, <1>2, <1>4, SystemAssumption DEF RealInv, CookieHolds

\* So does one that it never gets, or that it drops.
LEMMA LostKeepsReal ==
  ASSUME ServerInv, RealInv, ~excused, NEW c \in Calls, call' = [call EXCEPT ![c] = Server!Idle],
         Cookie # NoToken /\ call[c].pc = "granted" => call[c].old # Cookie,
         UNCHANGED <<row, jar, logout, auth, hint, bare, sent>>
  PROVE  RealInv'
  <1>1. /\ call'[c].pc = "idle"
        /\ \A d \in Calls \ {c} : call'[d] = call[d]
    BY IdleCall DEF ServerInv, Server!TypeOK
  <1>2. \A d \in Calls : Harmless(d)'
    BY <1>1 DEF RealInv, Harmless, Rotates
  <1>3. CookieHolds'
    BY <1>1 DEF RealInv, CookieHolds, Cookie
  <1> QED
    BY <1>2, <1>3 DEF RealInv, Cookie

\* An end of a refresh leaves the session with a token of value, or without one
\* for cause.
LEMMA RefreshKeepsReal == SystemInv /\ RefreshEnds => RealInv'
  <1> SUFFICES ASSUME SystemInv, RefreshEnds PROVE RealInv'
    OBVIOUS
  <1> USE DEF SystemInv, PageInv
  <1>1. UNCHANGED logout /\ bare' = 0
    BY RefreshIsOver DEF RefreshSucceeds, RefreshDenied, RefreshMisses, Settle
  <1>2. excused => excused'
    BY DEF RefreshEnds, NoCookie, RefreshBreaks, RefreshReplied
  <1> SUFFICES ASSUME ~excused, ~excused' PROVE RealInv'
    BY <1>2 DEF RealInv
  <1>3. ASSUME NEW c \in Calls, RefreshReplied(c) PROVE RealInv'
    <2>1. Harmless(c) /\ (Server!Granted(c) \/ Server!Denied(c))
      BY <1>3 DEF RefreshReplied, RealInv
    <2>2. call[c].pc = "granted" /\ row[call[c].new] = "live"
      BY <2>1 DEF Server!Granted, Server!Denied, Harmless, Rotates
    <2>3. Server!Granted(c) /\ Cookie' = call[c].new /\ hint'
      BY <1>3, <2>2 DEF RefreshReplied, Server!Denied
    <2>4. \A d \in Calls \ {c} : Harmless(d) /\ sent'[d] = sent[d]
      BY <1>3 DEF RefreshReplied, Await, AwaitInv, RealInv
    <2>5. ~logout'
      BY <1>1 DEF RealInv
    <2> QED
      BY <1>1, <2>2, <2>3, <2>4, <2>5, GrantKeepsReal
  <1>4. CASE NoCookie
    BY <1>1, <1>4, PageLeavesReal DEF NoCookie, RefreshDenied, ClearAuth, RealInv
  <1>5. CASE RefreshBreaks
    <2>1. (auth' => auth) /\ UNCHANGED <<hint, server>>
      BY <1>5 DEF RefreshBreaks, RefreshMisses, ClearAuth
    <2>2. \A c \in Calls : sent[c] = "refresh" /\ Pending(c) => sent'[c] = "refresh"
      BY <1>5 DEF RefreshBreaks, GivesUpOn, Await, AwaitInv, Awaited
    <2> QED
      BY <1>1, <2>1, <2>2, PageLeavesReal DEF RealInv
  <1> QED
    BY <1>3, <1>4, <1>5 DEF RefreshEnds

\* A login that makes a new start owes nothing to what was before.
LEMMA LoginEndsReal == SystemInv /\ LoginEnds => RealInv'
  <1> SUFFICES ASSUME SystemInv, LoginEnds PROVE RealInv'
    OBVIOUS
  <1> USE DEF SystemInv, PageInv
  <1>1. CASE LoginBreaks
    <2>1. UNCHANGED <<auth, hint, logout, bare, excused, server>>
      BY <1>1 DEF LoginBreaks, LoginMisses, memory
    <2>2. \A c \in Calls : sent[c] = "refresh" => sent'[c] = "refresh"
      BY <1>1 DEF LoginBreaks, GivesUpOn, Await, AwaitInv, Awaited
    <2> QED
      BY <2>1, <2>2, PageLeavesReal DEF RealInv
  <1>2. ASSUME NEW c \in Calls, LoginReplied(c) PROVE RealInv'
    <2> SUFFICES ASSUME ~excused' PROVE RealInv'
      BY DEF RealInv
    <2>1. ~(posts > 0) /\ (~excused \/ FreshStart(c))
      BY <1>2 DEF LoginReplied
    <2>2. bare = 0
      BY <2>1 DEF RotationInv
    <2>3. Server!Granted(c) /\ Cookie' = call[c].new /\ hint' /\ UNCHANGED <<logout, bare>>
      BY <1>2 DEF LoginReplied, LoginSucceeds
    <2>4. \A d \in Calls \ {c} : sent'[d] = sent[d]
      BY <1>2 DEF LoginReplied, Await, AwaitInv
    <2>5. call[c].pc = "granted"
      BY <2>3 DEF Server!Granted
    <2>6. CASE ~excused
      <3>1. row[call[c].new] = "live"
        BY <2>5, <2>6 DEF RealInv, Harmless, Rotates
      <3> QED
        BY <2>2, <2>3, <2>4, <2>6, <3>1, GrantKeepsReal DEF RealInv
    <2>7. CASE FreshStart(c)
      <3>1. row[call[c].new] = "live" /\ ~logout
        BY <2>7 DEF FreshStart, Server!Usable
      <3>2. \A d \in Calls \ {c} : Harmless(d)
        BY <2>7 DEF FreshStart, Pending, Harmless
      <3> QED
        BY <2>2, <2>3, <2>4, <3>1, <3>2, GrantKeepsReal
    <2> QED
      BY <2>1, <2>6, <2>7
  <1> QED
    BY <1>1, <1>2 DEF LoginEnds

\* A logout is an excuse.
LEMMA LogoutExcuses == SystemInv /\ LogoutEnds => excused /\ excused'
  BY DEF SystemInv, RealInv, LogoutEnds, LogoutReplied, LogoutBreaks, LogoutReply

\* A reply to nobody brings the browser a token of value, or takes none away.
LEMMA OrphanKeepsReal == ASSUME SystemInv, NEW c \in Calls, Orphaned(c) PROVE RealInv'
  <1> USE DEF SystemInv, PageInv
  <1>1. UNCHANGED <<logout, auth, sent, bare, excused>>
    BY DEF Orphaned, memory, calls
  <1> SUFFICES ASSUME ~excused PROVE RealInv'
    BY <1>1 DEF RealInv
  <1>2. Harmless(c) /\ sent[c] = "nothing" /\ call[c].pc \in {"granted", "denied"}
    BY DEF Orphaned, RealInv, Server!Granted, Server!Denied
  <1>3. call[c].pc = "granted" /\ row[call[c].new] = "live" /\ call[c].old = NoToken
    BY <1>2 DEF Harmless, Rotates
  <1>4. Server!Granted(c)
    BY <1>3 DEF Orphaned, Server!Denied
  <1>5. CASE UNCHANGED <<jar, hint>>
    <2>1. call' = [call EXCEPT ![c] = Server!Idle] /\ UNCHANGED row
      BY <1>4 DEF Server!Granted, Server!table
    <2> QED
      BY <1>1, <1>3, <1>5, <2>1, LostKeepsReal
  <1>6. CASE Cookie' = call[c].new /\ hint' = (Cookie' # NoToken)
    <2>1. Cookie' # NoToken
      BY <1>3, <1>6, SystemAssumption DEF CallInv, Fetched, Server!Minted
    <2>2. ~logout' /\ (auth' => bare' = 0)
      BY <1>1 DEF RealInv
    <2> QED
      BY <1>1, <1>3, <1>4, <1>6, <2>1, <2>2, GrantKeepsReal DEF RealInv
  <1> QED
    BY <1>3, <1>5, <1>6 DEF Orphaned

\* A statement of a harmless call that goes on to another leaves it harmless.
LEMMA StatementKeepsReal ==
  ASSUME ServerInv, RealInv, ~excused, NEW c \in Calls, Harmless(c)',
         \A d \in Calls \ {c} : call'[d] = call[d],
         \A d \in Calls \ {c} : Harmless(d) => Harmless(d)',
         Cookie # NoToken /\ row[Cookie] = "live" =>
             row'[Cookie] = "live" \/ (call'[c].pc = "granted" /\ call'[c].old = Cookie),
         call[c].pc # "granted",
         UNCHANGED <<jar, logout, auth, hint, bare>>
  PROVE  RealInv'
  <1>1. \A d \in Calls : Harmless(d)'
    BY DEF RealInv
  <1>2. CookieHolds'
    BY DEF RealInv, CookieHolds, Cookie
  <1> QED
    BY <1>1, <1>2 DEF RealInv, Cookie

\* One that inserts a token keeps the rows that were there.
LEMMA InsertKeepsReal ==
  ASSUME ServerInv, CallInv, RealInv, ~excused, NEW c \in Calls, NEW t \in Tokens \ Server!Minted,
         NEW to \in {"mark", "granted"}, NEW family, NEW parent,
         Server!Save(t, call[c].user, family, parent),
         call' = [call EXCEPT ![c].new = t, ![c].pc = to],
         call[c].pc = (IF to = "mark" THEN "save" ELSE "login"),
         UNCHANGED <<jar, logout, auth, hint, bare, sent>>
  PROVE  RealInv'
  <1>1. row' = [row EXCEPT ![t] = "live"]
    BY DEF Server!Save
  <1>2. row'[t] = "live" /\ \A s \in Tokens : row[s] = "live" => row'[s] = "live"
    BY <1>1 DEF ServerInv, Server!TypeOK
  <1>3. /\ call'[c].pc = to /\ call'[c].new = t /\ call'[c].old = call[c].old
        /\ \A d \in Calls \ {c} : call'[d] = call[d]
    BY DEF ServerInv, Server!TypeOK
  <1>4. \A d \in Calls : Fetched(d) => call[d].new \in Tokens
    BY DEF CallInv, Server!Minted
  <1>5. \A d \in Calls : Rotates(d) => call[d].old \in Tokens
    BY DEF CallInv, ServerInv, Server!Minted
  <1>6. Harmless(c)'
    BY <1>2, <1>3, <1>5 DEF RealInv, Harmless, Rotates
  <1>7. ASSUME NEW d \in Calls \ {c}, Harmless(d) PROVE Harmless(d)'
    BY <1>2, <1>3, <1>4, <1>5, <1>7 DEF Harmless, Rotates, Fetched
  <1>8. Cookie # NoToken => Cookie \in Tokens
    BY DEF ServerInv, Server!TypeOK, Cookie
  <1> QED
    BY <1>2, <1>3, <1>6, <1>7, <1>8, StatementKeepsReal

\* The server's statements keep a session real: no call of the tab finds a token
\* that is used or gone, so none is answered by a 401 or taken for a theft.
LEMMA HandlesKeepsReal == ASSUME SystemInv, NEW c \in Calls, Handles(c) PROVE RealInv'
  <1> USE DEF SystemInv, PageInv
  <1>0. UNCHANGED <<logout, auth, hint, bare, sent, excused>>
    BY DEF Handles, vars, memory, calls
  <1> SUFFICES ASSUME ~excused PROVE RealInv'
    BY <1>0 DEF RealInv
  <1>1. Harmless(c)
    BY DEF RealInv
  <1>2. ASSUME NEW to \in {"user", "save"}, Rotates(c), call[c].pc # "mark",
               call' = [call EXCEPT ![c].pc = to], UNCHANGED <<row, jar>>
        PROVE  RealInv'
    <2>1. /\ call'[c].pc = to /\ call'[c].old = call[c].old
          /\ \A d \in Calls \ {c} : call'[d] = call[d]
      BY <1>2 DEF ServerInv, Server!TypeOK
    <2>2. Harmless(c)'
      BY <1>0, <1>1, <1>2, <2>1 DEF Harmless, Rotates
    <2>3. \A d \in Calls \ {c} : Harmless(d) => Harmless(d)'
      BY <1>0, <1>2, <2>1 DEF Harmless, Rotates
    <2>4. call[c].pc # "granted"
      BY <1>2 DEF Rotates
    <2> QED
      BY <1>0, <1>2, <2>1, <2>2, <2>3, <2>4, StatementKeepsReal
  <1>3. CASE Server!FindByHash(c)
    <2>1. Rotates(c) /\ call[c].pc = "find" /\ row[call[c].old] = "live"
      BY <1>1, <1>3 DEF Server!FindByHash, Harmless, Rotates
    <2>2. call' = [call EXCEPT ![c].pc = "user"]
      BY <1>3, <2>1 DEF Server!FindByHash, Server!Goto, ServerInv
    <2> QED
      BY <1>2, <1>3, <2>1, <2>2 DEF Server!FindByHash, Server!table
  <1>4. CASE Server!FindByID(c)
    <2>1. Rotates(c) /\ call[c].pc = "user"
      BY <1>4 DEF Server!FindByID, Rotates
    <2>2. call[c].user \in users
      BY <2>1 DEF CallInv, ServerInv
    <2>3. call' = [call EXCEPT ![c].pc = "save"]
      BY <1>4, <2>2 DEF Server!FindByID, Server!Goto, Server!Following
    <2> QED
      BY <1>2, <1>4, <2>1, <2>3 DEF Server!FindByID, Server!table
  <1>5. CASE Server!SaveNew(c)
    <2>1. PICK t \in Tokens \ Server!Minted :
            /\ Server!Save(t, call[c].user, about[call[c].old].login, call[c].old)
            /\ call' = [call EXCEPT ![c].new = t, ![c].pc = Server!Following.save]
      BY <1>5 DEF Server!SaveNew, Server!GenerateRefreshToken
    <2>2. call' = [call EXCEPT ![c].new = t, ![c].pc = "mark"]
      BY <2>1 DEF Server!Following
    <2>3. call[c].pc = "save" /\ UNCHANGED jar
      BY <1>5 DEF Server!SaveNew
    <2> QED
      BY <1>0, <2>1, <2>2, <2>3, InsertKeepsReal
  <1>6. CASE Server!LoginSave(c)
    <2>1. PICK t \in Tokens \ Server!Minted :
            /\ Server!Save(t, call[c].user, t, NoToken)
            /\ call' = [call EXCEPT ![c].new = t, ![c].pc = "granted"]
      BY <1>6 DEF Server!LoginSave, Server!GenerateRefreshToken
    <2>2. call[c].pc = "login" /\ UNCHANGED jar
      BY <1>6 DEF Server!LoginSave
    <2> QED
      BY <1>0, <2>1, <2>2, InsertKeepsReal
  <1>7. CASE Server!MarkUsed(c)
    <2> DEFINE old == call[c].old
    <2>1. /\ call[c].pc = "mark" /\ sent[c] = "refresh"
          /\ row[old] = "live" /\ row[call[c].new] = "live"
      BY <1>1, <1>7 DEF Server!MarkUsed, Harmless, Rotates
    <2>2. old \in answered /\ old \in Tokens
      BY <2>1 DEF CallInv, Rotates, ServerInv, Server!Minted
    <2>3. row' = [row EXCEPT ![old] = "used"] /\ call' = [call EXCEPT ![c].pc = "granted"]
      BY <1>7, <2>1, <2>2
         DEF Server!MarkUsed, Server!Affected, Server!Goto, Server!Following, ServerInv,
             Server!TypeOK
    <2>4. \A s \in Tokens \ {old} : row'[s] = row[s]
      BY <2>2, <2>3 DEF ServerInv, Server!TypeOK
    <2>5. \A d \in Calls : Fetched(d) => call[d].new \in Tokens \ {old}
      BY <2>2 DEF CallInv, Server!Minted
    <2>6. /\ call'[c].pc = "granted" /\ call'[c].old = old /\ call'[c].new = call[c].new
          /\ \A d \in Calls \ {c} : call'[d] = call[d]
      BY <2>3 DEF ServerInv, Server!TypeOK
    <2>7. Harmless(c)'
      BY <1>0, <2>1, <2>4, <2>5, <2>6 DEF Harmless, Fetched
    <2>8. \A d \in Calls \ {c} : sent[d] # "refresh"
      BY <2>1 DEF RotationInv, NoneAwaited, OneAwaited
    <2>9. ASSUME NEW d \in Calls \ {c}, Harmless(d) PROVE Harmless(d)'
      BY <1>0, <2>4, <2>5, <2>6, <2>8, <2>9 DEF Harmless, Rotates, Fetched
    <2>10. Cookie # NoToken => Cookie \in Tokens
      BY DEF ServerInv, Server!TypeOK, Cookie
    <2>11. UNCHANGED jar
      BY <1>7 DEF Server!MarkUsed
    <2> QED
      BY <1>0, <2>1, <2>4, <2>6, <2>7, <2>9, <2>10, <2>11, StatementKeepsReal
  <1>8. CASE Server!Revoke(c) \/ Server!Logout(c)
    BY <1>1, <1>8 DEF Server!Revoke, Server!Logout, Harmless, Rotates
  <1>9. CASE Server!Fail(c)
    <2>1. call' = [call EXCEPT ![c] = Server!Idle] /\ UNCHANGED <<row, jar>>
      BY <1>9 DEF Server!Fail, Server!OnError, Server!table
    <2>2. call[c].pc # "granted"
      BY <1>9 DEF Server!Fail, Server!Fallible
    <2> QED
      BY <1>0, <2>1, <2>2, LostKeepsReal
  <1> QED
    BY <1>3, <1>4, <1>5, <1>6, <1>7, <1>8, <1>9 DEF Handles

\* A session is real until there is an excuse.
LEMMA RealKept == SystemInv /\ [SystemNext]_system => RealInv'
  <1> SUFFICES ASSUME SystemInv, [SystemNext]_system PROVE RealInv'
    OBVIOUS
  <1>1. RealInv
    BY DEF SystemInv
  <1>2. CASE Asks(TimerFires)
    <2>1. Refresh /\ UNCHANGED <<auth, hint, logout, excused>>
      BY <1>2 DEF Asks, TimerFires, calls
    <2> QED
      BY <1>2, <2>1, AskKeepsReal DEF Asks
  <1>3. CASE Asks(Bootstrap)
    <2>1. (Refresh \/ UNCHANGED posts) /\ UNCHANGED <<auth, hint, logout, excused>>
      BY <1>3 DEF Asks, Bootstrap, calls
    <2> QED
      BY <1>3, <2>1, AskKeepsReal DEF Asks
  <1>4. ASSUME NEW f \in Fetches, Asks(FetchReply(f)) PROVE RealInv'
    <2>1. (Refresh \/ UNCHANGED posts) /\ UNCHANGED <<auth, hint, logout, excused>>
      BY <1>4 DEF Asks, FetchReply
    <2> QED
      BY <1>4, <2>1, AskKeepsReal DEF Asks
  <1>5. CASE SendLogout \/ EndsElsewhere
    BY <1>5 DEF SendLogout, EndsElsewhere, RealInv
  <1>6. CASE Leave
    <2>1. ~auth' /\ ~logout' /\ UNCHANGED server
      BY <1>6 DEF Leave, Reload
    <2>2. ~excused' => ~excused /\ \A c \in Calls : ~(sent[c] = "refresh" /\ Pending(c))
      BY <1>6 DEF Leave, Awaited
    <2> QED
      BY <1>1, <2>1, <2>2, PageLeavesReal
  <1>7. CASE TabAlone \/ UNCHANGED system
    <2>1. UNCHANGED <<server, sent, bare, excused, auth, hint, logout>>
      BY <1>7 DEF TabAlone, Fetch, FetchAgainReply, OutageBegins, system, vars, memory, calls
    <2> QED
      BY <1>1, <2>1, PageLeavesReal DEF RealInv
  <1>8. CASE LogoutEnds
    BY <1>8, LogoutExcuses DEF RealInv
  <1> QED
    BY <1>2, <1>3, <1>4, <1>5, <1>6, <1>7, <1>8, LoginKeepsReal, RefreshKeepsReal, LoginEndsReal,
       HandlesKeepsReal, OrphanKeepsReal DEF SystemNext

---------------------------------------------------------------------------
(* The theorems. *)

\* No step of the tab, of the server or between them breaks the invariant.
LEMMA SystemStep == SystemInv /\ [SystemNext]_system => SystemInv'
  BY ServerKept, FlagsKept, ShapeKept, RotationKept, TimerKept, AwaitKept, TroubleKept, RealKept
     DEF SystemInv, PageInv

\* The invariant holds.
LEMMA SystemInvHolds == SystemSpec => []SystemInv
  BY SystemStart, SystemStep, PTL DEF SystemSpec

\* Both sides stay well formed, the troubles stay in their bound, and what the
\* page awaits of the server are calls that it has made.
THEOREM SystemWellFormed == SystemSpec => []SystemTypeOK
  <1>1. SystemInv => SystemTypeOK
    <2> SUFFICES ASSUME SystemInv PROVE SystemTypeOK
      OBVIOUS
    <2> USE DEF SystemInv, PageInv
    <2>1. timers \in Nat /\ posts \in Nat
      BY DEF RotationInv, TimerInv
    <2>2. TypeOK
      BY <2>1 DEF TypeOK, Flags, Shape
    <2>3. bare + Cardinality(Awaited("refresh")) <= posts
      <3>1. CASE NoneAwaited
        <4>1. Awaited("refresh") = {}
          BY <3>1 DEF NoneAwaited, Awaited
        <4>2. Cardinality(Awaited("refresh")) = 0
          BY <4>1, FS_EmptySet
        <4> QED
          BY <4>2 DEF RotationInv
      <3>2. CASE ~NoneAwaited
        <4>1. PICK c \in Calls : sent[c] = "refresh"
          BY <3>2 DEF NoneAwaited
        <4>2. posts = 1 /\ bare = 0 /\ OneAwaited
          BY <3>2 DEF RotationInv
        <4>3. Awaited("refresh") = {c}
          BY <4>1, <4>2 DEF Awaited, OneAwaited
        <4>4. Cardinality(Awaited("refresh")) = 1
          BY <4>3, FS_Singleton
        <4> QED
          BY <4>2, <4>4
      <3> QED
        BY <3>1, <3>2
    <2> QED
      BY <2>2, <2>3 DEF SystemTypeOK, ServerInv, AwaitInv, TroubleInv, Awaited
  <1> QED
    BY <1>1, SystemInvHolds, PTL

\* With a server that may answer anything in any order, there is one rotation in
\* flight, and it or a timer whenever the tab is signed in.
THEOREM TabTended == SystemSpec => []Tended
  <1>1. SystemInv => Tended
    BY DEF SystemInv, PageInv, RotationInv, TimerInv, Tended, OneRotation, SessionIsTended
  <1> QED
    BY <1>1, SystemInvHolds, PTL

\* Whoever is shown as signed in, without an excuse, has a refresh token that the
\* server takes, or is about to get one.
THEOREM RealSession == SystemSpec => []SessionIsReal
  <1>1. SystemInv => SessionIsReal
    <2> SUFFICES ASSUME SystemInv, auth, ~excused PROVE SessionLives
      BY DEF SessionIsReal
    <2>1. Cookie # NoToken /\ CookieHolds /\ expired = {}
      BY DEF SystemInv, RealInv, ServerInv
    <2>2. CASE row[Cookie] = "live"
      BY <2>1, <2>2 DEF SessionLives, Server!Usable
    <2>3. ASSUME NEW c \in Calls, call[c].pc = "granted" PROVE SessionLives
      <3>1. row[call[c].new] = "live"
        BY <2>3 DEF SystemInv, RealInv, Harmless, Rotates
      <3> QED
        BY <2>1, <2>3, <3>1 DEF SessionLives, Server!Usable
    <2> QED
      BY <2>1, <2>2, <2>3 DEF CookieHolds
  <1> QED
    BY <1>1, SystemInvHolds, PTL

\* A tab signs its user out only for cause.
THEOREM OutOnlyForCause == SystemSpec => StaysSignedIn
  <1> DEFINE Cause == excused \/ page' = "loading" \/ (retries = MaxRetries /\ hint')
  <1>1. SystemInv /\ [SystemNext]_system => [auth /\ ~auth' => Cause]_system
    <2> SUFFICES ASSUME SystemInv, [SystemNext]_system, auth, ~auth', ~excused
                 PROVE  page' = "loading" \/ (retries = MaxRetries /\ hint')
      OBVIOUS
    <2>1. hint /\ bare = 0 /\ \A c \in Calls : Harmless(c)
      BY DEF SystemInv, RealInv
    <2>2. CASE RefreshMisses
      <3>1. ~BudgetLeft
        BY <2>2 DEF RefreshMisses
      <3>2. retries = MaxRetries
        BY <3>1, SessionAssumption DEF BudgetLeft, SystemInv, PageInv, Shape
      <3>3. hint'
        BY <2>1, <2>2 DEF RefreshMisses
      <3> QED
        BY <3>2, <3>3
    <2>3. CASE RefreshEnds
      <3>1. ~NoCookie
        BY <2>1 DEF NoCookie
      <3>2. ASSUME NEW c \in Calls, RefreshReplied(c) PROVE RefreshMisses
        <4>1. ~Server!Denied(c)
          BY <2>1 DEF Server!Denied, Harmless, Rotates
        <4>2. ~RefreshSucceeds
          BY DEF RefreshSucceeds
        <4> QED
          BY <3>2, <4>1, <4>2 DEF RefreshReplied
      <3> QED
        BY <2>2, <2>3, <3>1, <3>2 DEF RefreshEnds, RefreshBreaks
    <2>4. CASE Asks(TimerFires) \/ Asks(Bootstrap) \/ \E f \in Fetches : Asks(FetchReply(f))
      BY <2>4 DEF Asks, TimerFires, Bootstrap, FetchReply
    <2>5. CASE SendLogin \/ SendLogout
      BY <2>5 DEF SendLogin, SendLogout, Login, Logout, memory
    <2>6. CASE LoginEnds
      BY <2>6 DEF LoginEnds, LoginBreaks, LoginReplied, LoginSucceeds, LoginMisses, memory
    <2>7. CASE LogoutEnds
      BY <2>7, LogoutExcuses
    <2>8. ASSUME NEW c \in Calls, Handles(c) \/ Orphaned(c) PROVE FALSE
      BY <2>8 DEF Handles, Orphaned, vars, memory
    <2>9. CASE Leave
      BY <2>9 DEF Leave, Reload
    <2>10. CASE TabAlone \/ EndsElsewhere \/ UNCHANGED system
      BY <2>10 DEF TabAlone, Fetch, FetchAgainReply, OutageBegins, EndsElsewhere, system, vars,
         memory
    <2> QED
      BY <2>3, <2>4, <2>5, <2>6, <2>7, <2>8, <2>9, <2>10 DEF SystemNext
  <1> QED
    BY <1>1, SystemInvHolds, PTL DEF SystemSpec, StaysSignedIn
=============================================================================
