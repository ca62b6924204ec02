--------------------------- MODULE TokenRotation ---------------------------
(***************************************************************************)
(* Refresh tokens: rotation, reuse detection and revocation                *)
(* (app/application/auth/command/refresh_token.go, logout.go, the token    *)
(* half of login.go, app/infrastructure/sqlite/token/repository.go and the *)
(* cookie handling of app/presentation/http/handler/auth.go).              *)
(*                                                                         *)
(* RefreshToken runs outside the bus transaction: each of its statements   *)
(* is a step of its own that commits alone, and the calls of several       *)
(* browsers and tabs interleave between them.  A token stands for the hash *)
(* in the table and for the raw value in the cookie jar alike.             *)
(***************************************************************************)
EXTENDS Naturals, FiniteSets

CONSTANTS
    Users, Browsers, Tokens,
    Calls,          \* HTTP calls in flight, from any tab of any browser
    NoToken, NoUser,
    MaxFaults,      \* bound on statements that fail with a transient error
    Events          \* what may happen besides logins and refreshes

ASSUME TokenAssumption ==
    /\ Browsers # {}
    /\ NoToken \notin Tokens
    /\ NoUser \notin Users
    /\ MaxFaults \in Nat
    /\ Events \subseteq {"lose", "expire", "logout", "delete_user"}

VARIABLES
    users,     \* rows of the users table
    row,       \* row of each token: "absent", "live" (used_at IS NULL), "used"
    expired,   \* tokens whose expires_at has passed
    about,     \* owner, login (the token its family began with) and parent
    jar,       \* refresh cookie of each browser
    call,      \* calls in flight
    faults,    \* transient errors so far
    \* History, read by the properties only:
    answered,  \* tokens handed to a browser, or to a reply that was lost
    denied,    \* tokens whose bearer was told that its user's session is over
    revoked    \* families whose rows were deleted as a whole

table == <<users, row, expired, about>>
history == <<answered, denied, revoked>>
vars == <<table, jar, call, faults, history>>

Idle == [pc |-> "idle", at |-> CHOOSE b \in Browsers : TRUE, user |-> NoUser,
         old |-> NoToken, new |-> NoToken]

Minted == {t \in Tokens : about[t].owner # NoUser}

\* A new token is unlike all that were ever minted: 128 random bits.
GenerateRefreshToken == Tokens \ Minted

Owned(u) == {t \in Tokens : about[t].owner = u}
Usable(t) == row[t] = "live" /\ t \notin expired

\* Calls that may still mint a token; a call starts only when one is left for
\* it, so that the finite set of tokens never blocks a call half-way.
Minting == {c \in Calls : call[c].pc \in {"find", "user", "save", "mark", "login"}
                          /\ call[c].new = NoToken}
TokenLeft == Cardinality(Minting) < Cardinality(GenerateRefreshToken)

---------------------------------------------------------------------------
(* Statements of the token repository. *)

\* The UPDATE of MarkUsed touches one row: token_hash=? AND used_at IS NULL.
BadAffectedAnyRow(t) == row[t] # "absent"
BadAffectedNoCheck(t) == row[t] # "used"
Affected(t) == row[t] = "live"

\* DELETE FROM refresh_tokens WHERE user_id=?, by whichever caller.
DeleteByUserID(u) ==
    row' = [t \in Tokens |-> IF t \in Owned(u) THEN "absent" ELSE row[t]]

\* INSERT of a new row; the foreign key demands that the user still exists.
Save(t, u, login, parent) ==
    /\ u \in users
    /\ row' = [row EXCEPT ![t] = "live"]
    /\ about' = [about EXCEPT ![t] = [owner |-> u, login |-> login, parent |-> parent]]

\* Everything that was minted for u before belongs to a revoked family.
Families(u) == {about[t].login : t \in Owned(u)}

---------------------------------------------------------------------------
(* Steps of RefreshTokenHandler.Handle. *)

\* The order of the statements after the lookup of the user: the replacement
\* is saved before the old token is consumed.
BadFollowing == [user |-> "mark", mark |-> "save", save |-> "granted"]
Following == [user |-> "save", save |-> "mark", mark |-> "granted"]

Goto(c, pc) == call' = [call EXCEPT ![c].pc = pc]

\* An AuthError: the reply clears the cookie.
Deny(c) ==
    /\ Goto(c, "denied")
    /\ denied' = denied \cup {t \in Owned(call[c].user) : t = call[c].old}

Send(c, b) ==
    /\ call[c].pc = "idle" /\ jar[b] # NoToken /\ TokenLeft
    /\ call' = [call EXCEPT ![c] = [pc |-> "find", at |-> b, user |-> about[jar[b]].owner,
                                    old |-> jar[b], new |-> NoToken]]
    /\ UNCHANGED <<table, jar, faults, history>>

FindByHash(c) ==
    /\ call[c].pc = "find"
    /\ LET t == call[c].old IN
       \/ row[t] = "absent" /\ Deny(c)
       \/ row[t] = "used" /\ Goto(c, "revoke") /\ UNCHANGED denied
       \/ row[t] = "live" /\ t \in expired /\ Goto(c, "lapse") /\ UNCHANGED denied
       \/ Usable(t) /\ Goto(c, "user") /\ UNCHANGED denied
    /\ UNCHANGED <<table, jar, faults, answered, revoked>>

FindByID(c) ==
    /\ call[c].pc = "user"
    /\ \/ call[c].user \in users /\ Goto(c, Following.user) /\ UNCHANGED denied
       \/ call[c].user \notin users /\ Deny(c)
    /\ UNCHANGED <<table, jar, faults, answered, revoked>>

SaveNew(c) ==
    /\ call[c].pc = "save"
    /\ \E t \in GenerateRefreshToken :
         /\ Save(t, call[c].user, about[call[c].old].login, call[c].old)
         /\ call' = [call EXCEPT ![c].new = t, ![c].pc = Following.save]
    /\ UNCHANGED <<users, expired, jar, faults, history>>

MarkUsed(c) ==
    /\ call[c].pc = "mark"
    /\ LET t == call[c].old IN
       \/ /\ Affected(t)
          /\ row' = [row EXCEPT ![t] = IF @ = "live" THEN "used" ELSE @]
          /\ Goto(c, Following.mark)
       \/ ~Affected(t) /\ Goto(c, "revoke") /\ UNCHANGED row
    /\ UNCHANGED <<users, expired, about, jar, faults, history>>

\* The theft response: a deletion that succeeds is answered by an AuthError,
\* one that fails by the raw error (see Fail).
Revoke(c) ==
    /\ call[c].pc = "revoke"
    /\ DeleteByUserID(call[c].user)
    /\ revoked' = revoked \cup Families(call[c].user)
    /\ Deny(c)
    /\ UNCHANGED <<users, expired, about, jar, faults, answered>>

\* The clean-up after an expired token is best effort: its error is dropped.
Lapse(c) ==
    /\ call[c].pc = "lapse"
    /\ \/ DeleteByUserID(call[c].user) /\ revoked' = revoked \cup Families(call[c].user)
          /\ UNCHANGED faults
       \/ faults < MaxFaults /\ faults' = faults + 1 /\ UNCHANGED <<row, revoked>>
    /\ Deny(c)
    /\ UNCHANGED <<users, expired, about, jar, answered>>

---------------------------------------------------------------------------
(* Login (from the verified password on) and logout. *)

Login(c, b, u) ==
    /\ call[c].pc = "idle" /\ u \in users /\ TokenLeft
    /\ call' = [call EXCEPT ![c] = [pc |-> "login", at |-> b, user |-> u,
                                    old |-> NoToken, new |-> NoToken]]
    /\ UNCHANGED <<table, jar, faults, history>>

LoginSave(c) ==
    /\ call[c].pc = "login"
    /\ \E t \in GenerateRefreshToken :
         /\ Save(t, call[c].user, t, NoToken)
         /\ call' = [call EXCEPT ![c].new = t, ![c].pc = "granted"]
    /\ UNCHANGED <<users, expired, jar, faults, history>>

\* The access token says who logs out, whatever cookie the browser has.
SendLogout(c, b, u) ==
    /\ "logout" \in Events
    /\ call[c].pc = "idle"
    /\ call' = [call EXCEPT ![c] = [pc |-> "logout", at |-> b, user |-> u,
                                    old |-> jar[b], new |-> NoToken]]
    /\ UNCHANGED <<table, jar, faults, history>>

\* LogoutHandler.Handle and the commit of its bus transaction.
Logout(c) ==
    /\ call[c].pc = "logout"
    /\ DeleteByUserID(call[c].user)
    /\ revoked' = revoked \cup Families(call[c].user)
    /\ Deny(c)
    /\ UNCHANGED <<users, expired, about, jar, faults, answered>>

---------------------------------------------------------------------------
(* Errors and replies. *)

\* Any statement can fail without effect; the error goes out raw (5xx) and
\* leaves the cookie alone.  The foreign key makes Save fail for good.
Fallible == {"find", "user", "save", "mark", "revoke", "login", "logout"}
BadOnError(c) == IF call[c].old = NoToken THEN Goto(c, "idle") /\ UNCHANGED denied ELSE Deny(c)
OnError(c) == call' = [call EXCEPT ![c] = Idle] /\ UNCHANGED denied

Fail(c) ==
    /\ call[c].pc \in Fallible
    /\ \/ faults < MaxFaults /\ faults' = faults + 1
       \/ call[c].pc \in {"save", "login"} /\ call[c].user \notin users /\ UNCHANGED faults
    /\ OnError(c)
    /\ UNCHANGED <<table, jar, answered, revoked>>

\* writeAuthResponse, and the browser that takes its Set-Cookie.
Granted(c) ==
    /\ call[c].pc = "granted"
    /\ answered' = answered \cup {call[c].new}
    /\ \/ jar' = [jar EXCEPT ![call[c].at] = call[c].new]
       \/ "lose" \in Events /\ UNCHANGED jar
    /\ call' = [call EXCEPT ![c] = Idle]
    /\ UNCHANGED <<table, faults, denied, revoked>>

\* clearRefreshCookie, and the browser that drops whatever cookie it has by now.
Denied(c) ==
    /\ call[c].pc = "denied"
    /\ \/ jar' = [jar EXCEPT ![call[c].at] = NoToken]
       \/ "lose" \in Events /\ UNCHANGED jar
    /\ call' = [call EXCEPT ![c] = Idle]
    /\ UNCHANGED <<table, faults, history>>

---------------------------------------------------------------------------
(* The environment. *)

Expire(t) ==
    /\ "expire" \in Events /\ t \notin expired /\ row[t] # "absent"
    /\ expired' = expired \cup {t}
    /\ UNCHANGED <<users, row, about, jar, call, faults, history>>

\* The scheduled job cleanup:expired-refresh-tokens.
DeleteExpired ==
    /\ \E t \in expired : row[t] # "absent"
    /\ row' = [t \in Tokens |-> IF t \in expired THEN "absent" ELSE row[t]]
    /\ UNCHANGED <<users, expired, about, jar, call, faults, history>>

\* DeleteUser's commit; ON DELETE CASCADE takes the tokens along.
DeleteUser(u) ==
    /\ "delete_user" \in Events /\ u \in users
    /\ users' = users \ {u}
    /\ DeleteByUserID(u)
    /\ revoked' = revoked \cup Families(u)
    /\ UNCHANGED <<expired, about, jar, call, faults, answered, denied>>

---------------------------------------------------------------------------
Init ==
    /\ users = Users
    /\ row = [t \in Tokens |-> "absent"]
    /\ expired = {}
    /\ about = [t \in Tokens |-> [owner |-> NoUser, login |-> NoToken, parent |-> NoToken]]
    /\ jar = [b \in Browsers |-> NoToken]
    /\ call = [c \in Calls |-> Idle]
    /\ faults = 0
    /\ answered = {} /\ denied = {} /\ revoked = {}

Step(c) ==
    \/ FindByHash(c) \/ FindByID(c) \/ SaveNew(c) \/ MarkUsed(c) \/ Revoke(c) \/ Lapse(c)
    \/ LoginSave(c) \/ Logout(c) \/ Fail(c) \/ Granted(c) \/ Denied(c)

Next ==
    \/ \E c \in Calls : Step(c)
    \/ \E c \in Calls, b \in Browsers : Send(c, b)
    \/ \E c \in Calls, b \in Browsers, u \in Users : Login(c, b, u) \/ SendLogout(c, b, u)
    \/ \E t \in Tokens : Expire(t)
    \/ DeleteExpired
    \/ \E u \in Users : DeleteUser(u)

Spec == Init /\ [][Next]_vars

---------------------------------------------------------------------------
(* Properties. *)

CallPCs == Fallible \cup {"idle", "lapse", "granted", "denied"}

\* The state has the shape the tables, the cookie jars and the calls have.
TypeOK ==
    /\ users \subseteq Users
    /\ row \in [Tokens -> {"absent", "live", "used"}]
    /\ expired \subseteq Tokens
    /\ about \in [Tokens -> [owner : Users \cup {NoUser}, login : Tokens \cup {NoToken},
                             parent : Tokens \cup {NoToken}]]
    /\ jar \in [Browsers -> Tokens \cup {NoToken}]
    /\ call \in [Calls -> [pc : CallPCs, at : Browsers, user : Users \cup {NoUser},
                           old : Tokens \cup {NoToken}, new : Tokens \cup {NoToken}]]
    /\ faults \in 0 .. MaxFaults
    /\ answered \subseteq Tokens /\ denied \subseteq Tokens
    /\ revoked \subseteq Tokens \cup {NoToken}

\* A refresh token buys one successor at most, however many tabs and bearers
\* present it at once: MarkUsed is a compare-and-swap.
SingleUse ==
    \A s, t \in answered :
        about[s].parent = about[t].parent /\ about[s].parent # NoToken => s = t

\* After a theft response, a logout or the deletion of the user, no token
\* that descends from an earlier login is ever live in anybody's hands again,
\* whatever rotations were half-way (Save comes before MarkUsed).
RevocationHolds ==
    \A t \in answered : about[t].login \in revoked => row[t] # "live"

\* Who is told that the session is over holds nothing of value: a 401 or a
\* logout's 204 is sent only for a token that can never be used again.
DeniedIsUseless == \A t \in denied : ~Usable(t)

\* What the handler says when MarkUsed touches no row and it reports a theft:
\* "a concurrent request rotated it first" (refresh_token.go:149).
Rotated == {about[t].parent : t \in answered} \cup
           {call[c].old : c \in {d \in Calls : call[d].pc = "granted"}}
RaceMeansRotated ==
    [][\A c \in Calls : call[c].pc = "mark" /\ call'[c].pc = "revoke"
                         => call[c].old \in Rotated]_vars

\* What a reader who sees neither calls nor replacements saved in vain knows of
\* the sessions: the granted tokens and which of them still bears its login.
Issued == answered \cup {call[c].new : c \in {d \in Calls : call[d].pc = "granted"}}
Bearer == [s \in Tokens |-> {t \in Issued : about[t].login = s /\ row[t] = "live"}]

Chain == INSTANCE SessionChain WITH Token <- Tokens, bearer <- Bearer, issued <- Issued

\* Rotation implements its promise: whatever calls overlap, fail or are caught
\* by a revocation between Save and MarkUsed, each login has one chain of
\* tokens, of which the last alone is live, and a chain that has ended stays so.
OneChainPerLogin == Chain!Spec
=============================================================================
