----------------------------- MODULE UserAdmin -----------------------------
(***************************************************************************)
(* The administration of users and the rights to it: the user commands     *)
(* (app/application/user/command), access tokens that carry the role       *)
(* (app/infrastructure/security/jwt.go), the middleware that reads them,   *)
(* and the console, which creates users outside the bus.                   *)
(*                                                                         *)
(* A command of the bus is one step: its transaction begins with the write *)
(* lock (see CommandBus for what happens inside and around it).  The rights *)
(* of a request are those its access token had when it arrived.            *)
(***************************************************************************)
EXTENDS Integers

CONSTANTS
    Users, Names, Calls,
    Life,           \* ticks an access token is valid
    Patience,       \* ticks a sign-in or a request may take
    Nobody          \* who calls from the console

ASSUME AdminAssumption ==
    /\ Life \in Nat \ {0} /\ Patience \in Nat
    /\ Nobody \notin Users

VARIABLES
    row,        \* the users table: name and role of each user that exists
    access,     \* per user, time left to the best access token with role admin
    call,       \* sign-ins, requests of administrators and console commands
    ceased      \* history: ticks since the row last said admin

vars == <<row, access, call, ceased>>

Absent == [name |-> "none", role |-> "none"]
Present == {u \in Users : row[u] # Absent}
Admins == {u \in Users : row[u].role = "admin"}

\* Longer than any right can last after the role is gone.
Far == Life + 2 * Patience
Older(ticks) == IF ticks < Far THEN ticks + 1 ELSE Far

Idle == [pc |-> "idle", actor |-> Nobody, role |-> "none", name |-> "none", left |-> 0, age |-> 0]
Leave(c) == call' = [call EXCEPT ![c] = Idle]

---------------------------------------------------------------------------
(* Sign-in and refresh, as far as the claims are concerned. *)

\* The role that goes into the claims is read from the row each time.
BadRoleOf(u) == IF access[u] > 0 THEN "admin" ELSE row[u].role
RoleOf(u) == row[u].role

\* FindByNickname of a login or FindByID of a refresh.
Read(c, u) ==
    /\ call[c].pc = "idle" /\ u \in Present
    /\ call' = [call EXCEPT ![c] = [Idle EXCEPT !.pc = "read", !.actor = u, !.role = RoleOf(u)]]
    /\ UNCHANGED <<row, access, ceased>>

\* GenerateAccessToken signs the role that was read, for Life from now on.
Mint(c) ==
    /\ call[c].pc = "read"
    /\ call' = [call EXCEPT ![c].pc = "minted", ![c].left = Life]
    /\ UNCHANGED <<row, access, ceased>>

\* The refresh token is saved, which takes a user that exists.
Save(c) ==
    /\ call[c].pc = "minted" /\ call[c].actor \in Present
    /\ call' = [call EXCEPT ![c].pc = "saved"]
    /\ UNCHANGED <<row, access, ceased>>

\* The reply takes the access token along, whatever became of the user.
Deliver(c) ==
    /\ call[c].pc = "saved"
    /\ access' = [access EXCEPT ![call[c].actor] =
                    IF call[c].role = "admin" /\ call[c].left > @ THEN call[c].left ELSE @]
    /\ Leave(c)
    /\ UNCHANGED <<row, ceased>>

---------------------------------------------------------------------------
(* Requests of administrators. *)

\* ValidateAccessToken and IsPermissionAllowedForRole: a token that says admin
\* and has not expired.
Admitted(u) == access[u] > 0

\* AuthMiddleware and AuthorizeMiddleware look at the token and never at the row.
Arrive(c, u) ==
    /\ call[c].pc = "idle" /\ Admitted(u)
    /\ call' = [call EXCEPT ![c] = [Idle EXCEPT !.pc = "arrived", !.actor = u, !.role = "admin"]]
    /\ UNCHANGED <<row, access, ceased>>

NameFree(n, u) == \A v \in Present \ {u} : row[v].name # n

\* Save and Update obey the UNIQUE index on nickname.
BadPut(u, n, role) == row' = [row EXCEPT ![u] = [name |-> n, role |-> role]]
Put(u, n, role) == NameFree(n, u) /\ row' = [row EXCEPT ![u] = [name |-> n, role |-> role]]

\* ceased follows the rows.
Note == ceased' = [u \in Users |-> IF row'[u].role = "admin" THEN 0 ELSE ceased[u]]

\* NewUser takes a new id: no token and no call knows it from a user before.
New(u) == u \notin Present /\ access[u] = 0 /\ \A c \in Calls : call[c].actor # u

CreateUser(c, u, n, role) ==
    /\ call[c].pc = "arrived"
    /\ New(u)
    /\ Put(u, n, role)
    /\ Leave(c) /\ Note
    /\ UNCHANGED access

\* The guard against locking oneself out of the administration.
BadDemotesSelf(c, u, role) == FALSE
DemotesSelf(c, u, role) == call[c].actor = u /\ role # "admin"

UpdateUser(c, u, n, role) ==
    /\ call[c].pc = "arrived"
    /\ u \in Present /\ ~DemotesSelf(c, u, role)
    /\ Put(u, n, role)
    /\ Leave(c) /\ Note
    /\ UNCHANGED access

DeleteUser(c, u) ==
    /\ call[c].pc = "arrived"
    /\ u \in Present /\ u # call[c].actor
    /\ row' = [row EXCEPT ![u] = Absent]
    /\ Leave(c) /\ Note
    /\ UNCHANGED access

---------------------------------------------------------------------------
(* create-user and seed: two statements on the pool, no transaction. *)

LookUp(c, n) ==
    /\ call[c].pc = "idle" /\ NameFree(n, Nobody)
    /\ call' = [call EXCEPT ![c] = [Idle EXCEPT !.pc = "looked", !.name = n]]
    /\ UNCHANGED <<row, access, ceased>>

Insert(c, u, role) ==
    /\ call[c].pc = "looked"
    /\ New(u)
    /\ Put(u, call[c].name, role)
    /\ Leave(c) /\ Note
    /\ UNCHANGED access

---------------------------------------------------------------------------
\* A wrong password, a refused refresh, a validation error, a failed statement.
Fail(c) ==
    /\ call[c].pc # "idle"
    /\ Leave(c)
    /\ UNCHANGED <<row, access, ceased>>

Tick ==
    /\ \A c \in Calls : call[c].age < Patience
    /\ access' = [u \in Users |-> IF access[u] > 0 THEN access[u] - 1 ELSE 0]
    /\ call' = [c \in Calls |-> IF call[c].pc = "idle" THEN Idle
                                ELSE [call[c] EXCEPT !.age = @ + 1,
                                                     !.left = IF @ > 0 THEN @ - 1 ELSE 0]]
    /\ ceased' = [u \in Users |-> IF u \in Admins THEN 0 ELSE Older(ceased[u])]
    /\ UNCHANGED row

Init ==
    /\ row = [u \in Users |-> Absent]
    /\ access = [u \in Users |-> 0]
    /\ call = [c \in Calls |-> Idle]
    /\ ceased = [u \in Users |-> Far]

Roles == {"admin", "user"}

Command(c) ==
    \E u \in Users :
        \/ DeleteUser(c, u)
        \/ \E role \in Roles :
             \/ Insert(c, u, role)
             \/ \E n \in Names : CreateUser(c, u, n, role) \/ UpdateUser(c, u, n, role)

Next ==
    \/ Tick
    \/ \E c \in Calls :
         \/ Mint(c) \/ Save(c) \/ Deliver(c) \/ Fail(c) \/ Command(c)
         \/ \E u \in Users : Read(c, u) \/ Arrive(c, u)
         \/ \E n \in Names : LookUp(c, n)

Spec == Init /\ [][Next]_vars

---------------------------------------------------------------------------
(* Properties. *)

\* Rows, rights and calls are well formed, and no two users share a nickname,
\* though the console looks it up in one statement and inserts in another.
TypeOK ==
    /\ row \in [Users -> [name : Names, role : Roles] \cup {Absent}]
    /\ \A u, v \in Present : row[u].name = row[v].name => u = v
    /\ access \in [Users -> 0 .. Life]
    /\ call \in [Calls -> [pc : {"idle", "read", "minted", "saved", "arrived", "looked"},
                           actor : Users \cup {Nobody}, role : Roles \cup {"none"},
                           name : Names \cup {"none"}, left : 0 .. Life, age : 0 .. Patience]]
    /\ ceased \in [Users -> 0 .. Far]

\* Who has been demoted or deleted acts as an administrator for less than one
\* token's life more, and the time that the sign-in and the request take: each
\* refresh reads the role anew.
RightsExpire ==
    \A c \in Calls : call[c].pc = "arrived" => ceased[call[c].actor] < Far

\* "Don't let an admin demote themselves out of admin and lock the org out"
\* (update_user.go:46): no administrator ends the administration.  The last
\* one falls only to a request whose sender is no administrator any more.
AnAdminRemains ==
    [][Admins # {} /\ Admins' = {} =>
         \E c \in Calls : call[c].pc = "arrived" /\ call'[c].pc = "idle"
                          /\ call[c].actor \notin Admins]_vars
=============================================================================
