--------------------------- MODULE UserAdminProofs ---------------------------
(***************************************************************************)
(* Theorems about UserAdmin for any users, names and calls, any life of an *)
(* access token and any patience.                                          *)
(***************************************************************************)
EXTENDS UserAdmin, TLAPS

\* Whom and what a call acts for.
CallInv ==
    \A c \in Calls :
        /\ call[c].pc \in {"read", "minted", "saved", "arrived"} =>
               call[c].actor \in Users /\ call[c].role \in Roles
        /\ call[c].pc = "looked" => call[c].name \in Names

\* ceased is 0 for an administrator, and from then on never ahead of the clock:
\* a role that was read a while ago is at most as old as the sign-in, a token
\* has lost of its life what has passed since it was signed, and a request has
\* waited since a token admitted it.
AgeInv ==
    /\ \A u \in Admins : ceased[u] = 0
    /\ \A u \in Users : access[u] > 0 => ceased[u] + access[u] <= Life + Patience
    /\ \A c \in Calls :
         LET u == call[c].actor IN
         /\ call[c].role = "admin" /\ call[c].pc \in {"read", "minted", "saved"} =>
                ceased[u] <= call[c].age
         /\ call[c].role = "admin" /\ call[c].pc \in {"minted", "saved"} /\ call[c].left > 0 =>
                ceased[u] + call[c].left <= Life + Patience
         /\ call[c].pc = "arrived" => ceased[u] < Life + Patience + call[c].age

\* What TypeOK says of each call.
CallType == [pc : {"idle", "read", "minted", "saved", "arrived", "looked"},
             actor : Users \cup {Nobody}, role : Roles \cup {"none"},
             name : Names \cup {"none"}, left : 0 .. Life, age : 0 .. Patience]

\* The inductive invariant.
AdminInv == TypeOK /\ CallInv /\ AgeInv
---------------------------------------------------------------------------
LEMMA AdminStart == Init => AdminInv
  BY AdminAssumption
     DEF Init, AdminInv, TypeOK, CallInv, AgeInv, Admins, Present, Absent, Idle, Far, Roles

\* A call that has not begun has taken no time, and a token lives no longer than Life.
LEMMA Bounds ==
    /\ 0 \in 0 .. Life /\ Life \in 0 .. Life /\ 0 \in 0 .. Patience
    /\ Far \in Nat /\ 0 \in 0 .. Far /\ Idle \in CallType
  <1>1. 0 \in 0 .. Life /\ Life \in 0 .. Life /\ 0 \in 0 .. Patience
    BY AdminAssumption
  <1> QED
    BY <1>1, AdminAssumption DEF Idle, CallType, Far

\* The clock takes from what a token has left and adds to every age.
LEMMA TickAges ==
    ASSUME TypeOK, Tick
    PROVE  /\ access' \in [Users -> 0 .. Life] /\ ceased' \in [Users -> 0 .. Far]
           /\ call' \in [Calls -> CallType]
           /\ \A u \in Users :
                /\ ceased'[u] <= ceased[u] + 1 /\ (u \in Admins => ceased'[u] = 0)
                /\ access'[u] = IF access[u] > 0 THEN access[u] - 1 ELSE 0
  <1>1. access' \in [Users -> 0 .. Life]
    <2>1. ASSUME NEW u \in Users
          PROVE  (IF access[u] > 0 THEN access[u] - 1 ELSE 0) \in 0 .. Life
      BY AdminAssumption DEF TypeOK
    <2> QED
      BY <2>1 DEF Tick
  <1>2. ASSUME NEW u \in Users
        PROVE  Older(ceased[u]) \in 0 .. Far /\ Older(ceased[u]) <= ceased[u] + 1
    BY Bounds DEF TypeOK, Older
  <1>3. ceased' \in [Users -> 0 .. Far]
    BY <1>2, Bounds DEF Tick
  <1>4. ASSUME NEW u \in Users PROVE ceased'[u] <= ceased[u] + 1 /\ (u \in Admins => ceased'[u] = 0)
    <2>1. ceased[u] \in Nat
      BY Bounds DEF TypeOK
    <2>2. ceased'[u] = IF u \in Admins THEN 0 ELSE Older(ceased[u])
      BY DEF Tick
    <2> QED
      BY <1>2, <2>1, <2>2
  <1>5. \A u \in Users : access'[u] = IF access[u] > 0 THEN access[u] - 1 ELSE 0
    BY DEF Tick
  <1>6. call' \in [Calls -> CallType]
    <2>1. ASSUME NEW c \in Calls
          PROVE  [call[c] EXCEPT !.age = @ + 1, !.left = IF @ > 0 THEN @ - 1 ELSE 0] \in CallType
      <3>1. call[c] \in CallType
        BY DEF TypeOK, CallType
      <3>2. call[c].age + 1 \in 0 .. Patience
        <4>1. call[c].age < Patience
          BY DEF Tick
        <4> QED
          BY <3>1, <4>1, AdminAssumption DEF CallType
      <3>3. (IF call[c].left > 0 THEN call[c].left - 1 ELSE 0) \in 0 .. Life
        BY <3>1, AdminAssumption DEF CallType
      <3> QED
        BY <3>1, <3>2, <3>3 DEF CallType
    <2> QED
      BY <2>1, Bounds DEF Tick
  <1> QED
    BY <1>1, <1>3, <1>4, <1>5, <1>6

\* Every step keeps the state well formed, and nicknames unique.
LEMMA TypeKept == AdminInv /\ [Next]_vars => (TypeOK /\ CallInv)'
  <1> SUFFICES ASSUME AdminInv, [Next]_vars PROVE (TypeOK /\ CallInv)'
    OBVIOUS
  <1> USE AdminAssumption
       DEF AdminInv, TypeOK, CallInv, Roles, Present, Absent, Idle, Leave, Far
  <1>1. ASSUME Tick PROVE (TypeOK /\ CallInv)'
    <2>1. CallInv'
      BY <1>1 DEF Tick
    <2>2. row' = row
      BY <1>1 DEF Tick
    <2> QED
      BY <1>1, <2>1, <2>2, TickAges DEF CallType
  <1>2. ASSUME NEW c \in Calls, Mint(c) PROVE (TypeOK /\ CallInv)'
    <2>1. call' \in [Calls -> CallType] /\ UNCHANGED <<row, access, ceased>>
      BY <1>2, Bounds DEF Mint, CallType
    <2>2. CallInv'
      BY <1>2 DEF Mint
    <2> QED
      BY <2>1, <2>2 DEF CallType
  <1>3. ASSUME NEW c \in Calls, Save(c) PROVE (TypeOK /\ CallInv)'
    BY <1>3 DEF Save
  <1>4. ASSUME NEW c \in Calls, Deliver(c) PROVE (TypeOK /\ CallInv)'
    BY <1>4 DEF Deliver
  <1>5. ASSUME NEW c \in Calls, Fail(c) PROVE (TypeOK /\ CallInv)'
    BY <1>5 DEF Fail
  <1>6. ASSUME NEW c \in Calls, NEW u \in Users, Read(c, u) PROVE (TypeOK /\ CallInv)'
    <2>1. call' \in [Calls -> CallType] /\ UNCHANGED <<row, access, ceased>>
      BY <1>6, Bounds DEF Read, RoleOf, CallType
    <2>2. CallInv'
      BY <1>6 DEF Read, RoleOf
    <2> QED
      BY <2>1, <2>2 DEF CallType
  <1>7. ASSUME NEW c \in Calls, NEW u \in Users, Arrive(c, u) PROVE (TypeOK /\ CallInv)'
    <2>1. call' \in [Calls -> CallType] /\ UNCHANGED <<row, access, ceased>>
      BY <1>7, Bounds DEF Arrive, Admitted, CallType
    <2>2. CallInv'
      BY <1>7 DEF Arrive, Admitted
    <2> QED
      BY <2>1, <2>2 DEF CallType
  <1>8. ASSUME NEW c \in Calls, NEW n \in Names, LookUp(c, n) PROVE (TypeOK /\ CallInv)'
    <2>1. call' \in [Calls -> CallType] /\ UNCHANGED <<row, access, ceased>>
      BY <1>8, Bounds DEF LookUp, NameFree, CallType
    <2>2. CallInv'
      BY <1>8 DEF LookUp, NameFree
    <2> QED
      BY <2>1, <2>2 DEF CallType
  <1>9. ASSUME NEW c \in Calls, Command(c) PROVE (TypeOK /\ CallInv)'
    <2>1. ASSUME NEW u \in Users, DeleteUser(c, u) PROVE (TypeOK /\ CallInv)'
      BY <2>1 DEF DeleteUser, Note
    <2>2. ASSUME NEW u \in Users, NEW role \in Roles, Insert(c, u, role)
         PROVE (TypeOK /\ CallInv)'
      BY <2>2 DEF Insert, New, Put, NameFree, Note
    <2>3. ASSUME NEW u \in Users, NEW n \in Names, NEW role \in Roles, CreateUser(c, u,
        n, role)
         PROVE (TypeOK /\ CallInv)'
      BY <2>3 DEF CreateUser, New, Put, NameFree, Note
    <2>4. ASSUME NEW u \in Users, NEW n \in Names, NEW role \in Roles, UpdateUser(c, u,
        n, role)
         PROVE (TypeOK /\ CallInv)'
      BY <2>4 DEF UpdateUser, DemotesSelf, Put, NameFree, Note
    <2> QED
      BY <1>9, <2>1, <2>2, <2>3, <2>4 DEF Command
  <1>10. ASSUME UNCHANGED vars PROVE (TypeOK /\ CallInv)'
    BY <1>10 DEF vars
  <1> QED
    BY <1>1, <1>2, <1>3, <1>4, <1>5, <1>6, <1>7, <1>8, <1>9, <1>10 DEF Next

\* Rights age with the clock, and only the row renews them.
LEMMA AgeKept == AdminInv /\ TypeOK' /\ [Next]_vars => AgeInv'
  <1> SUFFICES ASSUME AdminInv, TypeOK', [Next]_vars PROVE AgeInv'
    OBVIOUS
  <1> USE AdminAssumption
       DEF AdminInv, TypeOK, CallInv, AgeInv, Roles, Admins, Absent, Idle, Leave, Far
  <1>1. ASSUME Tick PROVE AgeInv'
    <2>1. \A u \in Users :
            /\ ceased'[u] <= ceased[u] + 1 /\ (u \in Admins => ceased'[u] = 0)
            /\ access'[u] = IF access[u] > 0 THEN access[u] - 1 ELSE 0
      BY <1>1, TickAges
    <2>2. \A d \in Calls :
            /\ call'[d].pc = call[d].pc
            /\ call[d].pc # "idle" =>
                 /\ call'[d].actor = call[d].actor /\ call'[d].role = call[d].role
                 /\ call'[d].age = call[d].age + 1
                 /\ call'[d].left = IF call[d].left > 0 THEN call[d].left - 1 ELSE 0
      <3> SUFFICES ASSUME NEW d \in Calls
                   PROVE  /\ call'[d].pc = call[d].pc
                          /\ call[d].pc # "idle" =>
                               /\ call'[d].actor = call[d].actor
                               /\ call'[d].role = call[d].role
                               /\ call'[d].age = call[d].age + 1
                               /\ call'[d].left = IF call[d].left > 0 THEN call[d].left - 1 ELSE 0
        OBVIOUS
      <3>1. CASE call[d].pc = "idle"
        BY <1>1, <3>1 DEF Tick
      <3>2. CASE call[d].pc # "idle"
        <4>1. call'[d] = [call[d] EXCEPT !.age = @ + 1, !.left = IF @ > 0 THEN @ - 1 ELSE 0]
          BY <1>1, <3>2 DEF Tick
        <4>2. call[d] \in CallType
          BY DEF CallType
        <4> QED
          BY <4>1, <4>2 DEF CallType
      <3> QED
        BY <3>1, <3>2
    <2>3. row' = row
      BY <1>1 DEF Tick
    <2> QED
      BY <2>1, <2>2, <2>3
  <1>2. ASSUME NEW c \in Calls, Mint(c) PROVE AgeInv'
    BY <1>2 DEF Mint
  <1>3. ASSUME NEW c \in Calls, Save(c) PROVE AgeInv'
    BY <1>3 DEF Save
  <1>4. ASSUME NEW c \in Calls, Deliver(c) PROVE AgeInv'
    BY <1>4 DEF Deliver
  <1>5. ASSUME NEW c \in Calls, Fail(c) PROVE AgeInv'
    BY <1>5 DEF Fail
  <1>6. ASSUME NEW c \in Calls, NEW u \in Users, Read(c, u) PROVE AgeInv'
    BY <1>6 DEF Read, RoleOf
  <1>7. ASSUME NEW c \in Calls, NEW u \in Users, Arrive(c, u) PROVE AgeInv'
    BY <1>7 DEF Arrive, Admitted
  <1>8. ASSUME NEW c \in Calls, NEW n \in Names, LookUp(c, n) PROVE AgeInv'
    BY <1>8 DEF LookUp, NameFree
  <1>9. ASSUME NEW c \in Calls, Command(c) PROVE AgeInv'
    <2>1. ASSUME NEW u \in Users, DeleteUser(c, u) PROVE AgeInv'
      BY <2>1 DEF DeleteUser, Note
    <2>2. ASSUME NEW u \in Users, NEW role \in Roles, Insert(c, u, role) PROVE AgeInv'
      BY <2>2 DEF Insert, New, Put, NameFree, Note
    <2>3. ASSUME NEW u \in Users, NEW n \in Names, NEW role \in Roles, CreateUser(c, u,
        n, role)
         PROVE AgeInv'
      BY <2>3 DEF CreateUser, New, Put, NameFree, Note
    <2>4. ASSUME NEW u \in Users, NEW n \in Names, NEW role \in Roles, UpdateUser(c, u,
        n, role)
         PROVE AgeInv'
      BY <2>4 DEF UpdateUser, DemotesSelf, Put, NameFree, Note
    <2> QED
      BY <1>9, <2>1, <2>2, <2>3, <2>4 DEF Command
  <1>10. ASSUME UNCHANGED vars PROVE AgeInv'
    BY <1>10 DEF vars
  <1> QED
    BY <1>1, <1>2, <1>3, <1>4, <1>5, <1>6, <1>7, <1>8, <1>9, <1>10 DEF Next

---------------------------------------------------------------------------
LEMMA InvariantHolds == Spec => []AdminInv
  <1>1. AdminInv /\ [Next]_vars => AdminInv'
    BY TypeKept, AgeKept DEF AdminInv
  <1> QED
    BY AdminStart, <1>1, PTL DEF Spec

\* Rows, rights and calls are well formed, and no two users share a nickname,
\* though the console looks it up and inserts without a transaction (create-user).
THEOREM TypeCorrect == Spec => []TypeOK
  <1>1. AdminInv => TypeOK
    BY DEF AdminInv
  <1> QED
    BY InvariantHolds, <1>1, PTL

\* Who has been demoted or deleted acts as an administrator for less than one
\* token's life more, and the time that a sign-in and a request take
\* (GenerateAccessToken, AuthMiddleware).
THEOREM RightsEnd == Spec => []RightsExpire
  <1>1. AdminInv => RightsExpire
    <2> SUFFICES ASSUME AdminInv, NEW c \in Calls, call[c].pc = "arrived"
                 PROVE  ceased[call[c].actor] < Far
      BY DEF RightsExpire
    <2>1. ceased[call[c].actor] < Life + Patience + call[c].age
      BY DEF AdminInv, AgeInv
    <2>2. call[c].age \in 0 .. Patience /\ ceased[call[c].actor] \in Nat
      BY AdminAssumption DEF AdminInv, TypeOK, CallInv, Far
    <2> QED
      BY <2>1, <2>2, AdminAssumption DEF Far
  <1> QED
    BY InvariantHolds, <1>1, PTL

\* No administrator ends the administration: the last row that says admin is
\* changed only by a request whose sender is none any more (the guards of
\* UpdateUserHandler and DeleteUserHandler).
THEOREM LastAdminStands == Spec => AnAdminRemains
  <1> DEFINE ByAnOutsider ==
        Admins # {} /\ Admins' = {} =>
          \E c \in Calls : call[c].pc = "arrived" /\ call'[c].pc = "idle"
                           /\ call[c].actor \notin Admins
  <1>1. ASSUME AdminInv, [Next]_vars PROVE ByAnOutsider
    <2> SUFFICES ASSUME Admins # {}, Admins' = {}
                 PROVE  \E c \in Calls : call[c].pc = "arrived" /\ call'[c].pc = "idle"
                                         /\ call[c].actor \notin Admins
      OBVIOUS
    <2> USE <1>1 DEF AdminInv, TypeOK, CallType, Admins
    <2>1. row' # row
      OBVIOUS
    <2>2. PICK c \in Calls : Command(c)
      BY <2>1 DEF Next, vars, Tick, Mint, Save, Deliver, Fail, Read, Arrive, LookUp
    <2>3. call'[c].pc = "idle"
      BY <2>2 DEF Command, DeleteUser, Insert, CreateUser, UpdateUser, Leave, Idle
    <2>4. ASSUME NEW u \in Users, NEW n, NEW role \in Roles, u \notin Present, Put(u, n, role)
          PROVE  FALSE
      BY <2>4 DEF Put, Present, Absent, Roles
    <2>5. CASE \E u \in Users : DeleteUser(c, u)
      BY <2>3, <2>5 DEF DeleteUser, Absent
    <2>6. CASE \E u \in Users, n \in Names, role \in Roles : UpdateUser(c, u, n, role)
      BY <2>3, <2>6 DEF UpdateUser, DemotesSelf, Put
    <2> QED
      BY <2>2, <2>4, <2>5, <2>6 DEF Command, Insert, CreateUser, New
  <1>2. AdminInv /\ [Next]_vars => [ByAnOutsider]_vars
    BY <1>1
  <1> QED
    BY InvariantHolds, <1>2, PTL DEF Spec, AnAdminRemains
=============================================================================
