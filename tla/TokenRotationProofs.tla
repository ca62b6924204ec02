------------------------ MODULE TokenRotationProofs ------------------------
(***************************************************************************)
(* Theorems about TokenRotation for any number of users, browsers, tokens, *)
(* calls and faults, and any of the events.                                *)
(***************************************************************************)
EXTENDS TokenRotation, TLAPS

\* Tokens are minted once: what has a row, what a browser or a call knows and
\* what a token descends from has an owner.
MintedInv ==
    /\ \A t \in Tokens : row[t] # "absent" => t \in Minted
    /\ \A b \in Browsers : jar[b] # NoToken => jar[b] \in answered
    /\ answered \subseteq Minted /\ denied \subseteq Minted
    /\ \A t \in Tokens \ Minted : t \notin revoked

\* Mid-rotation: the call presents an answered token of its user.
Rotating == {"find", "user", "save", "mark", "revoke", "lapse"}

CallInv ==
    \A c \in Calls :
        /\ call[c].old # NoToken => call[c].old \in answered
        /\ call[c].pc \in Rotating =>
               /\ call[c].old # NoToken
               /\ call[c].user = about[call[c].old].owner
        /\ call[c].pc \in {"login", "logout"} => call[c].user \in Users
        /\ call[c].pc \in {"mark", "granted"} =>
               /\ call[c].new \in Minted \ answered
               /\ about[call[c].new].parent = call[c].old
        /\ call[c].pc = "mark" =>
               about[call[c].new].login = about[call[c].old].login

\* No two calls have minted the same token.
NewInv ==
    \A c, d \in Calls :
        call[c].pc \in {"mark", "granted"} /\ call[d].pc \in {"mark", "granted"}
          /\ call[c].new = call[d].new => c = d

\* A family has one owner: that of the login it began with.
FamilyInv ==
    \A t \in Minted :
         /\ about[t].login \in Minted
         /\ about[about[t].login].owner = about[t].owner
         /\ about[t].parent # NoToken => about[t].parent \in Minted

\* The parent of a token that was granted is spent, so it has no other child.
SpentInv ==
    /\ SingleUse
    /\ \A t \in answered : about[t].parent # NoToken => row[about[t].parent] # "live"
    /\ \A c \in Calls : call[c].pc = "granted" /\ call[c].old # NoToken =>
           /\ row[call[c].old] # "live"
           /\ \A t \in answered : about[t].parent # call[c].old
           /\ \A d \in Calls : call[d].pc = "granted" /\ call[d].old = call[c].old => c = d

\* Who is gone has no tokens, and revoked families have none that was granted.
RevokedInv ==
    /\ RevocationHolds
    /\ \A t \in Minted : about[t].owner \notin users => row[t] = "absent"
    /\ \A c \in Calls : call[c].pc = "granted" /\ about[call[c].new].login \in revoked
           => row[call[c].new] # "live"

\* The best-effort deletion is reached with an expired token only.
LapseInv == \A c \in Calls : call[c].pc = "lapse" => call[c].old \in expired

\* The inductive invariant.
TokenInv ==
    /\ TypeOK /\ MintedInv /\ CallInv /\ NewInv /\ FamilyInv /\ SpentInv /\ RevokedInv
    /\ LapseInv /\ DeniedIsUseless
---------------------------------------------------------------------------
LEMMA TokenStart == Init => TokenInv
  BY TokenAssumption
     DEF Init, TokenInv, TypeOK, MintedInv, CallInv, NewInv, FamilyInv, SpentInv, RevokedInv,
         LapseInv, DeniedIsUseless, SingleUse, RevocationHolds, Minted, Rotating, Usable, Idle,
             CallPCs, Fallible

\* Every step keeps the state well formed.
LEMMA TypeKept == TypeOK /\ CallInv /\ [Next]_vars => TypeOK'
  <1> SUFFICES ASSUME TypeOK, CallInv, [Next]_vars PROVE TypeOK'
    OBVIOUS
  <1> USE TokenAssumption DEF TypeOK, CallInv, Rotating, CallPCs, Fallible, Minted
  <1>1. ASSUME NEW c \in Calls, Step(c) PROVE TypeOK'
    <2>1. CASE FindByHash(c)
      <3>1. call'[c].pc \in CallPCs /\ call' = [call EXCEPT ![c].pc = call'[c].pc]
        BY <2>1 DEF FindByHash, Deny, Goto
      <3>2. denied' \subseteq Tokens
        BY <2>1 DEF FindByHash, Deny, Owned
      <3> QED
        BY <2>1, <3>1, <3>2 DEF FindByHash, table
    <2>2. CASE FindByID(c)
      BY <2>2 DEF FindByID, Deny, Goto, Following, Owned, table
    <2>3. CASE SaveNew(c)
      BY <2>3 DEF SaveNew, Save, Following, GenerateRefreshToken, history
    <2>4. CASE MarkUsed(c)
      <3>1. call'[c].pc \in CallPCs /\ call' = [call EXCEPT ![c].pc = call'[c].pc]
        BY <2>4 DEF MarkUsed, Goto, Following
      <3>2. row' \in [Tokens -> {"absent", "live", "used"}]
        BY <2>4 DEF MarkUsed
      <3> QED
        BY <2>4, <3>1, <3>2 DEF MarkUsed, history
    <2>5. CASE Revoke(c)
      <3>1. call' = [call EXCEPT ![c].pc = "denied"]
        BY <2>5 DEF Revoke, Deny, Goto
      <3>2. denied' \subseteq Tokens /\ revoked' \subseteq Tokens \cup {NoToken}
        BY <2>5 DEF Revoke, Deny, Owned, Families
      <3>3. row' \in [Tokens -> {"absent", "live", "used"}]
        BY <2>5 DEF Revoke, DeleteByUserID
      <3> QED
        BY <2>5, <3>1, <3>2, <3>3 DEF Revoke
    <2>6. CASE Lapse(c)
      BY <2>6 DEF Lapse, DeleteByUserID, Families, Deny, Goto, Owned
    <2>7. CASE LoginSave(c)
      BY <2>7 DEF LoginSave, Save, GenerateRefreshToken, history
    <2>8. CASE Logout(c)
      BY <2>8 DEF Logout, DeleteByUserID, Families, Deny, Goto, Owned
    <2>9. CASE Fail(c)
      BY <2>9 DEF Fail, OnError, Idle, table
    <2>10. CASE Granted(c)
      BY <2>10 DEF Granted, Idle, table
    <2>11. CASE Denied(c)
      BY <2>11 DEF Denied, Idle, table, history
    <2> QED
      BY <1>1, <2>1, <2>2, <2>3, <2>4, <2>5, <2>6, <2>7, <2>8, <2>9, <2>10, <2>11 DEF Step
  <1>2. ASSUME NEW c \in Calls, NEW b \in Browsers, Send(c, b) PROVE TypeOK'
    BY <1>2 DEF Send, table, history
  <1>3. ASSUME NEW c \in Calls, NEW b \in Browsers, NEW u \in Users, Login(c, b, u) PROVE TypeOK'
    BY <1>3 DEF Login, table, history
  <1>4. ASSUME NEW c \in Calls, NEW b \in Browsers, NEW u \in Users, SendLogout(c, b, u)
       PROVE TypeOK'
    BY <1>4 DEF SendLogout, table, history
  <1>5. ASSUME NEW t \in Tokens, Expire(t) PROVE TypeOK'
    BY <1>5 DEF Expire, history
  <1>6. ASSUME DeleteExpired PROVE TypeOK'
    BY <1>6 DEF DeleteExpired, history
  <1>7. ASSUME NEW u \in Users, DeleteUser(u) PROVE TypeOK'
    BY <1>7 DEF DeleteUser, DeleteByUserID, Families, Owned
  <1>8. ASSUME UNCHANGED vars PROVE TypeOK'
    BY <1>8 DEF vars, table, history
  <1> QED
    BY <1>1, <1>2, <1>3, <1>4, <1>5, <1>6, <1>7, <1>8 DEF Next

\* Only minted tokens get a row, a reply or a cookie.
LEMMA MintedKept == TokenInv /\ [Next]_vars => MintedInv'
  <1> SUFFICES ASSUME TokenInv, [Next]_vars PROVE MintedInv'
    OBVIOUS
  <1> USE TokenAssumption
       DEF TokenInv, TypeOK, MintedInv, CallInv, FamilyInv, Minted, Rotating, CallPCs, Fallible
  <1>1. ASSUME NEW c \in Calls, Step(c) PROVE MintedInv'
    <2>1. CASE FindByHash(c)
      BY <2>1 DEF FindByHash, Deny, Goto, Owned, Usable, table, Fallible, CallPCs
    <2>2. CASE FindByID(c)
      BY <2>2 DEF FindByID, Deny, Goto, Following, Owned, table
    <2>3. CASE SaveNew(c)
      BY <2>3 DEF SaveNew, Save, Following, GenerateRefreshToken, history
    <2>4. CASE MarkUsed(c)
      BY <2>4 DEF MarkUsed, Affected, Goto, Following, history
    <2>5. CASE Revoke(c)
      BY <2>5 DEF Revoke, DeleteByUserID, Families, Deny, Goto, Owned
    <2>6. CASE Lapse(c)
      BY <2>6 DEF Lapse, DeleteByUserID, Families, Deny, Goto, Owned
    <2>7. CASE LoginSave(c)
      BY <2>7 DEF LoginSave, Save, GenerateRefreshToken, history
    <2>8. CASE Logout(c)
      BY <2>8 DEF Logout, DeleteByUserID, Families, Deny, Goto, Owned
    <2>9. CASE Fail(c)
      BY <2>9 DEF Fail, OnError, Idle, table
    <2>10. CASE Granted(c)
      BY <2>10 DEF Granted, Idle, table
    <2>11. CASE Denied(c)
      BY <2>11 DEF Denied, Idle, table, history
    <2> QED
      BY <1>1, <2>1, <2>2, <2>3, <2>4, <2>5, <2>6, <2>7, <2>8, <2>9, <2>10, <2>11 DEF Step
  <1>2. ASSUME NEW c \in Calls, NEW b \in Browsers, Send(c, b) PROVE MintedInv'
    BY <1>2 DEF Send, table, history
  <1>3. ASSUME NEW c \in Calls, NEW b \in Browsers, NEW u \in Users, Login(c, b, u) PROVE MintedInv'
    BY <1>3 DEF Login, table, history
  <1>4. ASSUME NEW c \in Calls, NEW b \in Browsers, NEW u \in Users, SendLogout(c, b, u)
       PROVE MintedInv'
    BY <1>4 DEF SendLogout, table, history
  <1>5. ASSUME NEW t \in Tokens, Expire(t) PROVE MintedInv'
    BY <1>5 DEF Expire, history
  <1>6. ASSUME DeleteExpired PROVE MintedInv'
    BY <1>6 DEF DeleteExpired, history
  <1>7. ASSUME NEW u \in Users, DeleteUser(u) PROVE MintedInv'
    BY <1>7 DEF DeleteUser, DeleteByUserID, Families, Owned
  <1>8. ASSUME UNCHANGED vars PROVE MintedInv'
    BY <1>8 DEF vars, table, history
  <1> QED
    BY <1>1, <1>2, <1>3, <1>4, <1>5, <1>6, <1>7, <1>8 DEF Next

\* A call keeps the token it presents, its user and the successor it saved.
LEMMA CallKept == TokenInv /\ [Next]_vars => CallInv'
  <1> SUFFICES ASSUME TokenInv, [Next]_vars PROVE CallInv'
    OBVIOUS
  <1> USE TokenAssumption
       DEF TokenInv, TypeOK, MintedInv, CallInv, NewInv, FamilyInv, Minted, Rotating, CallPCs,
           Fallible
  <1>1. ASSUME NEW c \in Calls, Step(c) PROVE CallInv'
    <2>1. CASE FindByHash(c)
      <3>1. /\ call'[c].pc \in {"denied", "revoke", "lapse", "user"}
            /\ call' = [call EXCEPT ![c].pc = call'[c].pc]
        BY <2>1 DEF FindByHash, Deny, Goto
      <3>2. UNCHANGED <<row, about, answered>>
        BY <2>1 DEF FindByHash, table
      <3>3. \A d \in Calls :
            /\ call'[d].old = call[d].old /\ call'[d].new = call[d].new
            /\ call'[d].user = call[d].user
        BY <3>1
      <3>4. \A d \in Calls :
            \/ call'[d].pc = call[d].pc
            \/ (d = c /\ call'[d].pc \in {"denied", "revoke", "lapse", "user"})
        BY <3>1
      <3> QED
        BY <2>1, <3>2, <3>3, <3>4 DEF FindByHash
    <2>2. CASE FindByID(c)
      <3>1. /\ call'[c].pc \in {"save", "denied"}
            /\ call' = [call EXCEPT ![c].pc = call'[c].pc]
        BY <2>2 DEF FindByID, Deny, Goto, Following
      <3>2. UNCHANGED <<row, about, answered>>
        BY <2>2 DEF FindByID, table
      <3>3. \A d \in Calls :
            /\ call'[d].old = call[d].old /\ call'[d].new = call[d].new
            /\ call'[d].user = call[d].user
        BY <3>1
      <3>4. \A d \in Calls :
            \/ call'[d].pc = call[d].pc
            \/ (d = c /\ call'[d].pc \in {"save", "denied"})
        BY <3>1
      <3> QED
        BY <2>2, <3>2, <3>3, <3>4 DEF FindByID
    <2>3. CASE SaveNew(c)
      BY <2>3 DEF SaveNew, Save, Following, GenerateRefreshToken, history
    <2>4. CASE MarkUsed(c)
      <3>1. /\ call'[c].pc \in {"granted", "revoke"}
            /\ call' = [call EXCEPT ![c].pc = call'[c].pc]
        BY <2>4 DEF MarkUsed, Goto, Following
      <3> QED
        BY <2>4, <3>1 DEF MarkUsed, history
    <2>5. CASE Revoke(c)
      BY <2>5 DEF Revoke, DeleteByUserID, Families, Deny, Goto, Owned
    <2>6. CASE Lapse(c)
      BY <2>6 DEF Lapse, DeleteByUserID, Families, Deny, Goto, Owned
    <2>7. CASE LoginSave(c)
      BY <2>7 DEF LoginSave, Save, GenerateRefreshToken, history
    <2>8. CASE Logout(c)
      BY <2>8 DEF Logout, DeleteByUserID, Families, Deny, Goto, Owned
    <2>9. CASE Fail(c)
      BY <2>9 DEF Fail, OnError, Idle, table
    <2>10. CASE Granted(c)
      BY <2>10 DEF Granted, Idle, table
    <2>11. CASE Denied(c)
      BY <2>11 DEF Denied, Idle, table, history
    <2> QED
      BY <1>1, <2>1, <2>2, <2>3, <2>4, <2>5, <2>6, <2>7, <2>8, <2>9, <2>10, <2>11 DEF Step
  <1>2. ASSUME NEW c \in Calls, NEW b \in Browsers, Send(c, b) PROVE CallInv'
    BY <1>2 DEF Send, table, history
  <1>3. ASSUME NEW c \in Calls, NEW b \in Browsers, NEW u \in Users, Login(c, b, u) PROVE CallInv'
    BY <1>3 DEF Login, table, history
  <1>4. ASSUME NEW c \in Calls, NEW b \in Browsers, NEW u \in Users, SendLogout(c, b, u)
       PROVE CallInv'
    BY <1>4 DEF SendLogout, table, history
  <1>5. ASSUME NEW t \in Tokens, Expire(t) PROVE CallInv'
    BY <1>5 DEF Expire, history
  <1>6. ASSUME DeleteExpired PROVE CallInv'
    BY <1>6 DEF DeleteExpired, history
  <1>7. ASSUME NEW u \in Users, DeleteUser(u) PROVE CallInv'
    BY <1>7 DEF DeleteUser, DeleteByUserID, Families, Owned
  <1>8. ASSUME UNCHANGED vars PROVE CallInv'
    BY <1>8 DEF vars, table, history
  <1> QED
    BY <1>1, <1>2, <1>3, <1>4, <1>5, <1>6, <1>7, <1>8 DEF Next

\* GenerateRefreshToken never hands one token to two calls.
LEMMA NewKept == TokenInv /\ [Next]_vars => NewInv'
  <1> SUFFICES ASSUME TokenInv, [Next]_vars PROVE NewInv'
    OBVIOUS
  <1> USE TokenAssumption DEF TokenInv, TypeOK, CallInv, NewInv, Minted, CallPCs, Fallible
  <1>1. ASSUME NEW c \in Calls, Step(c) PROVE NewInv'
    <2>1. CASE FindByHash(c)
      BY <2>1 DEF FindByHash, Deny, Goto, Owned, Usable, table, Fallible, CallPCs
    <2>2. CASE FindByID(c)
      BY <2>2 DEF FindByID, Deny, Goto, Following, Owned, table
    <2>3. CASE SaveNew(c)
      BY <2>3 DEF SaveNew, Save, Following, GenerateRefreshToken, history
    <2>4. CASE MarkUsed(c)
      BY <2>4 DEF MarkUsed, Affected, Goto, Following, history
    <2>5. CASE Revoke(c)
      BY <2>5 DEF Revoke, DeleteByUserID, Families, Deny, Goto, Owned
    <2>6. CASE Lapse(c)
      BY <2>6 DEF Lapse, DeleteByUserID, Families, Deny, Goto, Owned
    <2>7. CASE LoginSave(c)
      BY <2>7 DEF LoginSave, Save, GenerateRefreshToken, history
    <2>8. CASE Logout(c)
      BY <2>8 DEF Logout, DeleteByUserID, Families, Deny, Goto, Owned
    <2>9. CASE Fail(c)
      BY <2>9 DEF Fail, OnError, Idle, table
    <2>10. CASE Granted(c)
      BY <2>10 DEF Granted, Idle, table
    <2>11. CASE Denied(c)
      BY <2>11 DEF Denied, Idle, table, history
    <2> QED
      BY <1>1, <2>1, <2>2, <2>3, <2>4, <2>5, <2>6, <2>7, <2>8, <2>9, <2>10, <2>11 DEF Step
  <1>2. ASSUME NEW c \in Calls, NEW b \in Browsers, Send(c, b) PROVE NewInv'
    BY <1>2 DEF Send, table, history
  <1>3. ASSUME NEW c \in Calls, NEW b \in Browsers, NEW u \in Users, Login(c, b, u) PROVE NewInv'
    BY <1>3 DEF Login, table, history
  <1>4. ASSUME NEW c \in Calls, NEW b \in Browsers, NEW u \in Users, SendLogout(c, b, u)
       PROVE NewInv'
    BY <1>4 DEF SendLogout, table, history
  <1>5. ASSUME NEW t \in Tokens, Expire(t) PROVE NewInv'
    BY <1>5 DEF Expire, history
  <1>6. ASSUME DeleteExpired PROVE NewInv'
    BY <1>6 DEF DeleteExpired, history
  <1>7. ASSUME NEW u \in Users, DeleteUser(u) PROVE NewInv'
    BY <1>7 DEF DeleteUser, DeleteByUserID, Families, Owned
  <1>8. ASSUME UNCHANGED vars PROVE NewInv'
    BY <1>8 DEF vars, table, history
  <1> QED
    BY <1>1, <1>2, <1>3, <1>4, <1>5, <1>6, <1>7, <1>8 DEF Next

\* A rotation stays in the family and with the owner of the token it consumes.
LEMMA FamilyKept == TokenInv /\ [Next]_vars => FamilyInv'
  <1> SUFFICES ASSUME TokenInv, [Next]_vars PROVE FamilyInv'
    OBVIOUS
  <1> USE TokenAssumption
       DEF TokenInv, TypeOK, MintedInv, CallInv, FamilyInv, Minted, Rotating, CallPCs, Fallible
  <1>1. ASSUME NEW c \in Calls, Step(c) PROVE FamilyInv'
    <2>1. CASE FindByHash(c)
      BY <2>1 DEF FindByHash, Deny, Goto, Owned, Usable, table, Fallible, CallPCs
    <2>2. CASE FindByID(c)
      BY <2>2 DEF FindByID, Deny, Goto, Following, Owned, table
    <2>3. CASE SaveNew(c)
      BY <2>3 DEF SaveNew, Save, Following, GenerateRefreshToken, history
    <2>4. CASE MarkUsed(c)
      BY <2>4 DEF MarkUsed, Affected, Goto, Following, history
    <2>5. CASE Revoke(c)
      BY <2>5 DEF Revoke, DeleteByUserID, Families, Deny, Goto, Owned
    <2>6. CASE Lapse(c)
      BY <2>6 DEF Lapse, DeleteByUserID, Families, Deny, Goto, Owned
    <2>7. CASE LoginSave(c)
      BY <2>7 DEF LoginSave, Save, GenerateRefreshToken, history
    <2>8. CASE Logout(c)
      BY <2>8 DEF Logout, DeleteByUserID, Families, Deny, Goto, Owned
    <2>9. CASE Fail(c)
      BY <2>9 DEF Fail, OnError, Idle, table
    <2>10. CASE Granted(c)
      BY <2>10 DEF Granted, Idle, table
    <2>11. CASE Denied(c)
      BY <2>11 DEF Denied, Idle, table, history
    <2> QED
      BY <1>1, <2>1, <2>2, <2>3, <2>4, <2>5, <2>6, <2>7, <2>8, <2>9, <2>10, <2>11 DEF Step
  <1>2. ASSUME NEW c \in Calls, NEW b \in Browsers, Send(c, b) PROVE FamilyInv'
    BY <1>2 DEF Send, table, history
  <1>3. ASSUME NEW c \in Calls, NEW b \in Browsers, NEW u \in Users, Login(c, b, u) PROVE FamilyInv'
    BY <1>3 DEF Login, table, history
  <1>4. ASSUME NEW c \in Calls, NEW b \in Browsers, NEW u \in Users, SendLogout(c, b, u)
       PROVE FamilyInv'
    BY <1>4 DEF SendLogout, table, history
  <1>5. ASSUME NEW t \in Tokens, Expire(t) PROVE FamilyInv'
    BY <1>5 DEF Expire, history
  <1>6. ASSUME DeleteExpired PROVE FamilyInv'
    BY <1>6 DEF DeleteExpired, history
  <1>7. ASSUME NEW u \in Users, DeleteUser(u) PROVE FamilyInv'
    BY <1>7 DEF DeleteUser, DeleteByUserID, Families, Owned
  <1>8. ASSUME UNCHANGED vars PROVE FamilyInv'
    BY <1>8 DEF vars, table, history
  <1> QED
    BY <1>1, <1>2, <1>3, <1>4, <1>5, <1>6, <1>7, <1>8 DEF Next

\* MarkUsed succeeds once: only the first of the calls that present a token grants.
LEMMA SpentKept == TokenInv /\ [Next]_vars => SpentInv'
  <1> SUFFICES ASSUME TokenInv, [Next]_vars PROVE SpentInv'
    OBVIOUS
  <1> USE TokenAssumption
       DEF TokenInv, TypeOK, MintedInv, CallInv, NewInv, FamilyInv, SpentInv, SingleUse, Minted,
           Rotating, CallPCs, Fallible
  <1>1. ASSUME NEW c \in Calls, Step(c) PROVE SpentInv'
    <2>1. CASE FindByHash(c)
      <3>1. /\ call'[c].pc \in {"denied", "revoke", "lapse", "user"}
            /\ call' = [call EXCEPT ![c].pc = call'[c].pc]
        BY <2>1 DEF FindByHash, Deny, Goto
      <3>2. UNCHANGED <<row, about, answered>>
        BY <2>1 DEF FindByHash, table
      <3>3. \A d \in Calls :
            /\ call'[d].old = call[d].old /\ call'[d].new = call[d].new
            /\ call'[d].user = call[d].user
        BY <3>1
      <3>4. \A d \in Calls :
            \/ call'[d].pc = call[d].pc
            \/ (d = c /\ call'[d].pc \in {"denied", "revoke", "lapse", "user"})
        BY <3>1
      <3> QED
        BY <2>1, <3>2, <3>3, <3>4 DEF FindByHash
    <2>2. CASE FindByID(c)
      <3>1. /\ call'[c].pc \in {"save", "denied"}
            /\ call' = [call EXCEPT ![c].pc = call'[c].pc]
        BY <2>2 DEF FindByID, Deny, Goto, Following
      <3>2. UNCHANGED <<row, about, answered>>
        BY <2>2 DEF FindByID, table
      <3>3. \A d \in Calls :
            /\ call'[d].old = call[d].old /\ call'[d].new = call[d].new
            /\ call'[d].user = call[d].user
        BY <3>1
      <3>4. \A d \in Calls :
            \/ call'[d].pc = call[d].pc
            \/ (d = c /\ call'[d].pc \in {"save", "denied"})
        BY <3>1
      <3> QED
        BY <2>2, <3>2, <3>3, <3>4 DEF FindByID
    <2>3. CASE SaveNew(c)
      BY <2>3 DEF SaveNew, Save, Following, GenerateRefreshToken, history
    <2>4. CASE MarkUsed(c)
      <3>1. CASE Affected(call[c].old)
        <4>1. row' = [row EXCEPT ![call[c].old] = "used"]
          BY <2>4, <3>1 DEF MarkUsed, Affected
        <4>2. call' = [call EXCEPT ![c].pc = "granted"]
          BY <2>4, <3>1 DEF MarkUsed, Goto, Following
        <4> QED
          BY <2>4, <3>1, <4>1, <4>2 DEF MarkUsed, Affected, history
      <3>2. CASE ~Affected(call[c].old)
        <4>1. row' = row /\ call' = [call EXCEPT ![c].pc = "revoke"]
          BY <2>4, <3>2 DEF MarkUsed, Goto
        <4> QED
          BY <2>4, <4>1 DEF MarkUsed, history
      <3> QED
        BY <3>1, <3>2
    <2>5. CASE Revoke(c)
      BY <2>5 DEF Revoke, DeleteByUserID, Families, Deny, Goto, Owned
    <2>6. CASE Lapse(c)
      BY <2>6 DEF Lapse, DeleteByUserID, Families, Deny, Goto, Owned
    <2>7. CASE LoginSave(c)
      BY <2>7 DEF LoginSave, Save, GenerateRefreshToken, history
    <2>8. CASE Logout(c)
      BY <2>8 DEF Logout, DeleteByUserID, Families, Deny, Goto, Owned
    <2>9. CASE Fail(c)
      BY <2>9 DEF Fail, OnError, Idle, table
    <2>10. CASE Granted(c)
      BY <2>10 DEF Granted, Idle, table
    <2>11. CASE Denied(c)
      BY <2>11 DEF Denied, Idle, table, history
    <2> QED
      BY <1>1, <2>1, <2>2, <2>3, <2>4, <2>5, <2>6, <2>7, <2>8, <2>9, <2>10, <2>11 DEF Step
  <1>2. ASSUME NEW c \in Calls, NEW b \in Browsers, Send(c, b) PROVE SpentInv'
    BY <1>2 DEF Send, table, history
  <1>3. ASSUME NEW c \in Calls, NEW b \in Browsers, NEW u \in Users, Login(c, b, u) PROVE SpentInv'
    BY <1>3 DEF Login, table, history
  <1>4. ASSUME NEW c \in Calls, NEW b \in Browsers, NEW u \in Users, SendLogout(c, b, u)
       PROVE SpentInv'
    BY <1>4 DEF SendLogout, table, history
  <1>5. ASSUME NEW t \in Tokens, Expire(t) PROVE SpentInv'
    BY <1>5 DEF Expire, history
  <1>6. ASSUME DeleteExpired PROVE SpentInv'
    BY <1>6 DEF DeleteExpired, history
  <1>7. ASSUME NEW u \in Users, DeleteUser(u) PROVE SpentInv'
    BY <1>7 DEF DeleteUser, DeleteByUserID, Families, Owned
  <1>8. ASSUME UNCHANGED vars PROVE SpentInv'
    BY <1>8 DEF vars, table, history
  <1> QED
    BY <1>1, <1>2, <1>3, <1>4, <1>5, <1>6, <1>7, <1>8 DEF Next

\* A call caught between Save and MarkUsed by a revocation finds its old row gone.
LEMMA RevokedKept == TokenInv /\ [Next]_vars => RevokedInv'
  <1> SUFFICES ASSUME TokenInv, [Next]_vars PROVE RevokedInv'
    OBVIOUS
  <1> USE TokenAssumption
       DEF TokenInv, TypeOK, MintedInv, CallInv, FamilyInv, RevokedInv, RevocationHolds, Minted,
           Rotating, CallPCs, Fallible
  <1>1. ASSUME NEW c \in Calls, Step(c) PROVE RevokedInv'
    <2>1. CASE FindByHash(c)
      <3>1. /\ call'[c].pc \in {"denied", "revoke", "lapse", "user"}
            /\ call' = [call EXCEPT ![c].pc = call'[c].pc]
        BY <2>1 DEF FindByHash, Deny, Goto
      <3>2. UNCHANGED <<table, jar, answered, revoked>>
        BY <2>1 DEF FindByHash
      <3> QED
        BY <3>1, <3>2 DEF table
    <2>2. CASE FindByID(c)
      <3>1. /\ call'[c].pc \in {"save", "denied"}
            /\ call' = [call EXCEPT ![c].pc = call'[c].pc]
        BY <2>2 DEF FindByID, Deny, Goto, Following
      <3>2. UNCHANGED <<table, jar, answered, revoked>>
        BY <2>2 DEF FindByID
      <3> QED
        BY <3>1, <3>2 DEF table
    <2>3. CASE SaveNew(c)
      BY <2>3 DEF SaveNew, Save, Following, GenerateRefreshToken, history
    <2>4. CASE MarkUsed(c)
      <3>1. CASE Affected(call[c].old)
        <4>1. row' = [row EXCEPT ![call[c].old] = "used"]
          BY <2>4, <3>1 DEF MarkUsed, Affected
        <4>2. call' = [call EXCEPT ![c].pc = "granted"]
          BY <2>4, <3>1 DEF MarkUsed, Goto, Following
        <4> QED
          BY <2>4, <3>1, <4>1, <4>2 DEF MarkUsed, Affected, history
      <3>2. CASE ~Affected(call[c].old)
        <4>1. row' = row /\ call' = [call EXCEPT ![c].pc = "revoke"]
          BY <2>4, <3>2 DEF MarkUsed, Goto
        <4> QED
          BY <2>4, <4>1 DEF MarkUsed, history
      <3> QED
        BY <3>1, <3>2
    <2>5. CASE Revoke(c)
      BY <2>5 DEF Revoke, DeleteByUserID, Families, Deny, Goto, Owned
    <2>6. CASE Lapse(c)
      <3>1. CASE UNCHANGED <<row, revoked>>
        BY <2>6, <3>1 DEF Lapse, Deny, Goto
      <3>2. CASE DeleteByUserID(call[c].user) /\ revoked' = revoked \cup Families(call[c].user)
        BY <2>6, <3>2 DEF Lapse, DeleteByUserID, Families, Deny, Goto, Owned
      <3> QED
        BY <2>6, <3>1, <3>2 DEF Lapse
    <2>7. CASE LoginSave(c)
      BY <2>7 DEF LoginSave, Save, GenerateRefreshToken, history
    <2>8. CASE Logout(c)
      BY <2>8 DEF Logout, DeleteByUserID, Families, Deny, Goto, Owned
    <2>9. CASE Fail(c)
      BY <2>9 DEF Fail, OnError, Idle, table
    <2>10. CASE Granted(c)
      BY <2>10 DEF Granted, Idle, table
    <2>11. CASE Denied(c)
      BY <2>11 DEF Denied, Idle, table, history
    <2> QED
      BY <1>1, <2>1, <2>2, <2>3, <2>4, <2>5, <2>6, <2>7, <2>8, <2>9, <2>10, <2>11 DEF Step
  <1>2. ASSUME NEW c \in Calls, NEW b \in Browsers, Send(c, b) PROVE RevokedInv'
    BY <1>2 DEF Send, table, history
  <1>3. ASSUME NEW c \in Calls, NEW b \in Browsers, NEW u \in Users, Login(c, b, u)
       PROVE RevokedInv'
    BY <1>3 DEF Login, table, history
  <1>4. ASSUME NEW c \in Calls, NEW b \in Browsers, NEW u \in Users, SendLogout(c, b, u)
       PROVE RevokedInv'
    BY <1>4 DEF SendLogout, table, history
  <1>5. ASSUME NEW t \in Tokens, Expire(t) PROVE RevokedInv'
    BY <1>5 DEF Expire, history
  <1>6. ASSUME DeleteExpired PROVE RevokedInv'
    BY <1>6 DEF DeleteExpired, history
  <1>7. ASSUME NEW u \in Users, DeleteUser(u) PROVE RevokedInv'
    BY <1>7 DEF DeleteUser, DeleteByUserID, Families, Owned
  <1>8. ASSUME UNCHANGED vars PROVE RevokedInv'
    BY <1>8 DEF vars, table, history
  <1> QED
    BY <1>1, <1>2, <1>3, <1>4, <1>5, <1>6, <1>7, <1>8 DEF Next

\* A reply that clears the cookie follows the deletion or the expiry of the rows.
LEMMA UselessKept == TokenInv /\ [Next]_vars => (LapseInv /\ DeniedIsUseless)'
  <1> SUFFICES ASSUME TokenInv, [Next]_vars PROVE (LapseInv /\ DeniedIsUseless)'
    OBVIOUS
  <1> USE TokenAssumption
       DEF TokenInv, TypeOK, MintedInv, CallInv, RevokedInv, LapseInv, DeniedIsUseless, Minted,
           Rotating, Usable, CallPCs, Fallible
  <1>1. ASSUME NEW c \in Calls, Step(c) PROVE (LapseInv /\ DeniedIsUseless)'
    <2>1. CASE FindByHash(c)
      <3>1. \A t \in denied' : t \in denied \/ row[t] = "absent"
        BY <2>1 DEF FindByHash, Deny
      <3>2. call'[c].pc = "lapse" => call[c].old \in expired
        BY <2>1 DEF FindByHash, Deny, Goto
      <3>3. call' = [call EXCEPT ![c].pc = call'[c].pc]
        BY <2>1 DEF FindByHash, Deny, Goto
      <3>4. UNCHANGED table
        BY <2>1 DEF FindByHash
      <3> QED
        BY <3>1, <3>2, <3>3, <3>4 DEF table
    <2>2. CASE FindByID(c)
      <3>1. \A t \in denied' : t \in denied \/ row[t] = "absent"
        BY <2>2 DEF FindByID, Deny, Owned
      <3>2. call'[c].pc # "lapse"
        BY <2>2 DEF FindByID, Deny, Goto, Following
      <3>3. call' = [call EXCEPT ![c].pc = call'[c].pc]
        BY <2>2 DEF FindByID, Deny, Goto, Following
      <3>4. UNCHANGED table
        BY <2>2 DEF FindByID
      <3> QED
        BY <3>1, <3>2, <3>3, <3>4 DEF table
    <2>3. CASE SaveNew(c)
      BY <2>3 DEF SaveNew, Save, Following, GenerateRefreshToken, history
    <2>4. CASE MarkUsed(c)
      <3>1. /\ call'[c].pc \in {"granted", "revoke"}
            /\ call' = [call EXCEPT ![c].pc = call'[c].pc]
        BY <2>4 DEF MarkUsed, Goto, Following
      <3>2. \A t \in Tokens : row'[t] = "live" => row[t] = "live"
        BY <2>4 DEF MarkUsed
      <3> QED
        BY <2>4, <3>1, <3>2 DEF MarkUsed, history
    <2>5. CASE Revoke(c)
      BY <2>5 DEF Revoke, DeleteByUserID, Families, Deny, Goto, Owned
    <2>6. CASE Lapse(c)
      BY <2>6 DEF Lapse, DeleteByUserID, Families, Deny, Goto, Owned
    <2>7. CASE LoginSave(c)
      BY <2>7 DEF LoginSave, Save, GenerateRefreshToken, history
    <2>8. CASE Logout(c)
      BY <2>8 DEF Logout, DeleteByUserID, Families, Deny, Goto, Owned
    <2>9. CASE Fail(c)
      BY <2>9 DEF Fail, OnError, Idle, table
    <2>10. CASE Granted(c)
      BY <2>10 DEF Granted, Idle, table
    <2>11. CASE Denied(c)
      BY <2>11 DEF Denied, Idle, table, history
    <2> QED
      BY <1>1, <2>1, <2>2, <2>3, <2>4, <2>5, <2>6, <2>7, <2>8, <2>9, <2>10, <2>11 DEF Step
  <1>2. ASSUME NEW c \in Calls, NEW b \in Browsers, Send(c, b) PROVE (LapseInv /\ DeniedIsUseless)'
    BY <1>2 DEF Send, table, history
  <1>3. ASSUME NEW c \in Calls, NEW b \in Browsers, NEW u \in Users, Login(c, b, u)
       PROVE (LapseInv /\ DeniedIsUseless)'
    BY <1>3 DEF Login, table, history
  <1>4. ASSUME NEW c \in Calls, NEW b \in Browsers, NEW u \in Users, SendLogout(c, b, u)
       PROVE (LapseInv /\ DeniedIsUseless)'
    BY <1>4 DEF SendLogout, table, history
  <1>5. ASSUME NEW t \in Tokens, Expire(t) PROVE (LapseInv /\ DeniedIsUseless)'
    BY <1>5 DEF Expire, history
  <1>6. ASSUME DeleteExpired PROVE (LapseInv /\ DeniedIsUseless)'
    BY <1>6 DEF DeleteExpired, history
  <1>7. ASSUME NEW u \in Users, DeleteUser(u) PROVE (LapseInv /\ DeniedIsUseless)'
    BY <1>7 DEF DeleteUser, DeleteByUserID, Families, Owned
  <1>8. ASSUME UNCHANGED vars PROVE (LapseInv /\ DeniedIsUseless)'
    BY <1>8 DEF vars, table, history
  <1> QED
    BY <1>1, <1>2, <1>3, <1>4, <1>5, <1>6, <1>7, <1>8 DEF Next

---------------------------------------------------------------------------
(* The refinement of SessionChain. *)

\* Of the granted tokens of a login one at most is live.
ChainInv ==
    \A s, t \in Issued :
        /\ about[s].login = about[t].login
        /\ row[s] = "live" /\ row[t] = "live"
        => s = t

\* A step after which the same tokens are granted and no row has come to life.
OnlyEnds ==
    /\ Issued' = Issued
    /\ \A t \in Issued : about'[t] = about[t] /\ (row'[t] = "live" => row[t] = "live")

\* What is granted has been minted.
LEMMA IssuedMinted == ASSUME TokenInv PROVE Issued \subseteq Minted
  BY DEF TokenInv, MintedInv, CallInv, Issued

\* Who looks at the sessions sees nothing of such a step, or sees some of them end.
LEMMA EndsOrStutters ==
  ASSUME TokenInv, ChainInv, OnlyEnds
  PROVE  ChainInv' /\ [Chain!Next]_(Chain!vars)
  <1>1. ChainInv'
    BY DEF ChainInv, OnlyEnds
  <1> DEFINE over == {s \in Chain!Alive : Bearer'[s] = {}}
  <1>2. Issued \subseteq Tokens
    BY IssuedMinted DEF Minted
  <1>3. ASSUME NEW s \in Tokens PROVE Bearer'[s] = IF s \in over THEN {} ELSE Bearer[s]
    <2>1. Bearer'[s] = {t \in Issued' : about'[t].login = s /\ row'[t] = "live"}
      BY DEF Bearer
    <2>2. Bearer[s] = {t \in Issued : about[t].login = s /\ row[t] = "live"}
      BY DEF Bearer
    <2>3. Bearer'[s] \subseteq Bearer[s]
      BY <2>1, <2>2 DEF OnlyEnds
    <2>4. \A x, y \in Bearer[s] : x = y
      BY <2>2 DEF ChainInv
    <2>5. Bearer'[s] = {} \/ Bearer'[s] = Bearer[s]
      BY <2>3, <2>4
    <2> QED
      BY <2>3, <2>5 DEF Chain!Alive
  <1>4. Bearer' = [s \in Tokens |-> IF s \in over THEN {} ELSE Bearer[s]]
    <2>1. Bearer' = [s \in Tokens |-> Bearer'[s]]
      BY DEF Bearer
    <2> HIDE DEF over
    <2> QED
      BY <2>1, <1>3
  <1>5. over \in SUBSET Chain!Alive /\ Chain!End(over)
    BY <1>4 DEF Chain!End, OnlyEnds
  <1> QED
    BY <1>1, <1>5 DEF Chain!Next

\* A login opens a session that nobody knows a token of.
LEMMA LoginOpens ==
  ASSUME TokenInv, ChainInv, NEW c \in Calls, LoginSave(c)
  PROVE  ChainInv' /\ [Chain!Next]_(Chain!vars)
  <1> USE DEF TokenInv, TypeOK
  <1>1. PICK t \in GenerateRefreshToken :
           /\ Save(t, call[c].user, t, NoToken)
           /\ call' = [call EXCEPT ![c].new = t, ![c].pc = "granted"]
    BY DEF LoginSave
  <1>2. call[c].pc = "login" /\ answered' = answered
    BY DEF LoginSave, history
  <1>3. t \in Tokens /\ t \notin Minted /\ t \notin Issued /\ Issued \subseteq Minted
    BY <1>1, IssuedMinted DEF GenerateRefreshToken
  <1>4. Issued' = Issued \cup {t}
    <2>1. {d \in Calls : call'[d].pc = "granted"} = {d \in Calls : call[d].pc = "granted"} \cup {c}
      BY <1>1
    <2>2. call'[c].new = t /\ \A d \in Calls \ {c} : call'[d].new = call[d].new
      BY <1>1
    <2> QED
      BY <1>2, <2>1, <2>2 DEF Issued
  <1>5. /\ row'[t] = "live" /\ about'[t].login = t
        /\ \A x \in Issued : row'[x] = row[x] /\ about'[x] = about[x] /\ about[x].login # t
    <2>1. /\ row' = [row EXCEPT ![t] = "live"]
          /\ about' = [about EXCEPT ![t] = [owner |-> call[c].user, login |-> t,
                                            parent |-> NoToken]]
      BY <1>1 DEF Save
    <2>2. \A x \in Issued : about[x].login \in Minted
      BY <1>3 DEF FamilyInv
    <2>3. Issued \subseteq Tokens
      BY <1>3 DEF Minted
    <2> QED
      BY <1>3, <2>1, <2>2, <2>3
  <1>6. ChainInv'
    BY <1>4, <1>5 DEF ChainInv
  <1>7. Bearer' = [Bearer EXCEPT ![t] = {t}]
    <2>1. ASSUME NEW s \in Tokens PROVE Bearer'[s] = IF s = t THEN {t} ELSE Bearer[s]
      <3>1. Bearer'[s] = {x \in Issued' : about'[x].login = s /\ row'[x] = "live"}
        BY DEF Bearer
      <3>2. Bearer[s] = {x \in Issued : about[x].login = s /\ row[x] = "live"}
        BY DEF Bearer
      <3> QED
        BY <3>1, <3>2, <1>4, <1>5
    <2>2. Bearer' = [s \in Tokens |-> Bearer'[s]] /\ Bearer = [s \in Tokens |-> Bearer[s]]
      BY DEF Bearer
    <2> QED
      BY <2>1, <2>2
  <1>8. Chain!Open(t)
    BY <1>3, <1>4, <1>7 DEF Chain!Open
  <1> QED
    BY <1>3, <1>6, <1>8 DEF Chain!Next

\* MarkUsed takes the session from the token it consumes.
LEMMA RotationRenews ==
  ASSUME TokenInv, ChainInv, NEW c \in Calls, MarkUsed(c), Affected(call[c].old)
  PROVE  ChainInv' /\ [Chain!Next]_(Chain!vars)
  <1> USE DEF TokenInv, TypeOK
  <1> DEFINE old == call[c].old
             new == call[c].new
             login == about[old].login
  <1>1. /\ row' = [row EXCEPT ![old] = "used"]
        /\ call' = [call EXCEPT ![c].pc = "granted"]
        /\ call[c].pc = "mark" /\ about' = about /\ answered' = answered /\ row[old] = "live"
    BY DEF MarkUsed, Affected, Goto, Following, history
  <1>2. /\ old \in answered /\ new \in Minted \ answered /\ about[new].login = login
        /\ old \in Tokens /\ new \in Tokens /\ old # new
    BY <1>1 DEF CallInv, Rotating, Minted
  <1>3. new \notin Issued /\ old \in Issued /\ Issued \subseteq Tokens
    BY <1>1, <1>2, IssuedMinted DEF NewInv, Issued, Minted
  <1>4. login \in Tokens
    BY <1>2 DEF MintedInv, FamilyInv, Minted
  <1>5. Issued' = Issued \cup {new}
    <2>1. {d \in Calls : call'[d].pc = "granted"} = {d \in Calls : call[d].pc = "granted"} \cup {c}
      BY <1>1
    <2>2. \A d \in Calls : call'[d].new = call[d].new
      BY <1>1
    <2> QED
      BY <1>1, <2>1, <2>2 DEF Issued
  <1>6. \A x \in Issued : about[x].login = login /\ row[x] = "live" => x = old
    BY <1>1, <1>3 DEF ChainInv
  <1>7. ChainInv'
    <2>1. \A x \in Issued' : about'[x].login = login /\ row'[x] = "live" => x = new
      BY <1>1, <1>2, <1>3, <1>5, <1>6
    <2>2. \A x \in Issued' : about'[x].login # login => x \in Issued /\ row'[x] = row[x]
      BY <1>1, <1>2, <1>3, <1>5
    <2> HIDE DEF old, new, login
    <2> QED
      BY <1>1, <2>1, <2>2 DEF ChainInv
  <1> DEFINE heirs == IF row[new] = "live" THEN {new} ELSE {}
  <1>8. Bearer' = [Bearer EXCEPT ![login] = heirs]
    <2>1. ASSUME NEW s \in Tokens PROVE Bearer'[s] = IF s = login THEN heirs ELSE Bearer[s]
      <3>1. Bearer'[s] = {x \in Issued' : about'[x].login = s /\ row'[x] = "live"}
        BY DEF Bearer
      <3>2. Bearer[s] = {x \in Issued : about[x].login = s /\ row[x] = "live"}
        BY DEF Bearer
      <3> QED
        BY <3>1, <3>2, <1>1, <1>2, <1>3, <1>5, <1>6
    <2>2. Bearer' = [s \in Tokens |-> Bearer'[s]] /\ Bearer = [s \in Tokens |-> Bearer[s]]
      BY DEF Bearer
    <2> HIDE DEF heirs, login
    <2> QED
      BY <2>1, <2>2, <1>4
  <1>9. Bearer[login] = {old}
    BY <1>1, <1>3, <1>4, <1>6 DEF Bearer
  <1>10. Chain!Renew(login, new)
    <2>1. heirs \in {{new}, {}}
      OBVIOUS
    <2> HIDE DEF heirs, login, old, new
    <2> QED
      BY <1>3, <1>5, <1>8, <1>9, <2>1 DEF Chain!Renew
  <1> QED
    BY <1>2, <1>4, <1>7, <1>10 DEF Chain!Next

\* Every other step of a call grants nothing and brings no granted row to life.
LEMMA OthersEnd ==
  ASSUME TokenInv, NEW c \in Calls, Step(c), ~LoginSave(c),
         ~(MarkUsed(c) /\ Affected(call[c].old))
  PROVE  OnlyEnds
  <1> USE DEF TokenInv, TypeOK, OnlyEnds
  <1>1. Issued \subseteq Minted /\ Minted \subseteq Tokens
    BY IssuedMinted DEF Minted
  <1>2. ASSUME call[c].pc # "granted", call'[c].pc # "granted", answered' = answered,
               \A d \in Calls \ {c} : call'[d] = call[d]
        PROVE  Issued' = Issued
    <2>1. \A d \in Calls : call'[d].pc = "granted" <=> call[d].pc = "granted"
      BY <1>2
    <2>2. \A d \in Calls : call[d].pc = "granted" => call'[d].new = call[d].new
      BY <1>2
    <2> QED
      BY <1>2, <2>1, <2>2 DEF Issued
  <1>3. ASSUME NEW u, DeleteByUserID(u)
        PROVE  \A t \in Tokens : row'[t] = "live" => row[t] = "live"
    BY <1>3 DEF DeleteByUserID
  <1>4. CASE FindByHash(c)
    BY <1>1, <1>2, <1>4 DEF FindByHash, Deny, Goto, table
  <1>5. CASE FindByID(c)
    BY <1>1, <1>2, <1>5 DEF FindByID, Deny, Goto, Following, table
  <1>6. CASE SaveNew(c)
    <2>1. PICK t \in GenerateRefreshToken :
             /\ Save(t, call[c].user, about[call[c].old].login, call[c].old)
             /\ call' = [call EXCEPT ![c].new = t, ![c].pc = "mark"]
      BY <1>6 DEF SaveNew, Following
    <2>2. t \in Tokens /\ t \notin Issued
      BY <1>1, <2>1 DEF GenerateRefreshToken
    <2>3. \A x \in Issued : row'[x] = row[x] /\ about'[x] = about[x]
      BY <1>1, <2>1, <2>2 DEF Save
    <2> QED
      BY <1>2, <1>6, <2>1, <2>3 DEF SaveNew, history
  <1>7. CASE MarkUsed(c)
    BY <1>1, <1>2, <1>7 DEF MarkUsed, Goto, history
  <1>8. CASE Revoke(c)
    BY <1>1, <1>2, <1>3, <1>8 DEF Revoke, Deny, Goto
  <1>9. CASE Lapse(c)
    BY <1>1, <1>2, <1>3, <1>9 DEF Lapse, Deny, Goto
  <1>10. CASE Logout(c)
    BY <1>1, <1>2, <1>3, <1>10 DEF Logout, Deny, Goto
  <1>11. CASE Fail(c)
    BY <1>1, <1>2, <1>11 DEF Fail, Fallible, OnError, Idle, table
  <1>12. CASE Granted(c)
    <2>1. /\ answered' = answered \cup {call[c].new} /\ call[c].pc = "granted"
          /\ call'[c].pc = "idle" /\ \A d \in Calls \ {c} : call'[d] = call[d]
      BY <1>12 DEF Granted, Idle
    <2>2. Issued' = Issued
      BY <2>1 DEF Issued
    <2> QED
      BY <1>1, <1>12, <2>2 DEF Granted, table
  <1>13. CASE Denied(c)
    BY <1>1, <1>2, <1>13 DEF Denied, Idle, table, history
  <1> QED
    BY <1>4, <1>5, <1>6, <1>7, <1>8, <1>9, <1>10, <1>11, <1>12, <1>13 DEF Step

\* Each step is a login, a renewal, the end of some sessions, or not to be seen.
LEMMA ChainStep ==
  ASSUME TokenInv, ChainInv, [Next]_vars
  PROVE  ChainInv' /\ [Chain!Next]_(Chain!vars)
  <1> USE DEF TokenInv, TypeOK
  <1>1. ASSUME NEW c \in Calls, Step(c) PROVE ChainInv' /\ [Chain!Next]_(Chain!vars)
    BY <1>1, LoginOpens, RotationRenews, OthersEnd, EndsOrStutters
  <1>2. Issued \subseteq Tokens
    BY IssuedMinted DEF Minted
  <1>3. ASSUME NEW c \in Calls, NEW b \in Browsers,
               Send(c, b) \/ \E u \in Users : Login(c, b, u) \/ SendLogout(c, b, u)
        PROVE  OnlyEnds
    <2>1. /\ call[c].pc = "idle" /\ call'[c].pc \in {"find", "login", "logout"}
          /\ \A d \in Calls \ {c} : call'[d] = call[d]
          /\ UNCHANGED <<table, history>>
      BY <1>3 DEF Send, Login, SendLogout
    <2>2. Issued' = Issued
      BY <2>1 DEF Issued, history
    <2> QED
      BY <2>1, <2>2 DEF OnlyEnds, table
  <1>4. ASSUME NEW t \in Tokens, Expire(t) PROVE OnlyEnds
    BY <1>4 DEF Expire, OnlyEnds, Issued, history
  <1>5. ASSUME DeleteExpired PROVE OnlyEnds
    BY <1>2, <1>5 DEF DeleteExpired, OnlyEnds, Issued, history
  <1>6. ASSUME NEW u \in Users, DeleteUser(u) PROVE OnlyEnds
    BY <1>2, <1>6 DEF DeleteUser, DeleteByUserID, OnlyEnds, Issued
  <1>7. ASSUME UNCHANGED vars PROVE OnlyEnds
    BY <1>7 DEF vars, table, history, OnlyEnds, Issued
  <1> QED
    BY <1>1, <1>3, <1>4, <1>5, <1>6, <1>7, EndsOrStutters DEF Next

---------------------------------------------------------------------------
\* The conjuncts hold of the initial state and of every step together.
LEMMA InvariantHolds == Spec => []TokenInv
  <1>1. TokenInv /\ [Next]_vars => TokenInv'
    <2> SUFFICES ASSUME TokenInv, [Next]_vars PROVE TokenInv'
      OBVIOUS
    <2>1. TypeOK' BY TypeKept DEF TokenInv
    <2> QED
      BY <2>1, MintedKept, CallKept, NewKept, FamilyKept, SpentKept, RevokedKept, UselessKept
         DEF TokenInv
  <1> QED
    BY TokenStart, <1>1, PTL DEF Spec

\* The state keeps the shape of the tables, the cookie jars and the calls.
THEOREM TypeCorrect == Spec => []TypeOK
  <1>1. TokenInv => TypeOK
    BY DEF TokenInv
  <1> QED
    BY InvariantHolds, <1>1, PTL

\* A refresh token buys one successor at most, however many calls of however
\* many browsers present it at once (MarkUsed's UPDATE ... AND used_at IS NULL).
THEOREM RotationIsSingleUse == Spec => []SingleUse
  <1>1. TokenInv => SingleUse
    BY DEF TokenInv, SpentInv
  <1> QED
    BY InvariantHolds, <1>1, PTL

\* Once a theft response, a logout or the deletion of the user has deleted the
\* rows of a user, no token of those logins is ever live in anybody's hands
\* again (DeleteByUserID against a rotation that is between Save and MarkUsed).
THEOREM RevocationIsFinal == Spec => []RevocationHolds
  <1>1. TokenInv => RevocationHolds
    BY DEF TokenInv, RevokedInv
  <1> QED
    BY InvariantHolds, <1>1, PTL

\* A token whose bearer was told that the session is over can never be used
\* again (the handlers' clearRefreshCookie after an AuthError or a logout).
THEOREM DenialIsFinal == Spec => []DeniedIsUseless
  <1>1. TokenInv => DeniedIsUseless
    BY DEF TokenInv
  <1> QED
    BY InvariantHolds, <1>1, PTL

\* Rotation implements SessionChain: to a reader of the granted tokens each
\* login is one chain of tokens that is handed on, one at a time, until it ends
\* for good (MarkUsed's compare-and-swap against DeleteByUserID).
THEOREM SessionsAreChains == Spec => OneChainPerLogin
  <1>1. Init => ChainInv /\ Chain!Init
    BY DEF Init, ChainInv, Issued, Bearer, Chain!Init, Idle
  <1>2. TokenInv /\ ChainInv /\ [Next]_vars => ChainInv' /\ [Chain!Next]_(Chain!vars)
    BY ChainStep
  <1> QED
    BY InvariantHolds, <1>1, <1>2, PTL DEF Spec, OneChainPerLogin, Chain!Spec
=============================================================================
