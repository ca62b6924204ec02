---------------------------- MODULE SessionChain ----------------------------
(***************************************************************************)
(* What refresh tokens promise, without the calls: a login opens a session *)
(* that one token bears at a time.  Each renewal takes it from its bearer  *)
(* for a token never seen before; a session that has lost its bearer is    *)
(* over for good.  Statements that fail or interleave, replacements that   *)
(* were saved in vain and lost replies are not to be seen from here.       *)
(***************************************************************************)
CONSTANT Token

VARIABLES
    bearer,     \* the token that can renew the session of each login, if any
    issued      \* tokens that were ever handed out

vars == <<bearer, issued>>

Init ==
    /\ bearer = [s \in Token |-> {}]
    /\ issued = {}

\* A login: the session has the name of its first token.
Open(s) ==
    /\ s \notin issued /\ issued' = issued \cup {s}
    /\ bearer' = [bearer EXCEPT ![s] = {s}]

\* The bearer is consumed.  Its successor may come too late to bear anything.
Renew(s, t) ==
    /\ t \notin issued /\ issued' = issued \cup {t}
    /\ \E old \in issued : bearer[s] = {old}
    /\ \E heirs \in {{t}, {}} : bearer' = [bearer EXCEPT ![s] = heirs]

Alive == {s \in Token : bearer[s] # {}}

\* A theft response, a logout, the deletion of the user, a cleanup.
End(S) ==
    /\ issued' = issued
    /\ bearer' = [s \in Token |-> IF s \in S THEN {} ELSE bearer[s]]

Next ==
    \/ \E t \in Token : Open(t) \/ \E s \in Token : Renew(s, t)
    \/ \E S \in SUBSET Alive : End(S)

Spec == Init /\ [][Next]_vars
=============================================================================
