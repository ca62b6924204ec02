--------------------------- MODULE SerialCommands ---------------------------
(***************************************************************************)
(* What a command of the application promises, without its transaction:   *)
(* either it happens as a whole, at one moment, or it never happens.  The  *)
(* moments put the commands in an order; each of them takes effect on what *)
(* the one before has left.  A command that does not happen (refused, cut  *)
(* off, panicked, killed) is not to be seen from here.                     *)
(*                                                                         *)
(* The tables hold one user's row, whose columns name the command that     *)
(* wrote them last, the users created besides, and the jobs enqueued.      *)
(***************************************************************************)
CONSTANTS Commands, Nobody

VARIABLES
    kind,       \* what each command does
    tables,     \* [row, users, jobs]
    done        \* commands that have happened

vars == <<kind, tables, done>>

Kinds == {"edit", "reset", "password", "create", "login"}

\* An administrator's edit replaces the profile, with a new password the
\* password too; a user replaces the password.
ReplacesProfile == {"edit", "reset"}
ReplacesPassword == {"reset", "password"}

\* A user who changes the password names the first one: it must still be it.
Accepts(c) ==
    /\ kind[c] # "login"
    /\ kind[c] = "password" => tables.row.password = Nobody

\* What the command may leave; enqueueing a job is up to it.
Results(c) ==
    [row   : {[profile  |-> IF kind[c] \in ReplacesProfile THEN c ELSE tables.row.profile,
               password |-> IF kind[c] \in ReplacesPassword THEN c ELSE tables.row.password]},
     users : {IF kind[c] = "create" THEN tables.users \cup {c} ELSE tables.users},
     jobs  : {tables.jobs, tables.jobs \cup {c}}]

FirstRow == [profile |-> Nobody, password |-> Nobody]

Init ==
    /\ kind \in [Commands -> Kinds]
    /\ tables = [row |-> FirstRow, users |-> {}, jobs |-> {}]
    /\ done = {}

Happens(c) ==
    /\ c \notin done /\ done' = done \cup {c}
    /\ Accepts(c)
    /\ tables' \in Results(c)
    /\ UNCHANGED kind

Next == \E c \in Commands : Happens(c)

Spec == Init /\ [][Next]_vars
=============================================================================
