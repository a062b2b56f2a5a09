----------------------------- MODULE Directory ------------------------------
(***************************************************************************)
(* What the user store promises: a directory of names, each taken at most  *)
(* once.  A registration takes effect at once or not at all, a login is    *)
(* answered by what the directory says at one moment of the call.          *)
(***************************************************************************)
CONSTANTS Requests, Logins, None, NameOf, CredsOf

VARIABLES
    users,    \* the request that owns each name, or None
    answer,   \* what each call was told
    late      \* registrations told "error" that may still take effect

Take(r) ==
    /\ users[NameOf[r]] = None
    /\ users' = [users EXCEPT ![NameOf[r]] = r]

Tell(c, what) ==
    /\ answer[c] = "none"
    /\ answer' = [answer EXCEPT ![c] = what]

Init ==
    /\ users = [n \in {NameOf[r] : r \in Requests} |-> None]
    /\ answer = [c \in Requests \cup Logins |-> "none"]
    /\ late = {}

\* The name was free and is r's now, whether or not r gets to know.
Register(r) ==
    /\ Take(r)
    /\ Tell(r, "created")
    /\ UNCHANGED late

Refuse(r) ==
    /\ users[NameOf[r]] \notin {None, r}
    /\ Tell(r, "taken")
    /\ UNCHANGED <<users, late>>

Fail(c) ==
    /\ Tell(c, "error")
    /\ \/ UNCHANGED late
       \/ c \in Requests /\ late' = late \cup {c}
    /\ UNCHANGED users

\* A registration in doubt takes effect after all, or does not.
Settle(r) ==
    /\ r \in late
    /\ Take(r) \/ UNCHANGED users
    /\ late' = late \ {r}
    /\ UNCHANGED answer

Login(l) ==
    /\ Tell(l, IF users[NameOf[CredsOf[l]]] = CredsOf[l] THEN "granted" ELSE "denied")
    /\ UNCHANGED <<users, late>>

\* The tables are rolled back.
Clear ==
    /\ users' = [n \in DOMAIN users |-> None]
    /\ UNCHANGED <<answer, late>>

Next ==
    \/ \E r \in Requests : Register(r) \/ Refuse(r) \/ Fail(r) \/ Settle(r)
    \/ \E l \in Logins : Login(l) \/ Fail(l)
    \/ Clear

Spec == Init /\ [][Next]_<<users, answer, late>>
=============================================================================
