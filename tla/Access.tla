------------------------------- MODULE Access -------------------------------
(***************************************************************************)
(* Bearer tokens of users: handleLogin issues them, WithAuth and           *)
(* VerifyUserToken of internal/security/auth.go accept them for a day, and *)
(* handleGetProfile serves their owner.  Meanwhile users register and the  *)
(* tables are rolled back, so that a token may outlive the user it is for  *)
(* and see another one under the same name.                                *)
(*                                                                         *)
(* A signature is that of the server's secret or the token is none.  The   *)
(* administrator's secret carries no claims and is left out here.          *)
(***************************************************************************)
EXTENDS UserStore

CONSTANTS
    Second,          \* ticks in a second, the unit of exp
    Ttl,             \* of a token, 24 h, in ticks
    RequestTimeout,  \* of a request's context, in ticks
    MaxNow           \* bound: the clock

ASSUME AccessAssumption ==
    /\ Second \in Nat \ {0}
    /\ {Ttl, RequestTimeout, MaxNow} \subseteq Nat

VARIABLES
    now,     \* the servers' clock
    token,   \* what each login was given
    ask,     \* a profile each token's owner asks for, while the database is read
    reply    \* the answer just given to such a request, and the token's age then

accessVars == <<vars, now, token, ask, reply>>

Silence == [l \in Logins |-> None]

AccessInit ==
    /\ Init
    /\ now = 0
    /\ token = [l \in Logins |-> None]
    /\ ask = [l \in Logins |-> None]
    /\ reply = Silence

-----------------------------------------------------------------------------
(* Seeded faults: each replaces the definition it is named after, to see a *)
(* property fail.  None is part of the specification.                      *)

OwnsByName(t, id) == NameOf[t.sub] = NameOf[id]   \* claims.Username
VerifiesAtEnd(t)  == now \div Second <= t.exp

-----------------------------------------------------------------------------
\* GenerateUserToken: Unix() drops what is less than a second.
Signed(user) == [sub |-> user, issued |-> now, exp |-> (now + Ttl) \div Second]

\* VerifyUserToken, of a token the server has signed.
Verifies(t) == now \div Second < t.exp

\* claims.UserID == id
Owns(t, id) == t.sub = id

Reply(l, id, status) ==
    reply' = [Silence EXCEPT ![l] = [id |-> id, status |-> status, age |-> now - token[l].issued]]

\* Registrations, logins and rollbacks; a login that is granted gets a token.
Meanwhile ==
    /\ Next
    /\ token' = [l \in Logins |->
                   IF answer[l] # "granted" /\ answer'[l] = "granted"
                   THEN Signed(found[l]) ELSE token[l]]
    /\ reply' = Silence
    /\ UNCHANGED <<now, ask>>

\* GET /api/v1/profiles/{id}: WithAuth, then the handler's own check.
AskProfile(l, id) ==
    /\ token[l] # None /\ ask[l] = None
    /\ CASE ~Verifies(token[l]) -> Reply(l, id, "unauthorized") /\ UNCHANGED ask
         [] Verifies(token[l]) /\ ~Owns(token[l], id) ->
              Reply(l, id, "forbidden") /\ UNCHANGED ask
         [] OTHER -> ask' = [ask EXCEPT ![l] = [id |-> id, age |-> 0]] /\ reply' = Silence
    /\ UNCHANGED <<vars, now, token>>

Answered(l) == ask' = [ask EXCEPT ![l] = None] /\ UNCHANGED <<vars, now, token>>

\* The SELECT gets its connection and its lock, perhaps much later.
ReadProfile(l) ==
    /\ ask[l] # None
    /\ HasConn
    /\ dropping # "profile"
    /\ Reply(l, ask[l].id, IF ~schema THEN "error"
                           ELSE IF ask[l].id \in profiles THEN "ok" ELSE "not found")
    /\ Answered(l)

\* It fails, at the latest when the request's context is done.
ReadFails(l) ==
    /\ ask[l] # None
    /\ Reply(l, ask[l].id, "error")
    /\ Answered(l)

Tick ==
    /\ now < MaxNow
    /\ \A l \in Logins : ask[l] # None => ask[l].age < RequestTimeout
    /\ now' = now + 1
    /\ ask' = [l \in Logins |-> IF ask[l] = None THEN None ELSE [ask[l] EXCEPT !.age = @ + 1]]
    /\ reply' = Silence
    /\ UNCHANGED <<vars, token>>

AccessNext ==
    \/ Meanwhile \/ Tick
    \/ \E l \in Logins :
         ReadProfile(l) \/ ReadFails(l) \/ \E id \in Requests : AskProfile(l, id)

AccessSpec == AccessInit /\ [][AccessNext]_accessVars

\* The user store's fairness; tokens and requests owe nothing.
AccessFairSpec == AccessSpec /\ Fairness

-----------------------------------------------------------------------------
(* Properties.                                                             *)

\* A token opens the profile of the user who logged in with a password and no
\* other, also when the tables were rolled back since and somebody else has
\* registered under the same name.
OwnProfileOnly ==
    \A l \in Logins :
        reply[l] # None /\ reply[l].status \in {"ok", "not found"} => reply[l].id = CredsOf[l]

\* A token is good for its 24 hours but for less than a second, by which exp
\* is rounded down, and not longer; only a read that waits for the database
\* may still be answered until its request times out.
TokenLastsItsTime ==
    \A l \in Logins : reply[l] # None =>
        /\ reply[l].status = "unauthorized" => reply[l].age > Ttl - Second
        /\ reply[l].status = "forbidden" => reply[l].age < Ttl
        /\ reply[l].age < Ttl + RequestTimeout \/ reply[l].status = "unauthorized"
=============================================================================
