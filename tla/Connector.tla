----------------------------- MODULE Connector ------------------------------
(***************************************************************************)
(* The vendor connector of internal/connector/client.go: concurrent calls  *)
(* of GetIdentity share one cached access token, one singleflight that     *)
(* fetches it, and a vendor that issues, expires and revokes tokens.       *)
(* Others call the exported Authenticate, under no singleflight: with the  *)
(* configured credentials they write the same cache; with any other ones   *)
(* they touch nothing of the connector and are left out.                   *)
(*                                                                         *)
(* Tokens are numbered in the order the vendor issues them.  Time is       *)
(* counted in ticks: what is left of the cached token by the connector's   *)
(* clock (left) and of every token by the vendor's (life).                 *)
(***************************************************************************)
EXTENDS Integers

CONSTANTS
    Callers,      \* goroutines that call GetIdentity
    Directs,      \* goroutines that call Authenticate themselves
    None,         \* no token
    Omitted,      \* expires_in is missing from the vendor's answer
    Answers,      \* what /auth answers: [expiresIn, life] (the true lifetime)
    DefaultTtl,   \* cfg.DefaultTokenTTL
    MaxTtl,       \* maxTTLSeconds
    FullMargin,   \* the 30 s safety margin
    AuthTimeout,  \* cfg.Timeout, for one request to the vendor
    MaxIssued     \* bound: tokens the vendor issues

Tokens  == 1..MaxIssued
Revoked == -1

ASSUME ConnectorAssumption ==
    /\ None \notin Tokens \cup Directs \cup Callers
    /\ Omitted \notin Int
    /\ {DefaultTtl, MaxTtl, FullMargin, AuthTimeout, MaxIssued} \subseteq Nat
    /\ DefaultTtl > 0 /\ MaxTtl > 0
    /\ \A a \in Answers : a.life \in Nat /\ a.expiresIn \in Int \cup {Omitted}

VARIABLES
    cached,     \* c.cachedToken
    left,       \* time until c.tokenExpiry, 0 once it has passed
    issued,     \* tokens the vendor has issued
    life,       \* time until the vendor stops to accept each token, or Revoked
    promised,   \* the lifetime Authenticate reads in the answer with each token
    askedBy,    \* the direct call a token was issued to, None: to the flight
    flight,     \* the singleflight call "auth": where it is, its token, its age
    authCtx,    \* the context of its request: the call it derives from, its error
    direct,     \* the same of each direct call of Authenticate
    pc,         \* where each caller is
    token,      \* the token it holds
    retried,    \* is this its second attempt?
    cancelled,  \* has its context ended?
    outcome     \* how its call ended: with the error of a context that was
                \* cancelled or has expired, or done (any other error, a result)

cache  == <<cached, left>>
vendor == <<issued, life, promised, askedBy>>
caller == <<pc, token, retried, cancelled, outcome>>
vars   == <<cache, vendor, flight, authCtx, direct, caller>>

\* The request to the vendor is being made, and timed.
Underway(f) == f.at \in {"asking", "answered"}

NoFlight == [at |-> "none", tok |-> None, age |-> 0]

\* A context that derives from context.Background().
Background == [from |-> None, err |-> "none"]

Requests(labels) == [at : labels, tok : Tokens \cup {None}, age : 0..AuthTimeout]

TypeOK ==
    /\ cached \in Tokens \cup {None}
    /\ left \in Nat
    /\ issued \in 0..MaxIssued
    /\ life \in [Tokens -> Nat \cup {Revoked}]
    /\ promised \in [Tokens -> Nat]
    /\ askedBy \in [Tokens -> Directs \cup {None}]
    /\ flight \in Requests({"none", "recheck", "asking", "answered", "returned"})
    /\ authCtx \in [from : Callers \cup {None}, err : {"none", "cancelled", "expired"}]
    /\ direct \in [Directs -> Requests({"none", "asking", "answered"})]
    /\ pc \in [Callers -> {"idle", "lookup", "miss", "wait", "call", "rejected"}]
    /\ token \in [Callers -> Tokens \cup {None}]
    /\ retried \in [Callers -> BOOLEAN]
    /\ cancelled \in [Callers -> BOOLEAN]
    /\ outcome \in [Callers -> {"none", "done", "cancelled", "expired"}]

Init ==
    /\ cached = None
    /\ left = 0
    /\ issued = 0
    /\ life = [t \in Tokens |-> 0]
    /\ promised = [t \in Tokens |-> 0]
    /\ askedBy = [t \in Tokens |-> None]
    /\ flight = NoFlight
    /\ authCtx = Background
    /\ direct = [d \in Directs |-> NoFlight]
    /\ pc = [c \in Callers |-> "idle"]
    /\ token = [c \in Callers |-> None]
    /\ retried = [c \in Callers |-> FALSE]
    /\ cancelled = [c \in Callers |-> FALSE]
    /\ outcome = [c \in Callers |-> "none"]

-----------------------------------------------------------------------------
(* Seeded faults: each replaces the definition it is named after, to see a *)
(* property fail.  None is part of the specification.                      *)

MarginNone(ttl)       == 0
MarginFull(ttl)       == FullMargin    \* not half of a short lifetime
ServedNever           == FALSE         \* the callback does not look again
InvalidatesAny(c)     == TRUE          \* no cachedToken == rejectedToken
InvalidatesNever(c)   == FALSE
TimerNever(age)       == FALSE         \* context.Background(), no timeout
AuthContextOfCaller(c) == [from |-> c, err |-> "none"]  \* WithTimeout(ctx, ...)

-----------------------------------------------------------------------------
(* The token cache.                                                        *)

CacheValid == cached # None /\ left > 0

\* The lifetime Authenticate reckons with; at most 0: do not cache.
Ttl(a) ==
    IF a.expiresIn = Omitted THEN DefaultTtl
    ELSE IF a.expiresIn > MaxTtl THEN MaxTtl ELSE a.expiresIn

Margin(ttl) == IF ttl < 2 * FullMargin THEN ttl \div 2 ELSE FullMargin

\* The end of Authenticate: a non-positive lifetime clears the cache.
Store(tok) ==
    /\ cached' = IF promised[tok] > 0 THEN tok ELSE None
    /\ left' = IF promised[tok] > 0 THEN promised[tok] - Margin(promised[tok]) ELSE 0

\* The vendor issues a token and promises it a lifetime; both are under way
\* in its answer.
Grant(a, asker) ==
    /\ issued < MaxIssued
    /\ issued' = issued + 1
    /\ life' = [life EXCEPT ![issued + 1] = a.life]
    /\ promised' = [promised EXCEPT ![issued + 1] = IF Ttl(a) > 0 THEN Ttl(a) ELSE 0]
    /\ askedBy' = [askedBy EXCEPT ![issued + 1] = asker]

\* invalidateTokenIfMatches.
Invalidates(c) == cached = token[c]

-----------------------------------------------------------------------------
(* GetIdentity.                                                            *)

Goto(c, label) == pc' = [pc EXCEPT ![c] = label]

Begin(c) ==
    /\ pc[c] = "idle"
    /\ Goto(c, "lookup")
    /\ outcome' = [outcome EXCEPT ![c] = "none"]
    /\ UNCHANGED <<cache, vendor, flight, authCtx, direct, token, retried, cancelled>>

\* A caller's context ends, and with it those that derive from it.  One that
\* ends elsewhere is noticed in one of these.
Cancel(c) ==
    /\ pc[c] \in {"wait", "call"}
    /\ ~cancelled[c]
    /\ cancelled' = [cancelled EXCEPT ![c] = TRUE]
    /\ authCtx' = IF authCtx.from = c /\ authCtx.err = "none"
         THEN [authCtx EXCEPT !.err = "cancelled"] ELSE authCtx
    /\ UNCHANGED <<cache, vendor, flight, direct, pc, token, retried, outcome>>

\* getValidToken reads the cache under the read lock ...
Lookup(c) ==
    /\ pc[c] = "lookup"
    /\ IF CacheValid
         THEN Goto(c, "call") /\ token' = [token EXCEPT ![c] = cached]
         ELSE Goto(c, "miss") /\ UNCHANGED token
    /\ UNCHANGED <<cache, vendor, flight, authCtx, direct, retried, cancelled, outcome>>

\* The context a flight that c starts makes for its request.  What it derives
\* from is fixed by c's call, although the callback makes it a little later.
AuthContext(c) == Background

\* ... and after it has let go of the lock joins the flight, or starts one.
Join(c) ==
    /\ pc[c] = "miss"
    /\ Goto(c, "wait")
    /\ IF flight.at = "none"
         THEN flight' = [NoFlight EXCEPT !.at = "recheck"] /\ authCtx' = AuthContext(c)
         ELSE UNCHANGED <<flight, authCtx>>
    /\ UNCHANGED <<cache, vendor, direct, token, retried, cancelled, outcome>>

Return(c, result) ==
    /\ Goto(c, "idle")
    /\ outcome' = [outcome EXCEPT ![c] = result]
    /\ token' = [token EXCEPT ![c] = None]
    /\ retried' = [retried EXCEPT ![c] = FALSE]
    /\ cancelled' = [cancelled EXCEPT ![c] = FALSE]

\* The caller's context ends its wait or its request; the flight goes on.
Abandon(c) ==
    /\ pc[c] \in {"wait", "call"}
    /\ cancelled[c]
    /\ Return(c, "cancelled")
    /\ UNCHANGED <<cache, vendor, flight, authCtx, direct>>

\* The vendor answers /identity.  It rejects a token it does not accept with
\* 401; the first rejection leads to a second attempt.
Answered(c) ==
    /\ pc[c] = "call"
    /\ IF life[token[c]] > 0
         THEN Return(c, "done")
         ELSE IF retried[c]
                THEN Return(c, "done")
                ELSE /\ Goto(c, "rejected")
                     /\ UNCHANGED <<token, retried, cancelled, outcome>>
    /\ UNCHANGED <<cache, vendor, flight, authCtx, direct>>

\* It does not, or with a 5xx or a broken body: ErrVendorUnavailable at the
\* latest when the client's timeout is over.
Unanswered(c) ==
    /\ pc[c] = "call"
    /\ Return(c, "done")
    /\ UNCHANGED <<cache, vendor, flight, authCtx, direct>>

Invalidate(c) ==
    /\ pc[c] = "rejected"
    /\ IF Invalidates(c) THEN cached' = None /\ left' = 0 ELSE UNCHANGED cache
    /\ Goto(c, "lookup")
    /\ retried' = [retried EXCEPT ![c] = TRUE]
    /\ UNCHANGED <<vendor, flight, authCtx, direct, token, cancelled, outcome>>

-----------------------------------------------------------------------------
(* The flight: the goroutine singleflight runs the callback in.            *)

\* The callback's second look at the cache.
Served == CacheValid

Recheck ==
    /\ flight.at = "recheck"
    /\ flight' = IF Served
         THEN [flight EXCEPT !.at = "returned", !.tok = cached]
         ELSE [flight EXCEPT !.at = "asking"]
    /\ UNCHANGED <<cache, vendor, authCtx, direct, caller>>

Issue ==
    /\ flight.at = "asking"
    /\ \E a \in Answers : Grant(a, None)
    /\ flight' = [flight EXCEPT !.at = "answered", !.tok = issued + 1]
    /\ UNCHANGED <<cache, authCtx, direct, caller>>

StoreToken ==
    /\ flight.at = "answered"
    /\ Store(flight.tok)
    /\ flight' = [flight EXCEPT !.at = "returned", !.age = 0]
    /\ authCtx' = Background
    /\ UNCHANGED <<vendor, direct, caller>>

\* singleflight forgets the call and hands its token to all who joined.
Deliver ==
    /\ flight.at = "returned"
    /\ flight' = NoFlight
    /\ authCtx' = Background
    /\ pc' = [c \in Callers |-> IF pc[c] = "wait" THEN "call" ELSE pc[c]]
    /\ token' = [c \in Callers |-> IF pc[c] = "wait" THEN flight.tok ELSE token[c]]
    /\ UNCHANGED <<cache, vendor, direct, retried, cancelled, outcome>>

\* Authenticate returns an error: all who joined get it.
Fail(error) ==
    /\ Underway(flight)
    /\ flight' = NoFlight
    /\ authCtx' = Background
    /\ pc' = [c \in Callers |-> IF pc[c] = "wait" THEN "idle" ELSE pc[c]]
    /\ outcome' = [c \in Callers |-> IF pc[c] = "wait" THEN error ELSE outcome[c]]
    /\ token' = [c \in Callers |-> IF pc[c] = "wait" THEN None ELSE token[c]]
    /\ retried' = [c \in Callers |-> retried[c] /\ pc[c] # "wait"]
    /\ cancelled' = [c \in Callers |-> cancelled[c] /\ pc[c] # "wait"]
    /\ UNCHANGED <<cache, vendor, direct>>

\* The vendor refuses, breaks the connection or answers nonsense.
FlightFails == Fail("done")

TimerStops(age) == age >= AuthTimeout

AuthCtxExpires ==
    /\ Underway(flight)
    /\ TimerStops(flight.age)
    /\ authCtx.err = "none"
    /\ authCtx' = [authCtx EXCEPT !.err = "expired"]
    /\ UNCHANGED <<cache, vendor, flight, direct, caller>>

\* Do breaks off once its context has ended; Authenticate returns ctx.Err().
FlightStops ==
    /\ authCtx.err # "none"
    /\ Fail(authCtx.err)

-----------------------------------------------------------------------------
(* Direct calls of Authenticate with the configured credentials.           *)

AuthBegin(d) ==
    /\ direct[d].at = "none"
    /\ direct' = [direct EXCEPT ![d].at = "asking"]
    /\ UNCHANGED <<cache, vendor, flight, authCtx, caller>>

AuthIssue(d) ==
    /\ direct[d].at = "asking"
    /\ \E a \in Answers : Grant(a, d)
    /\ direct' = [direct EXCEPT ![d].at = "answered", ![d].tok = issued + 1]
    /\ UNCHANGED <<cache, flight, authCtx, caller>>

\* It looks neither at what the cache holds by now nor at the flight.
AuthStore(d) ==
    /\ direct[d].at = "answered"
    /\ Store(direct[d].tok)
    /\ direct' = [direct EXCEPT ![d] = NoFlight]
    /\ UNCHANGED <<vendor, flight, authCtx, caller>>

\* The vendor refuses or breaks off, or the caller's context ends.
AuthFails(d) ==
    /\ direct[d].at # "none"
    /\ direct' = [direct EXCEPT ![d] = NoFlight]
    /\ UNCHANGED <<cache, vendor, flight, authCtx, caller>>

\* The timeout of the HTTP client holds whatever the context.
AuthTimesOut(d) == TimerStops(direct[d].age) /\ AuthFails(d)

-----------------------------------------------------------------------------
(* The vendor and time.                                                    *)

Revoke(t) ==
    /\ life[t] > 0
    /\ life' = [life EXCEPT ![t] = Revoked]
    /\ UNCHANGED <<cache, issued, promised, askedBy, flight, authCtx, direct, caller>>

Less(n) == IF n > 0 THEN n - 1 ELSE n

Older(f) == IF Underway(f) THEN [f EXCEPT !.age = @ + 1] ELSE f

Tick ==
    /\ \A f \in {flight} \cup {direct[d] : d \in Directs} :
          Underway(f) => f.age < AuthTimeout
    /\ left' = Less(left)
    /\ life' = [t \in Tokens |-> Less(life[t])]
    /\ flight' = Older(flight)
    /\ direct' = [d \in Directs |-> Older(direct[d])]
    /\ UNCHANGED <<cached, issued, promised, askedBy, authCtx, caller>>

-----------------------------------------------------------------------------
Call(c) ==
    Lookup(c) \/ Join(c) \/ Abandon(c) \/ Answered(c) \/ Unanswered(c) \/ Invalidate(c)

Flight ==
    Recheck \/ Issue \/ StoreToken \/ Deliver \/ FlightFails \/ AuthCtxExpires \/ FlightStops

Auth(d) == AuthBegin(d) \/ AuthIssue(d) \/ AuthStore(d) \/ AuthFails(d) \/ AuthTimesOut(d)

Next ==
    \/ \E c \in Callers : Begin(c) \/ Cancel(c) \/ Call(c)
    \/ Flight
    \/ \E d \in Directs : Auth(d)
    \/ \E t \in Tokens : Revoke(t)
    \/ Tick

Spec == Init /\ [][Next]_vars

\* Goroutines go on when they can, timers run; the vendor owes nothing, and
\* no caller has to cancel or to call.
Fairness ==
    /\ \A c \in Callers : WF_vars(Call(c))
    /\ WF_vars(Recheck \/ StoreToken \/ Deliver)
    /\ WF_vars(AuthCtxExpires)
    /\ WF_vars(FlightStops)
    /\ \A d \in Directs : WF_vars(AuthTimesOut(d))
    /\ WF_vars(Tick)

FairSpec == Spec /\ Fairness

-----------------------------------------------------------------------------
(* Properties.                                                             *)

\* Concurrent callers cause no authentication they do not need: while their
\* flight asks the vendor for a token there is no valid one in the cache,
\* however late a caller that missed the cache starts it, unless a direct
\* call has brought it meanwhile.
StampedeCollapses ==
    Underway(flight) /\ CacheValid => askedBy[cached] # None

\* What the margin is to leave: the smaller of 30 s and half of the lifetime.
Covered(ttl) == LET half == ttl \div 2 IN IF half < FullMargin THEN half ELSE FullMargin

\* The safety margin: an answer may have been under way for the whole timeout
\* when its token's lifetime begins to count, and a direct call may store it
\* over a newer one; still the cache serves no token past the lifetime the
\* vendor gave it by more than the margin leaves uncovered, which is nothing
\* unless half of a short lifetime is less than the timeout.  Only a
\* revocation makes a cached token unusable earlier.
MarginCovers ==
    CacheValid =>
        \/ life[cached] = Revoked
        \/ left <= life[cached] + AuthTimeout - Covered(promised[cached])

Wrote(d) == direct[d].at = "answered" /\ direct'[d].at = "none"

\* A token the vendor still accepts is not thrown away: neither a 401 that a
\* caller got for an older token nor a late answer to an older request of the
\* flight removes it.  Only direct calls, which no flight orders, have their
\* answers replaced or replace those of others.
UsableTokenIsKept ==
    [][CacheValid /\ cached' # cached =>
         \/ life[cached] <= 0
         \/ askedBy[cached] # None
         \/ \E d \in Directs : Wrote(d)]_vars

\* A call ends with the error of a context only if its own has ended, or the
\* flight it shares has had all of its time: the caller that started the
\* flight may be cancelled, before the request is made, while it is, or after
\* others have joined, and neither its error nor the end of its context
\* reaches them.
CancellationIsOwn ==
    [][\A c \in Callers : outcome'[c] # outcome[c] =>
         /\ outcome'[c] = "cancelled" => cancelled[c]
         /\ outcome'[c] = "expired" => Underway(flight) /\ flight.age >= AuthTimeout]_vars

\* A rejected token is gone from the cache before the second attempt looks
\* at it again.
RejectedIsDropped ==
    \A c \in Callers : pc[c] = "lookup" /\ retried[c] => cached # token[c]

\* Every GetIdentity returns, even when the vendor never answers and the
\* caller's context has no deadline.
CallEnds ==
    \A c \in Callers : pc[c] # "idle" ~> pc[c] = "idle"

\* The second attempt is made with another token than the rejected one.
RetryReauthenticates ==
    [][\A c \in Callers :
         pc[c] # "call" /\ pc'[c] = "call" /\ retried[c] => token'[c] # token[c]]_vars
=============================================================================
