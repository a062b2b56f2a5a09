---------------------------- MODULE RateLimiter -----------------------------
(***************************************************************************)
(* The per-client rate limiter of internal/api/middleware.go.  Its mutex   *)
(* makes AllowWithRetryAfter one step; the linked list that keeps the      *)
(* clients in the order of their last activity is modelled link by link.   *)
(*                                                                         *)
(* Tokens are counted in fractions of 1/Unit, time in seconds.  Times are  *)
(* kept as ages, which saturate at AgeCap.                                 *)
(***************************************************************************)
EXTENDS Integers, FiniteSetsExt

CONSTANTS
    Ips,               \* the clients that send requests
    None,              \* the nil pointer
    Unit,              \* fractions that make a token
    Rate,              \* rl.rate: fractions per second
    Burst,             \* rl.burst: fractions, at least one token
    MaxClients,        \* maxClients
    IdleTimeout,       \* 5 minutes
    CleanupInterval,   \* 1 minute
    AgeCap             \* bound: ages beyond it are not told apart

ASSUME RateLimiterAssumption ==
    /\ None \notin Ips
    /\ {Unit, Burst, MaxClients} \subseteq Nat \ {0}
    /\ {Rate, IdleTimeout, CleanupInterval, AgeCap} \subseteq Nat
    /\ Burst >= Unit
    /\ AgeCap > IdleTimeout
    /\ Rate > 0 => Rate * AgeCap >= Burst

VARIABLES
    clients,   \* the keys of rl.clients
    tokens,    \* limiter.tokens
    age,       \* time since limiter.lastUpdate
    list,      \* the nodes' links: head, tail, prev, next
    swept,     \* time since rl.lastCleanup
    answer     \* the last call: ip, allowed, retryAfter

vars == <<clients, tokens, age, list, swept, answer>>

NoAnswer == [ip |-> None, allowed |-> TRUE, retry |-> 0]

TypeOK ==
    /\ clients \subseteq Ips
    /\ tokens \in [Ips -> 0..Burst]
    /\ age \in [Ips -> 0..AgeCap]
    /\ list \in [head : Ips \cup {None}, tail : Ips \cup {None},
                 prev : [Ips -> Ips \cup {None}], next : [Ips -> Ips \cup {None}]]
    /\ swept \in 0..(CleanupInterval + 1)
    /\ answer \in [ip : Ips \cup {None}, allowed : BOOLEAN, retry : Nat]

Init ==
    /\ clients = {}
    /\ tokens = [ip \in Ips |-> 0]
    /\ age = [ip \in Ips |-> 0]
    /\ list = [head |-> None, tail |-> None,
               prev |-> [ip \in Ips |-> None], next |-> [ip \in Ips |-> None]]
    /\ swept = 0
    /\ answer = NoAnswer

-----------------------------------------------------------------------------
(* Seeded faults: each replaces the definition it is named after, to see a *)
(* property fail.  None is part of the specification.                      *)

\* removeNode does not move rl.tail back.
RemoveNodeKeepsTail(l, n) ==
    LET p == l.prev[n]
        s == l.next[n]
    IN  [head |-> IF p = None /\ l.head = n THEN s ELSE l.head,
         tail |-> l.tail,
         prev |-> [x \in Ips |-> IF x = n THEN None ELSE IF x = s THEN p ELSE l.prev[x]],
         next |-> [x \in Ips |-> IF x = n THEN None ELSE IF x = p THEN s ELSE l.next[x]]]
MoveToFrontNot(l, n)  == l
RefilledUncapped(ip)  == tokens[ip] + age[ip] * Rate
RetryAfterFloor(have) == IF Rate > 0 /\ (Unit - have) \div Rate > 1
                           THEN (Unit - have) \div Rate ELSE 1
EvictsBeyond(known)   == Cardinality(known) > MaxClients

-----------------------------------------------------------------------------
(* The linked list.                                                        *)

\* node.prev.next = node.next, node.next.prev = node.prev, or the ends.
RemoveNode(l, n) ==
    LET p == l.prev[n]
        s == l.next[n]
    IN  [head |-> IF p = None /\ l.head = n THEN s ELSE l.head,
         tail |-> IF s = None /\ l.tail = n THEN p ELSE l.tail,
         prev |-> [x \in Ips |-> IF x = n THEN None ELSE IF x = s THEN p ELSE l.prev[x]],
         next |-> [x \in Ips |-> IF x = n THEN None ELSE IF x = p THEN s ELSE l.next[x]]]

PushFront(l, n) ==
    [head |-> n,
     tail |-> IF l.tail = None THEN n ELSE l.tail,
     prev |-> [x \in Ips |-> IF x = n THEN None ELSE IF x = l.head THEN n ELSE l.prev[x]],
     next |-> [x \in Ips |-> IF x = n THEN l.head ELSE l.next[x]]]

MoveToFront(l, n) == IF l.head = n THEN l ELSE PushFront(RemoveNode(l, n), n)

-----------------------------------------------------------------------------
(* AllowWithRetryAfter.                                                    *)

\* The sweep over rl.clients, in whatever order the map yields them.
Sweeps == swept > CleanupInterval
Idle   == IF Sweeps THEN {ip \in clients : age[ip] > IdleTimeout} ELSE {}
SweptList == FoldSet(LAMBDA ip, l : RemoveNode(l, ip), list, Idle)

\* Is there no room for one more client?
Evicts(known) == Cardinality(known) >= MaxClients

\* The bucket after the time since its last update.
Refilled(ip) ==
    LET more == tokens[ip] + age[ip] * Rate IN IF more > Burst THEN Burst ELSE more

Ceil(n, d) == (n + d - 1) \div d

\* Seconds until a bucket that holds less than a token holds one.
RetryAfter(have) ==
    IF Rate > 0 /\ Ceil(Unit - have, Rate) > 1 THEN Ceil(Unit - have, Rate) ELSE 1

\* A client not in the map gets a bucket with one token taken, at the cost
\* of the least recently active one when there is no room.
AllowNew(ip, known, l) ==
    LET victims == IF Evicts(known) THEN {l.tail} \ {None} ELSE {}
        room    == IF victims = {} THEN l ELSE RemoveNode(l, l.tail)
    IN  /\ clients' = (known \ victims) \cup {ip}
        /\ list' = PushFront(room, ip)
        /\ tokens' = [x \in Ips |-> IF x = ip THEN Burst - Unit
                                    ELSE IF x \in clients' THEN tokens[x] ELSE 0]
        /\ age' = [x \in Ips |-> IF x # ip /\ x \in clients' THEN age[x] ELSE 0]
        /\ answer' = [ip |-> ip, allowed |-> TRUE, retry |-> 0]

AllowKnown(ip, known, l) ==
    LET have    == Refilled(ip)
        allowed == have >= Unit
    IN  /\ clients' = known
        /\ list' = MoveToFront(l, ip)
        /\ tokens' = [x \in Ips |->
             IF x = ip THEN (IF allowed THEN have - Unit ELSE have)
             ELSE IF x \in known THEN tokens[x] ELSE 0]
        /\ age' = [x \in Ips |-> IF x # ip /\ x \in known THEN age[x] ELSE 0]
        /\ answer' = [ip |-> ip, allowed |-> allowed,
                      retry |-> IF allowed THEN 0 ELSE RetryAfter(have)]

Allow(ip) ==
    LET known == clients \ Idle
    IN  /\ swept' = IF Sweeps THEN 0 ELSE swept
        /\ IF ip \in known THEN AllowKnown(ip, known, SweptList)
                           ELSE AllowNew(ip, known, SweptList)

Older(n, cap) == IF n < cap THEN n + 1 ELSE n

Tick ==
    /\ age' = [ip \in Ips |-> IF ip \in clients THEN Older(age[ip], AgeCap) ELSE age[ip]]
    /\ swept' = Older(swept, CleanupInterval + 1)
    /\ UNCHANGED <<clients, tokens, list, answer>>

Next == Tick \/ \E ip \in Ips : Allow(ip)

Spec == Init /\ [][Next]_vars

-----------------------------------------------------------------------------
(* Properties.                                                             *)

\* Does the pointer x name the client at a place, nil where there is none?
Stands(x, known, place, p) ==
    IF x = None THEN p \notin 1..Cardinality(known) ELSE x \in known /\ place[x] = p

\* The links of l are a list of the clients in known, who have their places
\* in it, counted from the tail.
Linked(l, known, place) ==
    /\ place \in [known -> 1..Cardinality(known)]
    /\ \A x, y \in known : place[x] = place[y] => x = y
    /\ Stands(l.head, known, place, Cardinality(known))
    /\ Stands(l.tail, known, place, 1)
    /\ \A x \in known : /\ Stands(l.next[x], known, place, place[x] - 1)
                        /\ Stands(l.prev[x], known, place, place[x] + 1)

Places == [clients -> 1..Cardinality(clients)]

\* The links are a list of exactly the map's clients, the same read from
\* either end: no client is lost from the list (and so never evicted), none
\* is in it twice, and tail is never nil while the map is full.
ListMatchesMap == \E place \in Places : Linked(list, clients, place)

\* The map never outgrows maxClients.
CapacityHolds == Cardinality(clients) <= MaxClients

\* A rejected client that waits as long as Retry-After says is let in, and it
\* would not have been a second earlier.
RetryAfterIsExact ==
    LET ip == answer.ip IN
    ip \in clients /\ ~answer.allowed /\ Rate > 0 =>
        /\ tokens[ip] + answer.retry * Rate >= Unit
        /\ answer.retry > 1 => tokens[ip] + (answer.retry - 1) * Rate < Unit

\* The limiter implements TokenBuckets: lazy refills, sweeps of idle clients
\* and list surgery amount to buckets that refill steadily, of which only
\* the least recently active is ever forgotten for want of room.  It does so
\* where a bucket is full again before its client counts as idle (Rate *
\* IdleTimeout >= Burst: the defaults refill 100 tokens in 2 s of 5 minutes);
\* with a slower rate the sweep hands out a full bucket early.
Level == [ip \in Ips |-> IF ip \in clients THEN Refilled(ip) ELSE Burst]
LastAnswer == IF answer.ip = None THEN <<>> ELSE <<answer.ip, answer.allowed>>

\* Who is nearer to the head.
NewerBy(known, place) == {p \in known \X known : place[p[1]] > place[p[2]]}
Newer == LET place == CHOOSE place \in Places : Linked(list, clients, place)
         IN  NewerBy(clients, place)

Buckets == INSTANCE TokenBuckets
             WITH level <- Level, known <- clients, newer <- Newer, answer <- LastAnswer

ImplementsBuckets == Buckets!Spec
=============================================================================
