---------------------------- MODULE TokenBuckets ----------------------------
(***************************************************************************)
(* What the rate limiter promises: every client has a bucket that refills  *)
(* at a steady rate, a request costs one token, and only the MaxClients    *)
(* most recently active clients are told from a client never seen.         *)
(***************************************************************************)
EXTENDS Integers, FiniteSets

CONSTANTS
    Ips, Unit, Rate, Burst, MaxClients

VARIABLES
    level,    \* what each client's bucket holds now
    known,    \* the clients remembered
    newer,    \* <<x, y>>: of these, x was active more recently than y
    answer    \* the last answer: whom, and whether it was allowed

Init ==
    /\ level = [ip \in Ips |-> Burst]
    /\ known = {}
    /\ newer = {}
    /\ answer = <<>>

\* The least recently active of some clients.
Oldest(some) == {x \in some : \A y \in some : <<x, y>> \notin newer}

\* Clients whose buckets are full may be forgotten at any time: nobody can
\* tell.  The least recently active one is forgotten to make room.
Request(ip) ==
    \E full \in SUBSET {x \in known : level[x] = Burst} :
        LET others == known \ (full \cup {ip})
            oldest == IF Cardinality(others) < MaxClients THEN {} ELSE Oldest(others)
            stay   == others \ oldest
        IN  /\ known' = stay \cup {ip}
            /\ newer' = (newer \cap (stay \X stay)) \cup ({ip} \X stay)
            /\ level' = [x \in Ips |->
                 IF x \in oldest THEN Burst
                 ELSE IF x = ip /\ level[ip] >= Unit THEN level[ip] - Unit
                 ELSE level[x]]
            /\ answer' = <<ip, level[ip] >= Unit>>

Refill ==
    /\ level' = [ip \in Ips |->
         IF level[ip] + Rate < Burst THEN level[ip] + Rate ELSE Burst]
    /\ UNCHANGED <<known, newer, answer>>

Next == Refill \/ \E ip \in Ips : Request(ip)

Spec == Init /\ [][Next]_<<level, known, newer, answer>>
=============================================================================
