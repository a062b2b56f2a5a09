----------------------------- MODULE EdgeProofs -----------------------------
(***************************************************************************)
(* Proofs about clientIP and the rate limiter behind it, for any header,   *)
(* any number of trusted proxies and any limiter; and that the limiter     *)
(* does behind the proxies what RateLimiterProofs shows of it alone.       *)
(***************************************************************************)
EXTENDS Edge, RateLimiterProofs, SequenceTheorems

\* What the server finds in a request that came through at least one proxy.
LEMMA ThroughProxies ==
    ASSUME NEW sender \in Addresses, NEW preset \in Headers, NEW realIP,
           NEW chain \in Seq(Trusted), chain # <<>>
    PROVE  LET req == Arrival(sender, preset, realIP, chain)
               n   == Len(preset)
           IN  /\ req.peer \in Trusted
               /\ req.forwarded \in Headers
               /\ Len(req.forwarded) = n + Len(chain)
               /\ req.forwarded[n + 1] = sender
               /\ \A i \in (n + 2)..(n + Len(chain)) : req.forwarded[i] \in Trusted
<1> DEFINE hops == <<sender>> \o chain
           tail == SubSeq(hops, 1, Len(hops) - 1)
           n    == Len(preset)
<1>1. /\ chain \in Seq(Addresses) /\ Len(chain) \in Nat /\ Len(chain) > 0
      /\ n \in Nat
  BY ClientAddressAssumption DEF Headers
<1>2. /\ hops \in Seq(Addresses) /\ Len(hops) = Len(chain) + 1
      /\ hops[1] = sender
      /\ \A i \in 2..Len(hops) : hops[i] = chain[i - 1]
  BY <1>1
<1>3. \A i \in 2..Len(hops) : hops[i] \in Trusted
  <2>1. SUFFICES ASSUME NEW i \in 2..Len(hops) PROVE hops[i] \in Trusted
    OBVIOUS
  <2>2. i - 1 \in 1..Len(chain)
    BY <1>1, <1>2
  <2>3. QED
    BY <1>2, <2>2
<1>4. /\ tail \in Seq(Addresses) /\ Len(tail) = Len(chain)
      /\ \A i \in 1..Len(chain) : tail[i] = hops[i]
  BY <1>1, <1>2
<1> HIDE DEF hops, tail
<1>5. tail \in Headers
  BY <1>4 DEF Headers
<1>6. /\ preset \o tail \in Headers
      /\ Len(preset \o tail) = n + Len(chain)
      /\ \A i \in (n + 1)..(n + Len(chain)) : (preset \o tail)[i] = tail[i - n]
  <2>1. preset \in Seq(Addresses \cup {Junk}) /\ tail \in Seq(Addresses \cup {Junk})
    BY <1>5 DEF Headers
  <2>2. preset \o tail \in Headers /\ Len(preset \o tail) = n + Len(chain)
    <3>1. /\ preset \o tail \in Seq(Addresses \cup {Junk})
          /\ Len(preset \o tail) = Len(preset) + Len(tail)
      BY <2>1, ConcatProperties
    <3>2. QED
      BY <1>4, <3>1 DEF Headers
  <2>3. ASSUME NEW i \in (n + 1)..(n + Len(chain)) PROVE (preset \o tail)[i] = tail[i - n]
    <3>1. i \in Int /\ i > n /\ i <= n + Len(tail)
      BY <1>1, <1>4
    <3>2. QED
      BY <1>1, <2>1, <3>1, ConcatProperties
  <2>4. QED
    BY <2>2, <2>3
<1>7. (preset \o tail)[n + 1] = sender
  BY <1>1, <1>2, <1>4, <1>6
<1>8. ASSUME NEW i \in (n + 2)..(n + Len(chain)) PROVE (preset \o tail)[i] \in Trusted
  <2>1. i - n \in 2..Len(hops) /\ i - n \in 1..Len(chain) /\ i \in (n + 1)..(n + Len(chain))
    BY <1>1, <1>2
  <2>2. QED
    BY <1>3, <1>4, <1>6, <2>1
<1>9. hops[Len(hops)] \in Trusted
  BY <1>1, <1>2, <1>3
<1>10. QED
  BY <1>6, <1>7, <1>8, <1>9 DEF Arrival, hops, tail

\* clientIP finds the address the first proxy saw, whatever the client has put
\* into the headers and however many trusted proxies follow (middleware.go,
\* "the first validated untrusted IP").
THEOREM SenderIsFound ==
    ASSUME NEW sender \in Addresses \ Trusted, NEW preset \in Headers, NEW realIP,
           NEW chain \in Seq(Trusted)
    PROVE  ClientIP(Arrival(sender, preset, realIP, chain)) = sender
<1> DEFINE req  == Arrival(sender, preset, realIP, chain)
           line == req.forwarded
           n    == Len(preset)
<1>1. CASE chain = <<>>
  <2>1. req.peer = sender
    BY <1>1 DEF Arrival
  <2>2. QED
    BY <2>1 DEF ClientIP
<1>2. CASE chain # <<>>
  <2>1. /\ req.peer \in Trusted /\ line \in Headers
        /\ Len(line) = n + Len(chain)
        /\ line[n + 1] = sender
        /\ \A i \in (n + 2)..(n + Len(chain)) : line[i] \in Trusted
    BY <1>2, ThroughProxies
  <2> HIDE DEF req
  <2>2. n \in Nat /\ Len(chain) \in Nat /\ Len(chain) > 0 /\ DOMAIN line = 1..(n + Len(chain))
    BY <1>2, <2>1 DEF Headers
  <2>3. n + 1 \in Foreign(line)
    BY <2>1, <2>2 DEF Foreign
  <2>4. ASSUME NEW j \in Foreign(line) PROVE j <= n + 1
    <3>1. j \in 1..(n + Len(chain)) /\ line[j] \notin Trusted
      BY <2>2 DEF Foreign
    <3>2. QED
      BY <2>1, <2>2, <3>1
  <2>5. Foreign(line) \subseteq Int
    BY <2>2 DEF Foreign
  <2>6. LastAmong(Foreign(line)) = n + 1
    <3>1. \A i \in Foreign(line) : (\A j \in Foreign(line) : j <= i) => i = n + 1
      BY <2>2, <2>3, <2>4, <2>5
    <3>2. \A j \in Foreign(line) : j <= n + 1
      BY <2>4
    <3>3. QED
      BY <2>3, <3>1, <3>2 DEF LastAmong
  <2>7. ClientIP(req) = line[LastAmong(Foreign(line))]
    BY <2>1, <2>3 DEF ClientIP
  <2>8. QED
    BY <2>1, <2>6, <2>7 DEF req
<1>3. QED
  BY <1>1, <1>2

-----------------------------------------------------------------------------
LEMMA OnlyItselfIsSeen ==
    ASSUME NEW sender \in Ips, NEW ip \in Seen(sender)
    PROVE  ip = sender
  BY SenderIsFound, EdgeAssumption DEF Seen

LEMMA AllowAnswers ==
    ASSUME NEW ip, Allow(ip)
    PROVE  answer'.ip = ip
  BY DEF Allow, AllowKnown, AllowNew

\* The container's own probe is never throttled.
LEMMA ProbeIsFree ==
    ASSUME LocalProbe
    PROVE  UNCHANGED edgeVars
<1>1. PICK local \in Loopback, path \in Paths \ {"elsewhere"} :
         Serve(local, path, ClientIP(Arrival(local, <<>>, Junk, <<>>)))
    BY DEF LocalProbe
<1>2. ClientIP(Arrival(local, <<>>, Junk, <<>>)) = local
  <2> DEFINE req == Arrival(local, <<>>, Junk, <<>>)
  <2>1. req.peer = local /\ req.forwarded = <<>> /\ req.realIP = Junk
    BY DEF Arrival
  <2>2. Foreign(req.forwarded) = {}
    BY <2>1 DEF Foreign
  <2> QED
    BY <2>1, <2>2, ClientAddressAssumption DEF ClientIP
<1>3. Exempt(path, local)
    BY DEF Exempt, Paths
<1> QED
    BY <1>1, <1>2, <1>3 DEF Serve

\* A client's request is free or a request of its own address.
LEMMA ClientsStep ==
    ASSUME FromClient
    PROVE  \/ UNCHANGED edgeVars
           \/ \E sender \in Ips : Allow(sender) /\ asker' = sender
<1>1. PICK sender \in Ips, path \in Paths : \E ip \in Seen(sender) : Serve(sender, path, ip)
    BY DEF FromClient
<1>2. PICK ip \in Seen(sender) : Serve(sender, path, ip)
    BY <1>1
<1>3. ip = sender
    BY OnlyItselfIsSeen
<1> QED
    BY <1>2, <1>3 DEF Serve

\* A client's requests are counted under its own address and nobody else's
\* are, for any clients, headers, proxies and limits.
THEOREM ClientsPayThemselves == EdgeSpec => []AskerIsCharged
<1>1. EdgeInit => AskerIsCharged
    BY DEF EdgeInit, Init, NoAnswer, AskerIsCharged
<1>2. AskerIsCharged /\ [EdgeNext]_edgeVars => AskerIsCharged'
  <2> SUFFICES ASSUME AskerIsCharged, [EdgeNext]_edgeVars PROVE AskerIsCharged'
    OBVIOUS
  <2>1. CASE EdgeTick
    BY <2>1 DEF EdgeTick, Tick, AskerIsCharged
  <2>2. ASSUME NEW sender \in Ips, Allow(sender), asker' = sender PROVE AskerIsCharged'
    BY <2>2, AllowAnswers DEF AskerIsCharged
  <2>3. CASE UNCHANGED edgeVars
    BY <2>3 DEF edgeVars, vars, AskerIsCharged
  <2> QED
    BY <2>1, <2>2, <2>3, ClientsStep, ProbeIsFree DEF EdgeNext
<1> QED
    BY <1>1, <1>2, PTL DEF EdgeSpec

\* Behind the proxies the limiter takes the steps of the limiter alone and no
\* other: what RateLimiterProofs shows of Spec holds of EdgeSpec, the
\* specification the run checks.
THEOREM EdgeIsLimiter == EdgeSpec => Spec
<1>1. EdgeInit => Init
    BY DEF EdgeInit
<1>2. [EdgeNext]_edgeVars => [Next]_vars
  <2> SUFFICES ASSUME [EdgeNext]_edgeVars PROVE [Next]_vars
    OBVIOUS
  <2>1. CASE EdgeTick
    BY <2>1 DEF EdgeTick, Next
  <2>2. ASSUME NEW sender \in Ips, Allow(sender) PROVE Next
    BY <2>2 DEF Next
  <2>3. CASE UNCHANGED edgeVars
    BY <2>3 DEF edgeVars
  <2> QED
    BY <2>1, <2>2, <2>3, ClientsStep, ProbeIsFree DEF EdgeNext
<1> QED
    BY <1>1, <1>2, PTL DEF EdgeSpec, Spec

\* Whatever proxies and headers its requests come through, a client behind
\* them has the one bucket TokenBuckets gives it.
THEOREM EdgeImplementsBuckets ==
    ASSUME Rate * IdleTimeout >= Burst
    PROVE  EdgeSpec => ImplementsBuckets
  BY EdgeIsLimiter, LimiterImplementsBuckets, PTL
=============================================================================
