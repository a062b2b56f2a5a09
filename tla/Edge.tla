-------------------------------- MODULE Edge --------------------------------
(***************************************************************************)
(* WithRateLimit of internal/api/middleware.go: the rate limiter behind    *)
(* the proxies.  Whichever way a client's requests take, and whatever they *)
(* say of where they come from, they are counted under its own address.    *)
(***************************************************************************)
EXTENDS RateLimiter, ClientAddress

CONSTANTS
    Loopback,  \* addresses of the host itself, container health checks use them
    Presets,   \* X-Forwarded-For as senders set it
    RealIPs,   \* X-Real-IP as senders or proxies set it
    Chains     \* the ways through trusted proxies, <<>>: directly

ASSUME EdgeAssumption ==
    /\ Ips \subseteq Addresses \ Trusted
    /\ Loopback \subseteq Addresses
    /\ Presets \subseteq Headers
    /\ Chains \subseteq Seq(Trusted)

VARIABLE asker   \* who sent the last request that was limited

edgeVars == <<vars, asker>>

Paths == {"/api/v1/health", "/api/v1/ready", "elsewhere"}

EdgeInit == Init /\ asker = None

-----------------------------------------------------------------------------
\* The probes that are never throttled.
Exempt(path, ip) ==
    \/ path = "/api/v1/health"
    \/ path = "/api/v1/ready" /\ ip \in Loopback

\* The addresses clientIP may find for a client's requests.
Seen(sender) ==
    {ClientIP(Arrival(sender, preset, realIP, chain)) :
        preset \in Presets, realIP \in RealIPs, chain \in Chains}

Serve(sender, path, ip) ==
    IF Exempt(path, ip) THEN UNCHANGED edgeVars ELSE Allow(ip) /\ asker' = sender

FromClient ==
    \E sender \in Ips, path \in Paths : \E ip \in Seen(sender) : Serve(sender, path, ip)

\* The container's own probe.
LocalProbe ==
    \E local \in Loopback, path \in Paths \ {"elsewhere"} :
        Serve(local, path, ClientIP(Arrival(local, <<>>, Junk, <<>>)))

EdgeTick == Tick /\ UNCHANGED asker

EdgeNext == EdgeTick \/ FromClient \/ LocalProbe

EdgeSpec == EdgeInit /\ [][EdgeNext]_edgeVars

-----------------------------------------------------------------------------
(* Properties.                                                             *)

\* Every client is charged for its own requests only, and gets its own answer:
\* together with ImplementsBuckets, each client behind the proxies has one
\* bucket, and no header it sends gives it another or somebody else's.
AskerIsCharged == answer.ip = asker
=============================================================================
