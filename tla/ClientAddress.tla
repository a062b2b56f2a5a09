--------------------------- MODULE ClientAddress ----------------------------
(***************************************************************************)
(* clientIP of internal/api/middleware.go: the address a request is        *)
(* counted under, found in what the proxies before the server add to it.   *)
(* Addresses are compared as parsed; what does not parse is Junk.          *)
(***************************************************************************)
EXTENDS Integers, Sequences

CONSTANTS
    Addresses,  \* IP addresses
    Trusted,    \* those in the networks of TRUSTED_PROXIES
    Junk        \* a part of a header that is no address

ASSUME ClientAddressAssumption == Trusted \subseteq Addresses /\ Junk \notin Addresses

Headers == Seq(Addresses \cup {Junk})

-----------------------------------------------------------------------------
(* Seeded faults: each replaces the definition it is named after, to see a *)
(* property fail.  None is part of the specification.                      *)

FirstAmong(S) == CHOOSE i \in S : \A j \in S : i <= j

-----------------------------------------------------------------------------
\* The parts of X-Forwarded-For that are addresses, and of no trusted proxy.
Foreign(list) == {i \in DOMAIN list : list[i] \in Addresses /\ list[i] \notin Trusted}

\* The loop runs from the right.
LastAmong(S) == CHOOSE i \in S : \A j \in S : j <= i

\* Only a trusted proxy is believed: X-Forwarded-For, then X-Real-IP.
ClientIP(req) ==
    IF req.peer \notin Trusted THEN req.peer
    ELSE IF Foreign(req.forwarded) # {} THEN req.forwarded[LastAmong(Foreign(req.forwarded))]
    ELSE IF req.realIP \in Addresses THEN req.realIP
    ELSE req.peer

-----------------------------------------------------------------------------
\* A request as it arrives: its sender put some headers into it; each proxy of
\* the chain adds to the one line of X-Forwarded-For whom it has it from, and
\* the server sees the last of them.
Arrival(sender, preset, realIP, chain) ==
    LET hops == <<sender>> \o chain
    IN  [peer |-> hops[Len(hops)],
         forwarded |-> preset \o SubSeq(hops, 1, Len(hops) - 1),
         realIP |-> realIP]
=============================================================================
