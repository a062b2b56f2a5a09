------------------------------- MODULE MCEdge -------------------------------
(***************************************************************************)
(* The rate limiter behind proxies for TLC: four clients, room for three.  *)
(***************************************************************************)
EXTENDS Edge, TLC

CONSTANTS p1, p2, local, stranger

MCAddresses == Ips \cup {p1, p2, local, stranger}

\* Directly, through one proxy or through two; with nothing, a foreign address
\* or junk and a proxy's address in the header already.
MCChains  == {<<>>, <<p1>>, <<p2, p1>>}
MCPresets == {<<>>, <<stranger>>, <<Junk, p1>>}

Symmetry == Permutations(Ips)
=============================================================================
