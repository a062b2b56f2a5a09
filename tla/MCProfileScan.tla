--------------------------- MODULE MCProfileScan ----------------------------
(***************************************************************************)
(* The user store, the directory search and its filters for TLC.           *)
(***************************************************************************)
EXTENDS MCUserStore, ProfileScan

\* ann and eve registered at the same time, bob's clock is behind.
MCCreatedAt == [r \in Requests |-> IF r = bob THEN 1 ELSE 2]
MCIdRank    == [r \in Requests |-> IF r = ann THEN 1 ELSE IF r = bob THEN 2 ELSE 3]
=============================================================================
