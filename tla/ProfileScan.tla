---------------------------- MODULE ProfileScan -----------------------------
(***************************************************************************)
(* The directory search of handleSearchProfiles and SearchProfiles while   *)
(* users register and the tables are rolled back: an administrator reads   *)
(* all profiles page by page, each page a query of its own.  What a filter *)
(* of such a query finds is in LikePattern.                                *)
(***************************************************************************)
EXTENDS UserStore, LikePattern

CONSTANTS
    Asked,      \* limits the administrator may ask for
    MaxLimit,   \* 100
    DefaultLimit, \* 20, what SearchProfiles makes of a limit of 0 or below
    MaxOffset,  \* 10000
    CreatedAt,  \* CreatedAt[r]: when r's CreateUser began, by its server's clock
    IdRank      \* IdRank[r]: the place of r's uuid among all

ASSUME ProfileScanAssumption ==
    /\ IsFiniteSet(Requests)
    /\ Asked \subseteq Int
    /\ {MaxLimit, MaxOffset} \subseteq Nat \ {0}
    /\ DefaultLimit \in 1..MaxLimit
    /\ CreatedAt \in [Requests -> Nat]
    /\ IdRank \in [Requests -> Nat]
    /\ \A r, q \in Requests : IdRank[r] = IdRank[q] => r = q

VARIABLES
    scan,   \* how far the scan is, and the limit of its pages
    owed    \* profiles that were there when it began and it has not shown

scanVars == <<vars, scan, owed>>

Off == [at |-> "off", offset |-> 0, limit |-> 1]

ScanTypeOK ==
    /\ scan \in [at : {"off", "on", "done"}, offset : 0..MaxOffset, limit : 1..MaxLimit]
    /\ owed \subseteq profiles

ScanInit ==
    /\ Init
    /\ scan = Off
    /\ owed = {}

-----------------------------------------------------------------------------
(* Seeded faults: each replaces the definition it is named after, to see a *)
(* property fail.  None is part of the specification.                      *)

BeforeByTime(p, q)      == CreatedAt[p] > CreatedAt[q]   \* no id DESC
ClampedLimitNot(ask)     == ask                          \* neither here nor there

-----------------------------------------------------------------------------
\* The handler clamps what it is asked for ...
AskedLimit(ask) == IF ask < 1 THEN 1 ELSE IF ask > MaxLimit THEN MaxLimit ELSE ask

\* ... and SearchProfiles what the handler gives it, in another way.
QueryLimit(limit) ==
    IF limit <= 0 THEN DefaultLimit ELSE IF limit > MaxLimit THEN MaxLimit ELSE limit

ClampedLimit(ask) == QueryLimit(AskedLimit(ask))

\* For the offset both do the same.
ClampedOffset(ask) == IF ask < 0 THEN 0 ELSE IF ask > MaxOffset THEN MaxOffset ELSE ask

\* ORDER BY created_at DESC, id DESC.
Before(p, q) ==
    \/ CreatedAt[p] > CreatedAt[q]
    \/ CreatedAt[p] = CreatedAt[q] /\ IdRank[p] > IdRank[q]

\* The rows in an order the database may give them.
Orders(rs) ==
    {s \in [1..Cardinality(rs) -> rs] :
        \A i, j \in 1..Cardinality(rs) : i < j => s[i] # s[j] /\ ~Before(s[j], s[i])}

\* LIMIT and OFFSET.
Page(s, limit, offset) ==
    {s[i] : i \in {k \in DOMAIN s : k > offset /\ k <= offset + limit}}

BeginScan ==
    /\ scan.at # "on"
    /\ \E ask \in Asked : scan' = [at |-> "on", offset |-> 0, limit |-> ClampedLimit(ask)]
    /\ owed' = profiles
    /\ UNCHANGED vars

\* One request: the scan goes on behind a full page and ends with any other.
SearchProfiles ==
    /\ scan.at = "on"
    /\ HasConn
    /\ dropping # "profile"
    /\ schema
    /\ \E s \in Orders(profiles) :
          LET page == Page(s, scan.limit, ClampedOffset(scan.offset))
          IN  /\ owed' = owed \ page
              /\ scan' = IF Cardinality(page) < scan.limit
                         THEN [scan EXCEPT !.at = "done", !.offset = 0]
                         ELSE [scan EXCEPT !.offset = ClampedOffset(@ + Cardinality(page))]
    /\ UNCHANGED vars

\* The query fails, or its page is not delivered: the scan is given up.
SearchFails ==
    /\ scan.at = "on"
    /\ scan' = Off
    /\ owed' = {}
    /\ UNCHANGED vars

\* Whatever else happens; a profile that is no more is not owed.
Meanwhile ==
    /\ Next
    /\ owed' = owed \cap profiles'
    /\ UNCHANGED scan

ScanNext == Meanwhile \/ BeginScan \/ SearchProfiles \/ SearchFails

ScanSpec == ScanInit /\ [][ScanNext]_scanVars

-----------------------------------------------------------------------------
(* Properties.                                                             *)

\* A scan that has come to its end has shown every profile that was there
\* when it began, though others are registered between its pages, with equal
\* or even earlier created_at, and push rows from one page to the next.
\* (Where more than MaxOffset users fill the pages a scan gets the last one
\* again and again, and has no end.)
ScanMissesNobody == scan.at = "done" => owed = {}

\* A search finds the texts that contain its term as it was typed: see
\* LikeIsSubstring, which is about no state and so is looked at in the first.
SearchIsSubstring == ScanInit => LikeIsSubstring
=============================================================================
