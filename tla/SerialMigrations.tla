-------------------------- MODULE SerialMigrations --------------------------
(***************************************************************************)
(* What the migrator promises its callers: at any time at most one run is  *)
(* migrating, and while it does the versions in the database go up or down *)
(* one at a time.  How a run comes to be the only one is not said here.    *)
(***************************************************************************)
EXTENDS Integers

CONSTANTS Runs, None, TopVersion

VARIABLES
    holder,   \* the run that is migrating, or None
    applied   \* the versions in effect

Init ==
    /\ holder = None
    /\ \E k \in 0..TopVersion : applied = 1..k

Enter(r) ==
    /\ holder = None
    /\ holder' = r
    /\ UNCHANGED applied

\* The holder applies the next version or rolls back the last one; this may
\* be the last thing it does.
Move(r) ==
    /\ holder = r
    /\ \E k, j \in 0..TopVersion :
         /\ applied = 1..k
         /\ j \in {k - 1, k + 1}
         /\ applied' = 1..j
    /\ holder' \in {r, None}

Leave ==
    /\ holder # None
    /\ holder' = None
    /\ UNCHANGED applied

Next == Leave \/ \E r \in Runs : Enter(r) \/ Move(r)

Spec == Init /\ [][Next]_<<holder, applied>>
=============================================================================
