-------------------------- MODULE UserStoreProofs ---------------------------
(***************************************************************************)
(* The user store's properties for every number of registrations and       *)
(* logins: proofs checked by TLAPS.                                        *)
(***************************************************************************)
EXTENDS UserStore, TLAPS

\* A username's row names a user who asked for that name.
NamesMatch ==
    \A n \in Names : credentials[n] # None => NameOf[credentials[n]] = n

\* A name that is claimed by a transaction is free, and claimed once.
ClaimsAreSound ==
    \A r \in Requests : pc[r] \in NameClaimed =>
        /\ credentials[NameOf[r]] = None
        /\ \A q \in Requests \ {r} : NameOf[q] = NameOf[r] => pc[q] \notin NameClaimed

\* The table locks of registrations and of the rollback exclude each other.
LocksExclude ==
    \A r \in Requests :
        /\ pc[r] \in NameClaimed => dropping = "none"
        /\ pc[r] \in ProfileInserted => dropping # "profile"

\* A registration under way has no row yet, and a call no answer.
UnderWay ==
    /\ \A r \in Requests : pc[r] # "done" => r \notin profiles
    /\ \A c \in Calls : pc[c] \notin {"done", "doubt"} => answer[c] = "none"
    /\ \A l \in Logins : pc[l] = "check" => found[l] = CredsOf[l]

Inv ==
    /\ TypeOK
    /\ UsersAreWhole
    /\ NamesMatch
    /\ ClaimsAreSound
    /\ LocksExclude
    /\ UnderWay

\* What the response of a call leaves behind is well-typed.
LEMMA AnswerTypeOK ==
    ASSUME TypeOK, NEW c \in Calls,
           NEW what \in {"created", "taken", "error", "granted", "denied"}, Answer(c, what)
    PROVE  /\ pc' \in [Calls -> {"idle", "begin", "backoff", "read", "check", "done", "doubt"} \cup TxOpen]
           /\ attempt' \in [Requests -> 0..(MaxTxRetries - 1)]
           /\ found' \in [Logins -> Requests \cup {None}]
           /\ answer' \in [Calls -> {"none", "created", "taken", "error", "granted", "denied"}]
<1>1. pc' \in [Calls -> {"idle", "begin", "backoff", "read", "check", "done", "doubt"} \cup TxOpen]
    BY DEF TypeOK, Answer, Goto
<1>2. attempt' \in [Requests -> 0..(MaxTxRetries - 1)]
    BY UserStoreAssumption DEF TypeOK, Answer
<1>3. found' \in [Logins -> Requests \cup {None}]
    BY DEF TypeOK, Answer
<1>4. answer' \in [Calls -> {"none", "created", "taken", "error", "granted", "denied"}]
    BY DEF TypeOK, Answer
<1> QED
    BY <1>1, <1>2, <1>3, <1>4

\* So is a retry, and its counter stays below MaxTxRetries.
LEMMA RetryTypeOK ==
    ASSUME TypeOK, NEW r \in Requests, Retry(r)
    PROVE  /\ pc' \in [Calls -> {"idle", "begin", "backoff", "read", "check", "done", "doubt"} \cup TxOpen]
           /\ attempt' \in [Requests -> 0..(MaxTxRetries - 1)]
           /\ found' \in [Logins -> Requests \cup {None}]
           /\ answer' \in [Calls -> {"none", "created", "taken", "error", "granted", "denied"}]
<1>1. CASE RetriesLeft(r)
    <2>1. pc' \in [Calls -> {"idle", "begin", "backoff", "read", "check", "done", "doubt"} \cup TxOpen]
        BY <1>1 DEF TypeOK, Retry, Goto
    <2>2. attempt' \in [Requests -> 0..(MaxTxRetries - 1)]
        BY <1>1, UserStoreAssumption DEF TypeOK, Retry, RetriesLeft, NextAttempt
    <2> QED
        BY <1>1, <2>1, <2>2 DEF TypeOK, Retry
<1>2. CASE ~RetriesLeft(r)
    <2>1. Answer(r, "error") /\ r \in Calls
        BY <1>2 DEF Retry, Calls
    <2> QED
        BY <2>1, AnswerTypeOK
<1> QED
    BY <1>1, <1>2

LEMMA NextTypeOK ==
    TypeOK /\ [Next]_vars => TypeOK'
<1> SUFFICES ASSUME TypeOK, [Next]_vars PROVE TypeOK'
    OBVIOUS
<1> USE UserStoreAssumption DEF TypeOK, Calls, Names, TxOpen
<1>1. ASSUME NEW r \in Requests, CreateUser(r) PROVE TypeOK'
    BY <1>1 DEF CreateUser, Goto, vars, rows, tables
<1>2. ASSUME NEW r \in Requests, BeginTx(r) PROVE TypeOK'
    BY <1>2 DEF BeginTx, Goto, vars, rows, tables
<1>3. ASSUME NEW r \in Requests, InsertProfile(r) PROVE TypeOK'
    BY <1>3 DEF InsertProfile, Goto, Answer, ProfilesMeanwhile, vars, rows, tables
<1>4. ASSUME NEW r \in Requests, InsertCredential(r) PROVE TypeOK'
    BY <1>4 DEF InsertCredential, Goto, Answer, vars, rows, tables
<1>5. ASSUME NEW r \in Requests, Commit(r) PROVE TypeOK'
    BY <1>5 DEF Commit, Publish, Goto, Answer, vars, rows, tables
<1>6. ASSUME NEW r \in Requests, CommitUnknown(r) PROVE TypeOK'
    BY <1>6 DEF CommitUnknown, Goto, vars, rows, tables
<1>7. ASSUME NEW r \in Requests, Settle(r) PROVE TypeOK'
    BY <1>7 DEF Settle, Publish, Goto, vars, rows, tables
<1>8. ASSUME NEW r \in Requests, Conflict(r) PROVE TypeOK'
  <2>1. Retry(r) /\ UNCHANGED <<tables, rows>>
    BY <1>8 DEF Conflict
  <2> QED
    BY <2>1, RetryTypeOK DEF rows, tables
<1>9. ASSUME NEW r \in Requests, EndBackoff(r) PROVE TypeOK'
    BY <1>9 DEF EndBackoff, Goto, vars, rows, tables
<1>10. ASSUME NEW r \in Requests, BreakDeadlock(r) PROVE TypeOK'
  <2>1. CASE Retry(r) /\ UNCHANGED <<tables, rows>>
    BY <2>1, RetryTypeOK DEF rows, tables
  <2>2. CASE AbortDrop
    BY <2>2 DEF AbortDrop, rows
  <2> QED
    BY <1>10, <2>1, <2>2 DEF BreakDeadlock
<1>11. ASSUME NEW l \in Logins, Login(l) PROVE TypeOK'
    BY <1>11 DEF Login, Goto, vars, rows, tables
<1>12. ASSUME NEW l \in Logins, GetCredential(l) PROVE TypeOK'
  <2>1. CredsOf[l] \in Requests
    OBVIOUS
  <2>2. CASE Answer(l, "error")
    BY <1>12, <2>2 DEF GetCredential, Answer, Goto, rows, tables
  <2>3. CASE Answer(l, "denied")
    BY <1>12, <2>3 DEF GetCredential, Answer, Goto, rows, tables
  <2>4. CASE /\ found' = [found EXCEPT ![l] = CredsOf[l]]
             /\ Goto(l, "check")
             /\ UNCHANGED <<attempt, answer>>
    BY <1>12, <2>1, <2>4 DEF GetCredential, Goto, rows, tables
  <2> QED
    BY <1>12, <2>2, <2>3, <2>4 DEF GetCredential
<1>13. ASSUME NEW l \in Logins, GetProfile(l) PROVE TypeOK'
  <2>1. /\ \E what \in {"error", "granted", "denied"} : Answer(l, what)
        /\ UNCHANGED <<tables, rows>>
    BY <1>13 DEF GetProfile
  <2> QED
    BY <2>1, AnswerTypeOK DEF rows, tables
<1>14. ASSUME NEW c \in Calls, Fail(c) PROVE TypeOK'
  <2>1. Answer(c, "error") /\ UNCHANGED <<tables, rows>>
    BY <1>14 DEF Fail
  <2> QED
    BY <2>1, AnswerTypeOK DEF rows, tables
<1>15. CASE DropCredential
    BY <1>15 DEF DropCredential, vars, rows, tables
<1>16. CASE DropProfile
    BY <1>16 DEF DropProfile, vars, rows, tables
<1>17. CASE CommitDrop
    BY <1>17 DEF CommitDrop, vars, rows, tables
<1>18. CASE AbortDrop
    BY <1>18 DEF AbortDrop, vars, rows, tables
<1>19. CASE CreateTables
    BY <1>19 DEF CreateTables, vars, rows, tables
<1>20. CASE UNCHANGED vars
    BY <1>20 DEF vars, rows, tables
<1> QED
    BY <1>1, <1>2, <1>3, <1>4, <1>5, <1>6, <1>7, <1>8, <1>9, <1>10, <1>11, <1>12, <1>13, <1>14, <1>15, <1>16, <1>17, <1>18, <1>19, <1>20
       DEF Next, Statement, EndTx, Drop

\* Registrations and the rollback wait for each other's locks.
LEMMA NextLocks ==
    TypeOK /\ LocksExclude /\ [Next]_vars => LocksExclude'
<1> SUFFICES ASSUME TypeOK /\ LocksExclude, [Next]_vars PROVE LocksExclude'
    OBVIOUS
<1> USE UserStoreAssumption DEF TypeOK, LocksExclude, Calls, Names, TxOpen, NameClaimed, ProfileInserted
<1>1. ASSUME NEW r \in Requests, CreateUser(r) PROVE LocksExclude'
    BY <1>1 DEF CreateUser, Goto, vars, rows, tables
<1>2. ASSUME NEW r \in Requests, BeginTx(r) PROVE LocksExclude'
    BY <1>2 DEF BeginTx, Goto, vars, rows, tables
<1>3. ASSUME NEW r \in Requests, InsertProfile(r) PROVE LocksExclude'
    BY <1>3 DEF InsertProfile, Goto, Answer, ProfilesMeanwhile, vars, rows, tables
<1>4. ASSUME NEW r \in Requests, InsertCredential(r) PROVE LocksExclude'
    BY <1>4 DEF InsertCredential, Goto, Answer, vars, rows, tables
<1>5. ASSUME NEW r \in Requests, Commit(r) PROVE LocksExclude'
    BY <1>5 DEF Commit, Publish, Goto, Answer, vars, rows, tables
<1>6. ASSUME NEW r \in Requests, CommitUnknown(r) PROVE LocksExclude'
    BY <1>6 DEF CommitUnknown, Goto, vars, rows, tables
<1>7. ASSUME NEW r \in Requests, Settle(r) PROVE LocksExclude'
    BY <1>7 DEF Settle, Publish, Goto, vars, rows, tables
<1>8. ASSUME NEW r \in Requests, Conflict(r) PROVE LocksExclude'
    BY <1>8 DEF Conflict, Retry, RetriesLeft, NextAttempt, Goto, Answer, vars, rows, tables
<1>9. ASSUME NEW r \in Requests, EndBackoff(r) PROVE LocksExclude'
    BY <1>9 DEF EndBackoff, Goto, vars, rows, tables
<1>10. ASSUME NEW r \in Requests, BreakDeadlock(r) PROVE LocksExclude'
    BY <1>10 DEF BreakDeadlock, Deadlocked, AbortDrop, Retry, RetriesLeft, NextAttempt, Goto, Answer, vars, rows, tables
<1>11. ASSUME NEW l \in Logins, Login(l) PROVE LocksExclude'
    BY <1>11 DEF Login, Goto, vars, rows, tables
<1>12. ASSUME NEW l \in Logins, GetCredential(l) PROVE LocksExclude'
    BY <1>12 DEF GetCredential, Goto, Answer, vars, rows, tables
<1>13. ASSUME NEW l \in Logins, GetProfile(l) PROVE LocksExclude'
    BY <1>13 DEF GetProfile, Answer, Goto, FindsProfile, vars, rows, tables
<1>14. ASSUME NEW c \in Calls, Fail(c) PROVE LocksExclude'
    BY <1>14 DEF Fail, Answer, Goto, TxOpen, vars, rows, tables
<1>15. CASE DropCredential
    BY <1>15 DEF DropCredential, vars, rows, tables
<1>16. CASE DropProfile
    BY <1>16 DEF DropProfile, vars, rows, tables
<1>17. CASE CommitDrop
    BY <1>17 DEF CommitDrop, vars, rows, tables
<1>18. CASE AbortDrop
    BY <1>18 DEF AbortDrop, vars, rows, tables
<1>19. CASE CreateTables
    BY <1>19 DEF CreateTables, vars, rows, tables
<1>20. CASE UNCHANGED vars
    BY <1>20 DEF vars, rows, tables
<1> QED
    BY <1>1, <1>2, <1>3, <1>4, <1>5, <1>6, <1>7, <1>8, <1>9, <1>10, <1>11, <1>12, <1>13, <1>14, <1>15, <1>16, <1>17, <1>18, <1>19, <1>20
       DEF Next, Statement, EndTx, Drop

\* Rows and answers come with the end of a call.
LEMMA NextUnderWay ==
    TypeOK /\ UnderWay /\ [Next]_vars => UnderWay'
<1> SUFFICES ASSUME TypeOK /\ UnderWay, [Next]_vars PROVE UnderWay'
    OBVIOUS
<1> USE UserStoreAssumption DEF TypeOK, UnderWay, Calls, Names, TxOpen
<1>1. ASSUME NEW r \in Requests, CreateUser(r) PROVE UnderWay'
    BY <1>1 DEF CreateUser, Goto, vars, rows, tables
<1>2. ASSUME NEW r \in Requests, BeginTx(r) PROVE UnderWay'
    BY <1>2 DEF BeginTx, Goto, vars, rows, tables
<1>3. ASSUME NEW r \in Requests, InsertProfile(r) PROVE UnderWay'
    BY <1>3 DEF InsertProfile, Goto, Answer, ProfilesMeanwhile, vars, rows, tables
<1>4. ASSUME NEW r \in Requests, InsertCredential(r) PROVE UnderWay'
    BY <1>4 DEF InsertCredential, Goto, Answer, vars, rows, tables
<1>5. ASSUME NEW r \in Requests, Commit(r) PROVE UnderWay'
    BY <1>5 DEF Commit, Publish, Goto, Answer, vars, rows, tables
<1>6. ASSUME NEW r \in Requests, CommitUnknown(r) PROVE UnderWay'
    BY <1>6 DEF CommitUnknown, Goto, vars, rows, tables
<1>7. ASSUME NEW r \in Requests, Settle(r) PROVE UnderWay'
    BY <1>7 DEF Settle, Publish, Goto, vars, rows, tables
<1>8. ASSUME NEW r \in Requests, Conflict(r) PROVE UnderWay'
    BY <1>8 DEF Conflict, Retry, RetriesLeft, NextAttempt, Goto, Answer, vars, rows, tables
<1>9. ASSUME NEW r \in Requests, EndBackoff(r) PROVE UnderWay'
    BY <1>9 DEF EndBackoff, Goto, vars, rows, tables
<1>10. ASSUME NEW r \in Requests, BreakDeadlock(r) PROVE UnderWay'
    BY <1>10 DEF BreakDeadlock, Deadlocked, AbortDrop, Retry, RetriesLeft, NextAttempt, Goto, Answer, vars, rows, tables
<1>11. ASSUME NEW l \in Logins, Login(l) PROVE UnderWay'
    BY <1>11 DEF Login, Goto, vars, rows, tables
<1>12. ASSUME NEW l \in Logins, GetCredential(l) PROVE UnderWay'
  <2>1. CASE Answer(l, "error")
    BY <1>12, <2>1 DEF GetCredential, Answer, Goto, rows, tables
  <2>2. CASE Answer(l, "denied")
    BY <1>12, <2>2 DEF GetCredential, Answer, Goto, rows, tables
  <2>3. CASE /\ found' = [found EXCEPT ![l] = CredsOf[l]]
             /\ Goto(l, "check")
             /\ UNCHANGED <<attempt, answer>>
    BY <1>12, <2>3 DEF GetCredential, Goto, rows, tables
  <2> QED
    BY <1>12, <2>1, <2>2, <2>3 DEF GetCredential
<1>13. ASSUME NEW l \in Logins, GetProfile(l) PROVE UnderWay'
    BY <1>13 DEF GetProfile, Answer, Goto, FindsProfile, vars, rows, tables
<1>14. ASSUME NEW c \in Calls, Fail(c) PROVE UnderWay'
    BY <1>14 DEF Fail, Answer, Goto, TxOpen, vars, rows, tables
<1>15. CASE DropCredential
    BY <1>15 DEF DropCredential, vars, rows, tables
<1>16. CASE DropProfile
    BY <1>16 DEF DropProfile, vars, rows, tables
<1>17. CASE CommitDrop
    BY <1>17 DEF CommitDrop, vars, rows, tables
<1>18. CASE AbortDrop
    BY <1>18 DEF AbortDrop, vars, rows, tables
<1>19. CASE CreateTables
    BY <1>19 DEF CreateTables, vars, rows, tables
<1>20. CASE UNCHANGED vars
    BY <1>20 DEF vars, rows, tables
<1> QED
    BY <1>1, <1>2, <1>3, <1>4, <1>5, <1>6, <1>7, <1>8, <1>9, <1>10, <1>11, <1>12, <1>13, <1>14, <1>15, <1>16, <1>17, <1>18, <1>19, <1>20
       DEF Next, Statement, EndTx, Drop

\* The unique index lets one transaction at a time claim a free name.
LEMMA NextClaims ==
    TypeOK /\ ClaimsAreSound /\ [Next]_vars => ClaimsAreSound'
<1> SUFFICES ASSUME TypeOK /\ ClaimsAreSound, [Next]_vars PROVE ClaimsAreSound'
    OBVIOUS
<1> USE UserStoreAssumption DEF TypeOK, ClaimsAreSound, Calls, Names, TxOpen, NameClaimed
<1>1. ASSUME NEW r \in Requests, CreateUser(r) PROVE ClaimsAreSound'
    BY <1>1 DEF CreateUser, Goto, vars, rows, tables
<1>2. ASSUME NEW r \in Requests, BeginTx(r) PROVE ClaimsAreSound'
    BY <1>2 DEF BeginTx, Goto, vars, rows, tables
<1>3. ASSUME NEW r \in Requests, InsertProfile(r) PROVE ClaimsAreSound'
    BY <1>3 DEF InsertProfile, Goto, Answer, ProfilesMeanwhile, vars, rows, tables
<1>4. ASSUME NEW r \in Requests, InsertCredential(r) PROVE ClaimsAreSound'
    BY <1>4 DEF InsertCredential, Goto, Answer, vars, rows, tables
<1>5. ASSUME NEW r \in Requests, Commit(r) PROVE ClaimsAreSound'
    BY <1>5 DEF Commit, Publish, Goto, Answer, vars, rows, tables
<1>6. ASSUME NEW r \in Requests, CommitUnknown(r) PROVE ClaimsAreSound'
    BY <1>6 DEF CommitUnknown, Goto, vars, rows, tables
<1>7. ASSUME NEW r \in Requests, Settle(r) PROVE ClaimsAreSound'
    BY <1>7 DEF Settle, Publish, Goto, vars, rows, tables
<1>8. ASSUME NEW r \in Requests, Conflict(r) PROVE ClaimsAreSound'
    BY <1>8 DEF Conflict, Retry, RetriesLeft, NextAttempt, Goto, Answer, vars, rows, tables
<1>9. ASSUME NEW r \in Requests, EndBackoff(r) PROVE ClaimsAreSound'
    BY <1>9 DEF EndBackoff, Goto, vars, rows, tables
<1>10. ASSUME NEW r \in Requests, BreakDeadlock(r) PROVE ClaimsAreSound'
    BY <1>10 DEF BreakDeadlock, Deadlocked, AbortDrop, Retry, RetriesLeft, NextAttempt, Goto, Answer, vars, rows, tables
<1>11. ASSUME NEW l \in Logins, Login(l) PROVE ClaimsAreSound'
    BY <1>11 DEF Login, Goto, vars, rows, tables
<1>12. ASSUME NEW l \in Logins, GetCredential(l) PROVE ClaimsAreSound'
    BY <1>12 DEF GetCredential, Goto, Answer, vars, rows, tables
<1>13. ASSUME NEW l \in Logins, GetProfile(l) PROVE ClaimsAreSound'
    BY <1>13 DEF GetProfile, Answer, Goto, FindsProfile, vars, rows, tables
<1>14. ASSUME NEW c \in Calls, Fail(c) PROVE ClaimsAreSound'
    BY <1>14 DEF Fail, Answer, Goto, TxOpen, vars, rows, tables
<1>15. CASE DropCredential
    BY <1>15 DEF DropCredential, vars, rows, tables
<1>16. CASE DropProfile
    BY <1>16 DEF DropProfile, vars, rows, tables
<1>17. CASE CommitDrop
    BY <1>17 DEF CommitDrop, vars, rows, tables
<1>18. CASE AbortDrop
    BY <1>18 DEF AbortDrop, vars, rows, tables
<1>19. CASE CreateTables
    BY <1>19 DEF CreateTables, vars, rows, tables
<1>20. CASE UNCHANGED vars
    BY <1>20 DEF vars, rows, tables
<1> QED
    BY <1>1, <1>2, <1>3, <1>4, <1>5, <1>6, <1>7, <1>8, <1>9, <1>10, <1>11, <1>12, <1>13, <1>14, <1>15, <1>16, <1>17, <1>18, <1>19, <1>20
       DEF Next, Statement, EndTx, Drop

\* A transaction that claims a free name writes a user and nothing else.
LEMMA PublishIsWhole ==
    ASSUME TypeOK, UsersAreWhole, ClaimsAreSound,
           NEW r \in Requests, pc[r] \in NameClaimed, Publish(r)
    PROVE  UsersAreWhole'
<1> USE UserStoreAssumption DEF TypeOK, Names
<1> DEFINE n0 == NameOf[r]
<1>1. n0 \in Names /\ credentials[n0] = None /\ r # None
    BY DEF ClaimsAreSound
<1>2. \A n \in Names : credentials'[n] = IF n = n0 THEN r ELSE credentials[n]
    BY DEF Publish
<1>3. profiles' = profiles \cup {r}
    BY DEF Publish
<1> HIDE DEF n0
<1>4. \A x : x \in profiles <=> x # None /\ \E n \in Names : credentials[n] = x
    BY DEF UsersAreWhole
<1>5. \A x : x \in profiles' <=> x # None /\ \E n \in Names : credentials'[n] = x
    BY <1>1, <1>2, <1>3, <1>4
<1> QED
    BY <1>5 DEF UsersAreWhole

\* The committed rows change by a transaction that claims its name, or go
\* with the tables; every other step leaves them alone.
LEMMA RowsChange ==
    ASSUME [Next]_vars
    PROVE  \/ UNCHANGED rows
           \/ \E r \in Requests : pc[r] \in NameClaimed /\ Publish(r)
           \/ CommitDrop
<1> DEFINE Goal == \/ UNCHANGED rows
                   \/ \E r \in Requests : pc[r] \in NameClaimed /\ Publish(r)
                   \/ CommitDrop
<1>1. ASSUME NEW r \in Requests,
             \/ CreateUser(r) \/ BeginTx(r) \/ InsertProfile(r) \/ InsertCredential(r)
             \/ CommitUnknown(r) \/ Conflict(r) \/ EndBackoff(r)
      PROVE  Goal
    BY <1>1 DEF CreateUser, BeginTx, InsertProfile, ProfilesMeanwhile, InsertCredential,
                CommitUnknown, Conflict, EndBackoff, rows, tables
<1>2. ASSUME NEW r \in Requests, Commit(r) \/ Settle(r) PROVE Goal
    BY <1>2 DEF Commit, Settle, NameClaimed
<1>3. ASSUME NEW r \in Requests, BreakDeadlock(r) PROVE Goal
    BY <1>3 DEF BreakDeadlock, AbortDrop, rows, tables
<1>4. ASSUME NEW l \in Logins, Login(l) \/ GetCredential(l) \/ GetProfile(l) PROVE Goal
    BY <1>4 DEF Login, GetCredential, GetProfile, rows
<1>5. ASSUME NEW c \in Calls, Fail(c) PROVE Goal
    BY <1>5 DEF Fail, rows
<1>6. CASE Drop
    BY <1>6 DEF Drop, DropCredential, DropProfile, AbortDrop, CreateTables, rows
<1>7. CASE UNCHANGED vars
    BY <1>7 DEF vars, rows
<1>8. ASSUME NEW r \in Requests,
             \/ CreateUser(r) \/ Statement(r) \/ EndTx(r) \/ Settle(r)
             \/ Conflict(r) \/ EndBackoff(r) \/ BreakDeadlock(r)
      PROVE  Goal
    BY <1>1, <1>2, <1>3, <1>8 DEF Statement, EndTx
<1>9. CASE Next
    BY <1>4, <1>5, <1>6, <1>8, <1>9 DEF Next
<1> QED
    BY <1>7, <1>9

\* Profiles and credentials change together.
LEMMA NextWhole ==
    ASSUME TypeOK, UsersAreWhole, ClaimsAreSound, [Next]_vars
    PROVE  UsersAreWhole'
<1>1. CASE UNCHANGED rows
    BY <1>1 DEF rows, UsersAreWhole
<1>2. ASSUME NEW r \in Requests, pc[r] \in NameClaimed, Publish(r) PROVE UsersAreWhole'
    BY <1>2, PublishIsWhole
<1>3. CASE CommitDrop
    BY <1>3 DEF CommitDrop, UsersAreWhole
<1> QED
    BY <1>1, <1>2, <1>3, RowsChange

\* A row is written under the name of its request.
LEMMA NextNames ==
    ASSUME TypeOK, NamesMatch, [Next]_vars
    PROVE  NamesMatch'
<1> USE UserStoreAssumption DEF NamesMatch, TypeOK, Names
<1>1. CASE UNCHANGED rows
    BY <1>1 DEF rows
<1>2. ASSUME NEW r \in Requests, Publish(r) PROVE NamesMatch'
    BY <1>2 DEF Publish
<1>3. CASE CommitDrop
    BY <1>3 DEF CommitDrop
<1> QED
    BY <1>1, <1>2, <1>3, RowsChange

LEMMA InitInv == Init => Inv
<1> SUFFICES ASSUME Init PROVE Inv
    OBVIOUS
<1> USE UserStoreAssumption DEF Init, Names, Calls, TxOpen, NameClaimed, ProfileInserted
<1>1. TypeOK
    BY DEF TypeOK
<1>2. UsersAreWhole /\ NamesMatch
    BY DEF UsersAreWhole, NamesMatch
<1>3. ClaimsAreSound /\ LocksExclude /\ UnderWay
    BY DEF ClaimsAreSound, LocksExclude, UnderWay
<1> QED
    BY <1>1, <1>2, <1>3 DEF Inv

LEMMA NextInv == Inv /\ [Next]_vars => Inv'
  BY NextTypeOK, NextLocks, NextUnderWay, NextClaims, NextWhole, NextNames DEF Inv

LEMMA Invariance == Spec => []Inv
  BY InitInv, NextInv, PTL DEF Spec

\* The variables of sql_dao.go's model keep their types: no attempt beyond

\* maxTxRetries, in particular.
THEOREM TypeCorrect == Spec => []TypeOK
<1>1. Inv => TypeOK
    BY DEF Inv
<1> QED
    BY <1>1, Invariance, PTL

\* No orphaned profile and no orphaned credential, for any number of

\* registrations, retries and rollbacks.
THEOREM UsersStayWhole == Spec => []UsersAreWhole
<1>1. Inv => UsersAreWhole
    BY DEF Inv
<1> QED
    BY <1>1, Invariance, PTL

-----------------------------------------------------------------------------
(* The store implements the directory.                                     *)

Late == {r \in Requests : pc[r] = "doubt"}
Seen == <<credentials, answer, Late>>

LEMMA InitIsDirectory == Init => Users!Init
  BY UserStoreAssumption DEF Init, Users!Init, Names, Calls

\* An answer tells the caller once, and puts nobody in doubt.
LEMMA AnswerTells ==
    ASSUME Inv, NEW c \in Calls, pc[c] \notin {"done", "doubt"},
           NEW what, Answer(c, what)
    PROVE  Users!Tell(c, what) /\ Late' = Late
<1>1. Users!Tell(c, what)
    BY DEF Answer, Users!Tell, Inv, UnderWay
<1>2. \A r \in Requests : pc'[r] = "doubt" <=> pc[r] = "doubt"
    BY DEF Answer, Goto, Inv, TypeOK, Calls
<1> QED
    BY <1>1, <1>2 DEF Late

\* A step of a call towards its next statement shows nothing.
LEMMA GotoIsSilent ==
    ASSUME TypeOK, NEW c \in Calls, pc[c] \notin {"done", "doubt"},
           NEW label, label # "doubt", Goto(c, label), UNCHANGED <<credentials, answer>>
    PROVE  UNCHANGED Seen
<1>1. \A r \in Requests : pc'[r] = "doubt" <=> pc[r] = "doubt"
    BY DEF Goto, TypeOK, Calls
<1> QED
    BY <1>1 DEF Late, Seen

\* A failed call is a failure of the directory's.
LEMMA FailureFails ==
    ASSUME Inv, NEW c \in Calls, pc[c] \notin {"done", "doubt"},
           Answer(c, "error"), UNCHANGED rows
    PROVE  Users!Fail(c)
  BY AnswerTells DEF Users!Fail, rows, Late

\* A retry shows nothing, the last one is a failure.
LEMMA RetryShows ==
    ASSUME Inv, NEW r \in Requests, pc[r] \in TxOpen, Retry(r), UNCHANGED rows
    PROVE  UNCHANGED Seen \/ Users!Fail(r)
<1> USE DEF Calls, TxOpen
<1>1. CASE RetriesLeft(r)
    BY <1>1, GotoIsSilent DEF Retry, rows, Inv
<1>2. CASE ~RetriesLeft(r)
    BY <1>2, FailureFails DEF Retry
<1> QED
    BY <1>1, <1>2

\* What a committing transaction does to the directory.
LEMMA PublishTakes ==
    ASSUME Inv, NEW r \in Requests, pc[r] \in NameClaimed, Publish(r)
    PROVE  Users!Take(r)
  BY DEF Publish, Users!Take, Inv, ClaimsAreSound

\* Whoever asks for a registration gets an honest answer.
LEMMA RegistrationStep ==
    ASSUME Inv, NEW r \in Requests,
           \/ CreateUser(r) \/ Statement(r) \/ EndTx(r) \/ Settle(r)
           \/ Conflict(r) \/ EndBackoff(r) \/ BreakDeadlock(r)
    PROVE  \/ UNCHANGED Seen
           \/ Users!Register(r) \/ Users!Refuse(r) \/ Users!Fail(r) \/ Users!Settle(r)
<1> USE DEF Calls
<1>1. CASE CreateUser(r)
    BY <1>1, GotoIsSilent DEF CreateUser, rows, Inv
<1>2. CASE BeginTx(r)
    BY <1>2, GotoIsSilent DEF BeginTx, rows, Inv
<1>3. CASE InsertProfile(r)
  <2>1. pc[r] = "profile" /\ UNCHANGED rows
    BY <1>3 DEF InsertProfile, ProfilesMeanwhile, rows
  <2>2. CASE Answer(r, "error")
    BY <2>1, <2>2, FailureFails
  <2>3. CASE Goto(r, "credential") /\ UNCHANGED answer
    BY <2>1, <2>3, GotoIsSilent DEF rows, Inv
  <2> QED
    BY <1>3, <2>2, <2>3 DEF InsertProfile
<1>4. CASE InsertCredential(r)
  <2>1. pc[r] = "credential" /\ UNCHANGED rows
    BY <1>4 DEF InsertCredential, rows
  <2>2. CASE credentials[NameOf[r]] = None
    BY <1>4, <2>1, <2>2, GotoIsSilent DEF InsertCredential, rows, Inv
  <2>3. CASE credentials[NameOf[r]] # None
    <3>1. credentials[NameOf[r]] # r
      <4>1. r \notin profiles
        BY <2>1 DEF Inv, UnderWay
      <4>2. NameOf[r] \in Names
        BY DEF Names
      <4> QED
        BY <2>3, <4>1, <4>2 DEF Inv, UsersAreWhole
    <3>2. Answer(r, "taken")
      BY <1>4, <2>3 DEF InsertCredential
    <3> QED
      BY <2>1, <2>3, <3>1, <3>2, AnswerTells DEF Users!Refuse, rows, Late
  <2> QED
    BY <2>2, <2>3
<1>5. CASE Commit(r)
  <2>1. Users!Take(r)
    BY <1>5, PublishTakes DEF Commit, NameClaimed
  <2>2. Users!Tell(r, "created") /\ Late' = Late
    BY <1>5, AnswerTells DEF Commit
  <2> QED
    BY <2>1, <2>2 DEF Users!Register, Late
<1>6. CASE CommitUnknown(r)
  <2>1. Users!Tell(r, "error")
    BY <1>6 DEF CommitUnknown, Users!Tell, Inv, UnderWay
  <2>2. Late' = Late \cup {r}
    BY <1>6 DEF CommitUnknown, Goto, Late, Inv, TypeOK
  <2> QED
    BY <1>6, <2>1, <2>2 DEF CommitUnknown, Users!Fail, rows, Late
<1>7. CASE Settle(r)
  <2>1. r \in Late /\ Late' = Late \ {r}
    BY <1>7 DEF Settle, Goto, Late, Inv, TypeOK
  <2>2. Users!Take(r) \/ UNCHANGED credentials
    BY <1>7, PublishTakes DEF Settle, NameClaimed, rows
  <2> QED
    BY <1>7, <2>1, <2>2 DEF Settle, Users!Settle, Late
<1>8. CASE Conflict(r)
    BY <1>8, RetryShows DEF Conflict
<1>9. CASE EndBackoff(r)
    BY <1>9, GotoIsSilent DEF EndBackoff, rows, Inv
<1>10. CASE BreakDeadlock(r)
  <2>1. CASE Retry(r) /\ UNCHANGED <<tables, rows>>
    BY <1>10, <2>1, RetryShows DEF BreakDeadlock, Deadlocked, TxOpen
  <2>2. CASE AbortDrop
    BY <2>2 DEF AbortDrop, Seen, Late, rows
  <2> QED
    BY <1>10, <2>1, <2>2 DEF BreakDeadlock
<1> QED
    BY <1>1, <1>2, <1>3, <1>4, <1>5, <1>6, <1>7, <1>8, <1>9, <1>10 DEF Statement, EndTx

\* A login is answered by the directory at the moment of its last read.
LEMMA LoginStep ==
    ASSUME Inv, NEW l \in Logins, Login(l) \/ GetCredential(l) \/ GetProfile(l)
    PROVE  UNCHANGED Seen \/ Users!Login(l) \/ Users!Fail(l)
<1> USE DEF Calls
<1> DEFINE u == CredsOf[l]
<1>u. u \in Requests /\ NameOf[u] \in Names /\ u # None
    BY UserStoreAssumption DEF Names
<1>1. CASE Login(l)
    BY <1>1, GotoIsSilent DEF Login, rows, Inv
<1>2. CASE GetCredential(l)
  <2>1. pc[l] = "read" /\ UNCHANGED rows
    BY <1>2 DEF GetCredential
  <2>2. CASE ~schema
    BY <1>2, <2>1, <2>2, FailureFails DEF GetCredential
  <2>3. CASE schema /\ credentials[NameOf[u]] = u
    BY <1>2, <2>1, <2>3, GotoIsSilent DEF GetCredential, rows, Inv
  <2>4. CASE schema /\ credentials[NameOf[u]] # u
    <3>1. Answer(l, "denied")
      BY <1>2, <2>4 DEF GetCredential
    <3> QED
      BY <2>1, <2>4, <3>1, AnswerTells DEF Users!Login, rows, Late
  <2> QED
    BY <2>2, <2>3, <2>4
<1>3. CASE GetProfile(l)
  <2>1. pc[l] = "check" /\ UNCHANGED rows /\ found[l] = u
    BY <1>3 DEF GetProfile, Inv, UnderWay
  <2>2. CASE ~schema
    BY <1>3, <2>1, <2>2, FailureFails DEF GetProfile
  <2>3. CASE schema
    <3>1. u \in profiles <=> credentials[NameOf[u]] = u
      BY <1>u DEF Inv, UsersAreWhole, NamesMatch
    <3>2. Answer(l, IF credentials[NameOf[u]] = u THEN "granted" ELSE "denied")
      BY <1>3, <2>1, <2>3, <3>1 DEF GetProfile, FindsProfile
    <3> QED
      BY <2>1, <3>2, AnswerTells DEF Users!Login, rows, Late
  <2> QED
    BY <2>2, <2>3
<1> QED
    BY <1>1, <1>2, <1>3

\* Rolling the tables back clears the directory at its commit.
LEMMA DropStep ==
    ASSUME TypeOK, Drop
    PROVE  UNCHANGED Seen \/ Users!Clear
<1>1. CASE CommitDrop
  <2>1. credentials' = [n \in DOMAIN credentials |-> None]
    BY <1>1 DEF CommitDrop, TypeOK
  <2> QED
    BY <1>1, <2>1 DEF CommitDrop, Users!Clear
<1>2. CASE DropCredential \/ DropProfile \/ AbortDrop \/ CreateTables
    BY <1>2 DEF DropCredential, DropProfile, AbortDrop, CreateTables, Seen, Late, rows
<1> QED
    BY <1>1, <1>2 DEF Drop

LEMMA StepIsDirectory == Inv /\ [Next]_vars => [Users!Next]_Seen
<1> SUFFICES ASSUME Inv, [Next]_vars PROVE [Users!Next]_Seen
    OBVIOUS
<1>1. ASSUME NEW r \in Requests,
             \/ CreateUser(r) \/ Statement(r) \/ EndTx(r) \/ Settle(r)
             \/ Conflict(r) \/ EndBackoff(r) \/ BreakDeadlock(r)
      PROVE  [Users!Next]_Seen
    BY <1>1, RegistrationStep DEF Users!Next
<1>2. ASSUME NEW l \in Logins, Login(l) \/ GetCredential(l) \/ GetProfile(l)
      PROVE  [Users!Next]_Seen
    BY <1>2, LoginStep DEF Users!Next
<1>3. ASSUME NEW c \in Calls, Fail(c) PROVE [Users!Next]_Seen
    BY <1>3, FailureFails DEF Fail, TxOpen, Users!Next, Calls
<1>4. CASE Drop
    BY <1>4, DropStep DEF Inv, Users!Next
<1>5. CASE UNCHANGED vars
    BY <1>5 DEF vars, rows, Seen, Late
<1> QED
    BY <1>1, <1>2, <1>3, <1>4, <1>5 DEF Next

\* However statements, retries, lost answers and rollbacks interleave, callers
\* see a directory: names owned once, honest answers.
THEOREM StoreImplementsDirectory == Spec => ImplementsDirectory
<1>1. Inv /\ [Next]_vars => [Users!Next]_<<credentials, answer, {r \in Requests : pc[r] = "doubt"}>>
    BY StepIsDirectory DEF Seen, Late
<1> QED
    BY <1>1, InitIsDirectory, Invariance, PTL DEF Spec, ImplementsDirectory, Users!Spec
=============================================================================
