----------------------------- MODULE UserStore ------------------------------
(***************************************************************************)
(* Registrations and logins against the database: CreateUser and           *)
(* VerifyUserCredential of internal/dao/sql_dao.go, called from            *)
(* handleCreateUser and handleLogin, while a migration rolls the two user  *)
(* tables back and creates them again.                                     *)
(*                                                                         *)
(* Each registration draws a fresh uuid and brings a password of its own:  *)
(* both are the request itself.  The database is PostgreSQL's: statements  *)
(* that need a lock another transaction holds wait, a deadlock costs one   *)
(* of the transactions its life.  On SQLite they fail at once instead,     *)
(* which Fail covers, and the pool has one connection.                     *)
(***************************************************************************)
EXTENDS Integers, FiniteSets

CONSTANTS
    Requests,      \* calls of handleCreateUser
    Logins,        \* calls of handleLogin
    None,          \* no user
    NameOf,        \* NameOf[r]: the username r asks for
    CredsOf,       \* CredsOf[l]: whose username and password l presents
    PoolSize,      \* SetMaxOpenConns
    MaxTxRetries   \* maxTxRetries

Names == {NameOf[r] : r \in Requests}
Calls == Requests \cup Logins

ASSUME UserStoreAssumption ==
    /\ None \notin Requests
    /\ Requests \cap Logins = {}
    /\ NameOf \in [Requests -> Names]
    /\ CredsOf \in [Logins -> Requests]
    /\ {PoolSize, MaxTxRetries} \subseteq Nat \ {0}

VARIABLES
    schema,        \* do user_profile and user_credential exist?
    dropping,      \* what a rollback of migration 1 has locked so far
    profiles,      \* committed rows of user_profile, by id
    credentials,   \* committed rows of user_credential: the user_id of each name
    pc,            \* where each call is
    attempt,       \* CreateUser's loop counter
    found,         \* the user_id VerifyUserCredential has read
    answer         \* what each call was answered

rows   == <<profiles, credentials>>
tables == <<schema, dropping>>
vars   == <<tables, rows, pc, attempt, found, answer>>

\* Open transactions, in the order of their statements; "doubt": the COMMIT
\* was sent and its outcome is not known on this side.
TxOpen           == {"profile", "credential", "commit"}
ProfileInserted  == {"credential", "commit", "doubt"}
NameClaimed      == {"commit", "doubt"}

TypeOK ==
    /\ schema \in BOOLEAN
    /\ dropping \in {"none", "credential", "profile"}
    /\ profiles \subseteq Requests
    /\ credentials \in [Names -> Requests \cup {None}]
    /\ pc \in [Calls -> {"idle", "begin", "backoff", "read", "check", "done", "doubt"} \cup TxOpen]
    /\ attempt \in [Requests -> 0..(MaxTxRetries - 1)]
    /\ found \in [Logins -> Requests \cup {None}]
    /\ answer \in [Calls -> {"none", "created", "taken", "error", "granted", "denied"}]

Init ==
    /\ schema \in BOOLEAN
    /\ dropping = "none"
    /\ profiles = {}
    /\ credentials = [n \in Names |-> None]
    /\ pc = [c \in Calls |-> "idle"]
    /\ attempt = [r \in Requests |-> 0]
    /\ found = [l \in Logins |-> None]
    /\ answer = [c \in Calls |-> "none"]

-----------------------------------------------------------------------------
Goto(c, label) == pc' = [pc EXCEPT ![c] = label]

\* The handler writes its response; whatever transaction was open is rolled
\* back and what it inserted was never there.
Answer(c, what) ==
    /\ Goto(c, "done")
    /\ answer' = [answer EXCEPT ![c] = what]
    /\ attempt' = [r \in Requests |-> IF r = c THEN 0 ELSE attempt[r]]
    /\ found' = [l \in Logins |-> IF l = c THEN None ELSE found[l]]

\* Is one of the pool's connections free?
HasConn == Cardinality({r \in Requests : pc[r] \in TxOpen}) < PoolSize

-----------------------------------------------------------------------------
(* Seeded faults: each replaces the definition it is named after, to see a *)
(* property fail.  None is part of the specification.                      *)

RetriesLeftOneMore(r)  == attempt[r] < MaxTxRetries
NextAttemptNot(r)      == attempt[r]
FindsProfileAlways(l)  == TRUE            \* the profile is not read
\* s.db.ExecContext in place of tx.ExecContext.
ProfilesMeanwhileInserted(r) == profiles \cup {r}

-----------------------------------------------------------------------------
(* CreateUser.                                                             *)

\* The uuid is drawn and the loop entered; the input has been validated and
\* the password hashed.
CreateUser(r) ==
    /\ pc[r] = "idle"
    /\ Goto(r, "begin")
    /\ UNCHANGED <<tables, rows, attempt, found, answer>>

BeginTx(r) ==
    /\ pc[r] = "begin"
    /\ HasConn
    /\ Goto(r, "profile")
    /\ UNCHANGED <<tables, rows, attempt, found, answer>>

\* What others see of user_profile once r's INSERT has been executed.
ProfilesMeanwhile(r) == profiles

\* A new row of user_profile; a second one of the same id is an error.
InsertProfile(r) ==
    /\ pc[r] = "profile"
    /\ dropping # "profile"
    /\ IF schema /\ r \notin profiles
         THEN /\ profiles' = ProfilesMeanwhile(r)
              /\ Goto(r, "credential")
              /\ UNCHANGED <<attempt, found, answer>>
         ELSE /\ Answer(r, "error")
              /\ UNCHANGED profiles
    /\ UNCHANGED <<tables, credentials>>

\* username is UNIQUE: an INSERT waits for a transaction that has inserted
\* the same name, and fails when that one is committed.
InsertCredential(r) ==
    /\ pc[r] = "credential"
    /\ dropping = "none"
    /\ \A q \in Requests \ {r} : NameOf[q] = NameOf[r] => pc[q] \notin NameClaimed
    /\ IF credentials[NameOf[r]] = None
         THEN /\ Goto(r, "commit")
              /\ UNCHANGED <<attempt, found, answer>>
         ELSE Answer(r, "taken")
    /\ UNCHANGED <<tables, rows>>

\* r's transaction takes effect.
Publish(r) ==
    /\ profiles' = profiles \cup {r}
    /\ credentials' = [credentials EXCEPT ![NameOf[r]] = r]

Commit(r) ==
    /\ pc[r] = "commit"
    /\ Publish(r)
    /\ Answer(r, "created")
    /\ UNCHANGED tables

\* The connection breaks while COMMIT is under way: the caller gets 500 ...
CommitUnknown(r) ==
    /\ pc[r] = "commit"
    /\ Goto(r, "doubt")
    /\ answer' = [answer EXCEPT ![r] = "error"]
    /\ attempt' = [attempt EXCEPT ![r] = 0]
    /\ UNCHANGED <<tables, rows, found>>

\* ... and the server commits all the same, or does not.
Settle(r) ==
    /\ pc[r] = "doubt"
    /\ Publish(r) \/ UNCHANGED rows
    /\ Goto(r, "done")
    /\ UNCHANGED <<tables, attempt, found, answer>>

RetriesLeft(r) == attempt[r] < MaxTxRetries - 1
NextAttempt(r) == attempt[r] + 1

\* The transaction was rolled back for a reason isRetryableTxError knows.
Retry(r) ==
    IF RetriesLeft(r)
      THEN /\ Goto(r, "backoff")
           /\ attempt' = [attempt EXCEPT ![r] = NextAttempt(r)]
           /\ UNCHANGED <<found, answer>>
      ELSE Answer(r, "error")

\* A serialization failure, of any statement.
Conflict(r) ==
    /\ pc[r] \in TxOpen
    /\ Retry(r)
    /\ UNCHANGED <<tables, rows>>

EndBackoff(r) ==
    /\ pc[r] = "backoff"
    /\ Goto(r, "begin")
    /\ UNCHANGED <<tables, rows, attempt, found, answer>>

-----------------------------------------------------------------------------
(* VerifyUserCredential: two reads, no transaction around them.            *)

Login(l) ==
    /\ pc[l] = "idle"
    /\ Goto(l, "read")
    /\ UNCHANGED <<tables, rows, attempt, found, answer>>

\* The row of the username, and the hash in it against the password.
GetCredential(l) ==
    /\ pc[l] = "read"
    /\ HasConn
    /\ dropping = "none"
    /\ IF ~schema THEN Answer(l, "error")
       ELSE IF credentials[NameOf[CredsOf[l]]] = CredsOf[l]
         THEN /\ found' = [found EXCEPT ![l] = CredsOf[l]]
              /\ Goto(l, "check")
              /\ UNCHANGED <<attempt, answer>>
         ELSE Answer(l, "denied")
    /\ UNCHANGED <<tables, rows>>

FindsProfile(l) == found[l] \in profiles

GetProfile(l) ==
    /\ pc[l] = "check"
    /\ HasConn
    /\ dropping # "profile"
    /\ Answer(l, IF ~schema THEN "error"
                 ELSE IF FindsProfile(l) THEN "granted" ELSE "denied")
    /\ UNCHANGED <<tables, rows>>

-----------------------------------------------------------------------------
\* Any other error, the request's ten seconds included: the call is answered
\* with 500 and its transaction rolled back.
Fail(c) ==
    /\ pc[c] \in {"begin", "backoff", "read", "check"} \cup TxOpen
    /\ Answer(c, "error")
    /\ UNCHANGED <<tables, rows>>

-----------------------------------------------------------------------------
(* The rollback of migration 1, one transaction, and its way up again.     *)

\* DROP TABLE waits until no transaction has touched the table.
DropCredential ==
    /\ schema
    /\ dropping = "none"
    /\ \A r \in Requests : pc[r] \notin NameClaimed
    /\ dropping' = "credential"
    /\ UNCHANGED <<schema, rows, pc, attempt, found, answer>>

DropProfile ==
    /\ dropping = "credential"
    /\ \A r \in Requests : pc[r] \notin ProfileInserted
    /\ dropping' = "profile"
    /\ UNCHANGED <<schema, rows, pc, attempt, found, answer>>

CommitDrop ==
    /\ dropping = "profile"
    /\ dropping' = "none"
    /\ schema' = FALSE
    /\ profiles' = {}
    /\ credentials' = [n \in Names |-> None]
    /\ UNCHANGED <<pc, attempt, found, answer>>

AbortDrop ==
    /\ dropping # "none"
    /\ dropping' = "none"
    /\ UNCHANGED <<schema, rows, pc, attempt, found, answer>>

CreateTables ==
    /\ ~schema
    /\ schema' = TRUE
    /\ UNCHANGED <<dropping, rows, pc, attempt, found, answer>>

\* A registration locks user_profile first and user_credential second, the
\* rollback the other way round: the database aborts one of the two.
Deadlocked(r) == pc[r] = "credential" /\ dropping = "credential"

BreakDeadlock(r) ==
    /\ Deadlocked(r)
    /\ \/ Retry(r) /\ UNCHANGED <<tables, rows>>
       \/ AbortDrop

-----------------------------------------------------------------------------
Statement(r) == BeginTx(r) \/ InsertProfile(r) \/ InsertCredential(r)
EndTx(r) == Commit(r) \/ CommitUnknown(r)
Drop == DropCredential \/ DropProfile \/ CommitDrop \/ AbortDrop \/ CreateTables

Next ==
    \/ \E r \in Requests :
         \/ CreateUser(r) \/ Statement(r) \/ EndTx(r) \/ Settle(r)
         \/ Conflict(r) \/ EndBackoff(r) \/ BreakDeadlock(r)
    \/ \E l \in Logins : Login(l) \/ GetCredential(l) \/ GetProfile(l)
    \/ \E c \in Calls : Fail(c)
    \/ Drop

Spec == Init /\ [][Next]_vars

\* The database and its pool serve those who wait in turn, so that one who is
\* offered a lock again and again gets it; a rollback in progress goes on.
\* Neither deadlines nor errors have to come.
Fairness ==
    /\ \A r \in Requests :
         /\ SF_vars(BeginTx(r)) /\ SF_vars(InsertProfile(r)) /\ SF_vars(InsertCredential(r))
         /\ WF_vars(EndTx(r)) /\ WF_vars(Settle(r))
         /\ WF_vars(EndBackoff(r)) /\ WF_vars(BreakDeadlock(r))
    /\ WF_vars(DropProfile \/ CommitDrop)

FairSpec == Spec /\ Fairness

-----------------------------------------------------------------------------
(* Properties.                                                             *)

\* No profile without its credential and no credential without its profile,
\* whatever fails, conflicts or is in doubt half-way ("preventing orphaned
\* profiles").
UsersAreWhole ==
    profiles = {credentials[n] : n \in Names} \ {None}

\* Registrations and logins, interleaved statement by statement with each
\* other, retries, lost answers and a rollback of the tables, look like
\* single steps on a directory: one owner per name, "taken" and "denied" only
\* when true, "granted" only to the owner.
Users == INSTANCE Directory
           WITH users <- credentials, late <- {r \in Requests : pc[r] = "doubt"}

ImplementsDirectory == Users!Spec

\* Every registration is answered, though conflicts may come back for ever
\* and it may wait for others or deadlock with a rollback.
RegistrationEnds ==
    \A r \in Requests : pc[r] = "begin" ~> pc[r] = "done"
=============================================================================
