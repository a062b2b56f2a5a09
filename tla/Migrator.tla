------------------------------ MODULE Migrator ------------------------------
(***************************************************************************)
(* The schema migrator of internal/dao/migrator.go: any number of runs of  *)
(* Migrator.Up and Migrator.Down, each in a process of its own, against    *)
(* one database.  A run takes the lease row of schema_migrations_lock,     *)
(* renews it from a heartbeat goroutine, reads schema_migrations, applies  *)
(* or rolls back one version per transaction, and releases the lease.      *)
(*                                                                         *)
(* Time is counted in ticks that age the lease (the database clock) and    *)
(* the caller's context and heartbeat (the process's clock); every age     *)
(* saturates where no comparison of the code can tell more.                *)
(***************************************************************************)
EXTENDS Integers

CONSTANTS
    Runs,               \* invocations of Up or Down, one per process
    None,               \* is_locked = FALSE: nobody owns the lease row
    Dialect,            \* "sqlite" or "postgres"
    HostOf,             \* HostOf[r]: the hostname in r's lockOwner string
    TopVersion,         \* highest version any binary registers
    Latest,             \* Latest[r]: r's binary registers 1..Latest[r]
    StepArgs,           \* the steps arguments passed to Down
    Irreversible,       \* versions whose .down.sql is blank
    HasDeadline,        \* does the caller's context carry a timeout?
    CtxTimeout,         \* that timeout
    StmtDelay,          \* how long a COMMIT already sent may take to land
    StaleTimeout,       \* staleLockTimeout
    HeartbeatInterval,  \* lockHeartbeatInterval
    RenewTimeout,       \* timeout of one renewLock call
    FaultyDb            \* may statements on the lease row fail?

KnownFromZero(r) == 0..Latest[r]      \* seeded fault, see below

Versions == 1..TopVersion
Known(r) == 1..Latest[r]
CtxCap   == CtxTimeout + StmtDelay
TickCap  == HeartbeatInterval + RenewTimeout

ASSUME MigratorAssumption ==
    /\ None \notin Runs
    /\ Dialect \in {"sqlite", "postgres"}
    /\ TopVersion \in Nat
    /\ Latest \in [Runs -> 0..TopVersion]
    /\ StepArgs \subseteq Int
    /\ {HasDeadline, FaultyDb} \subseteq BOOLEAN
    /\ {CtxTimeout, StmtDelay, StaleTimeout} \subseteq Nat
    /\ {HeartbeatInterval, RenewTimeout} \subseteq Nat

VARIABLES
    tables,    \* do schema_migrations and schema_migrations_lock exist?
    lock,      \* the lease row: its owner and the age of locked_at
    recorded,  \* versions with a row in schema_migrations; a migration's
               \* own effects come and go with its row, in one transaction
    pc,        \* where each run is
    dir,       \* "up" or "down"
    steps,     \* the (normalised) steps argument of Down
    todo,      \* versions the run's loop has still to visit
    count,     \* migrations Down has rolled back (Up only reports its count)
    ctxAge,    \* time since the caller's context was created
    hb,        \* the heartbeat goroutine
    renewAge,  \* time since the heartbeat's lastRenewed
    tickAge    \* time since its ticker last fired

db   == <<tables, lock, recorded>>
loop == <<dir, steps, todo, count>>
beat == <<hb, renewAge, tickAge>>
vars == <<db, pc, loop, ctxAge, beat>>

Unlocked == [by |-> None, age |-> 0]
HeldBy(r) == [by |-> r, age |-> 0]

Waiting == {"acquire", "break", "reclaim"}
TxOpen  == {"record", "commit", "committing"}
Session == {"read", "apply"} \cup TxOpen
PCs == {"idle", "ensure", "unlock", "release", "done", "orphaned", "dead"}
           \cup Waiting \cup Session

TypeOK ==
    /\ tables \in BOOLEAN
    /\ lock \in [by : Runs \cup {None}, age : 0..(StaleTimeout + 1)]
    /\ recorded \subseteq Versions
    /\ pc \in [Runs -> PCs]
    /\ dir \in [Runs -> {"up", "down"}]
    /\ steps \in [Runs -> Int]
    /\ todo \in [Runs -> SUBSET Versions]
    /\ count \in [Runs -> Nat]
    /\ ctxAge \in [Runs -> 0..CtxCap]
    /\ hb \in [Runs -> {"off", "on", "renewed", "cancelled"}]
    /\ renewAge \in [Runs -> 0..StaleTimeout]
    /\ tickAge \in [Runs -> 0..TickCap]

\* A deployment the migrator may meet: no tables yet, or the schema some
\* earlier binary left behind, its lease free.
Init ==
    /\ tables \in BOOLEAN
    /\ lock = Unlocked
    /\ \E k \in 0..TopVersion : recorded = 1..k
    /\ ~tables => recorded = {}
    /\ pc = [r \in Runs |-> "idle"]
    /\ dir = [r \in Runs |-> "up"]
    /\ steps = [r \in Runs |-> 0]
    /\ todo = [r \in Runs |-> {}]
    /\ count = [r \in Runs |-> 0]
    /\ ctxAge = [r \in Runs |-> 0]
    /\ hb = [r \in Runs |-> "off"]
    /\ renewAge = [r \in Runs |-> 0]
    /\ tickAge = [r \in Runs |-> 0]

-----------------------------------------------------------------------------
(* Seeded faults: each replaces the definition it is named after, to see a *)
(* property fail.  None is part of the specification.                      *)

EnsuredByReplace      == Unlocked                      \* INSERT OR REPLACE
ReleasedAnyOwner(r)   == Unlocked                      \* no locked_by = ?
LockIsStaleAtAnyAge   == lock.by # None                \* no locked_at < ...
LockIsStaleIfUnlocked == lock.by = None /\ lock.age > StaleTimeout
RenewedKeepsAge       == lock                          \* locked_at not set
LooksDeadElsewhere(r, q) == HostOf[q] = HostOf[r] => pc[q] = "dead"
LooksDeadOnHost(r, q) == HostOf[q] = HostOf[r]         \* no kill(pid, 0)
AcceptsAnything(r)    == TRUE                          \* no validation
IsNextAscending(r, v) == v \in todo[r] /\ \A w \in todo[r] : v <= w

-----------------------------------------------------------------------------
(* Conditions the code tests.                                              *)

CtxDone(r)    == HasDeadline /\ ctxAge[r] >= CtxTimeout
MigCtxDone(r) == CtxDone(r) \/ hb[r] = "cancelled"

\* SQLite locks the whole file for a writing transaction: another process's
\* write gets SQLITE_BUSY until it commits.
WriteLocked(r) ==
    Dialect = "sqlite" /\ \E q \in Runs \ {r} : pc[q] \in TxOpen

\* SetMaxOpenConns(1): while r's own transaction holds the one connection,
\* its heartbeat cannot get any.
PoolBusy(r) == Dialect = "sqlite" /\ (pc[r] \in TxOpen \/ WriteLocked(r))

LockIsStale == lock.by # None /\ lock.age > StaleTimeout

\* The lease row after its owner's renewLock, EnsureTable and r's releaseLock.
Renewed     == [lock EXCEPT !.age = 0]
Ensured     == IF tables THEN lock ELSE Unlocked
Released(r) == IF lock.by = r /\ ~WriteLocked(r) THEN Unlocked ELSE lock

\* The version r's loop visits next: ascending in Up, descending in Down.
IsNext(r, v) ==
    /\ v \in todo[r]
    /\ \A w \in todo[r] : IF dir[r] = "up" THEN v <= w ELSE w <= v

Exhausted(r) == todo[r] = {} \/ (dir[r] = "down" /\ count[r] >= steps[r])

Goto(r, label) == pc' = [pc EXCEPT ![r] = label]

\* Return err from Up or Down while the lease is held: the deferred unlock
\* runs next.
Abort(r) == Goto(r, "unlock")

\* What a process that is gone, or a call that has returned, no longer has.
Forget(r) ==
    /\ dir' = [dir EXCEPT ![r] = "up"]
    /\ steps' = [steps EXCEPT ![r] = 0]
    /\ todo' = [todo EXCEPT ![r] = {}]
    /\ count' = [count EXCEPT ![r] = 0]
    /\ ctxAge' = [ctxAge EXCEPT ![r] = 0]
    /\ hb' = [hb EXCEPT ![r] = "off"]
    /\ renewAge' = [renewAge EXCEPT ![r] = 0]
    /\ tickAge' = [tickAge EXCEPT ![r] = 0]

-----------------------------------------------------------------------------
(* Starting, and taking the lease.                                         *)

Begin(r) ==
    /\ pc[r] = "idle"
    /\ Goto(r, "ensure")
    /\ \/ UNCHANGED <<dir, steps>>
       \/ \E n \in StepArgs :
            /\ dir' = [dir EXCEPT ![r] = "down"]
            /\ steps' = [steps EXCEPT ![r] = n]
    /\ UNCHANGED <<db, todo, count, ctxAge, beat>>

\* CREATE TABLE IF NOT EXISTS and INSERT OR IGNORE leave an existing lease
\* row as it is.
EnsureTable(r) ==
    /\ pc[r] = "ensure"
    /\ ~CtxDone(r)
    /\ ~WriteLocked(r)
    /\ tables' = TRUE
    /\ lock' = Ensured
    /\ Goto(r, "acquire")
    /\ UNCHANGED <<recorded, loop, ctxAge, beat>>

\* Version and Status: EnsureTable without the lease, then reads only.
Inspect(r) ==
    /\ pc[r] = "idle"
    /\ ~WriteLocked(r)
    /\ tables' = TRUE
    /\ lock' = Ensured
    /\ UNCHANGED <<recorded, pc, loop, ctxAge, beat>>

\* EnsureTable has used up its attempts, or acquireLock saw ctx.Done().
GiveUp(r) ==
    /\ \/ pc[r] = "ensure"
       \/ /\ pc[r] \in Waiting
          /\ CtxDone(r)
    /\ Goto(r, "done")
    /\ Forget(r)
    /\ UNCHANGED db

\* The UPDATE affects the row; the heartbeat goroutine starts.
AcquireLock(r) ==
    /\ pc[r] = "acquire"
    /\ ~CtxDone(r)
    /\ ~WriteLocked(r)
    /\ lock.by = None
    /\ lock' = HeldBy(r)
    /\ Goto(r, "read")
    /\ hb' = [hb EXCEPT ![r] = "on"]
    /\ renewAge' = [renewAge EXCEPT ![r] = 0]
    /\ tickAge' = [tickAge EXCEPT ![r] = 0]
    /\ UNCHANGED <<tables, recorded, loop, ctxAge>>

\* The UPDATE affects no row or returns an error.  Over a network the error
\* may hide that it did take effect: the row then names r, and r goes on
\* polling without a heartbeat.
AcquireMisses(r) ==
    /\ pc[r] = "acquire"
    /\ ~CtxDone(r)
    /\ \/ /\ lock.by # None \/ WriteLocked(r) \/ FaultyDb
          /\ lock' = lock
       \/ /\ FaultyDb
          /\ Dialect = "postgres"
          /\ lock.by = None
          /\ lock' = HeldBy(r)
    /\ Goto(r, "break")
    /\ UNCHANGED <<tables, recorded, loop, ctxAge, beat>>

\* PostgreSQL and CockroachDB: one UPDATE compares locked_at with the
\* server's clock.
BreakStaleLock(r) ==
    /\ Dialect = "postgres"
    /\ pc[r] = "break"
    /\ ~CtxDone(r)
    /\ \/ lock' = IF LockIsStale THEN Unlocked ELSE lock
       \/ FaultyDb /\ UNCHANGED lock
    /\ Goto(r, "acquire")
    /\ UNCHANGED <<tables, recorded, loop, ctxAge, beat>>

\* What r finds out about the process of q with kill(pid, 0): only on their
\* common host does the pid say anything.
LooksDead(r, q) == HostOf[q] = HostOf[r] /\ pc[q] = "dead"

\* SQLite first reads locked_by, and goes on only when the owner's process
\* is on this host and looks dead.  A reused pid or a failed
\* query looks like a live owner.
ReadLockOwner(r) ==
    /\ Dialect = "sqlite"
    /\ pc[r] = "break"
    /\ ~CtxDone(r)
    /\ \/ /\ lock.by # None
          /\ LooksDead(r, lock.by)
          /\ Goto(r, "reclaim")
       \/ Goto(r, "acquire")
    /\ UNCHANGED <<db, loop, ctxAge, beat>>

\* ... and then clears whatever stale lease it finds: this UPDATE does not
\* name the owner that was read.
ReclaimDeadLock(r) ==
    /\ pc[r] = "reclaim"
    /\ ~CtxDone(r)
    /\ \/ lock' = IF LockIsStale /\ ~WriteLocked(r) THEN Unlocked ELSE lock
       \/ FaultyDb /\ UNCHANGED lock
    /\ Goto(r, "acquire")
    /\ UNCHANGED <<tables, recorded, loop, ctxAge, beat>>

-----------------------------------------------------------------------------
(* Applying and rolling back, with the lease held.                         *)

\* The versions a run has to visit, given the recorded ones.
Pending(r) == IF dir[r] = "up" THEN Known(r) \ recorded ELSE recorded

\* validateAppliedMigrations: this binary registers every recorded version.
\* It also compares their names, which are the same in all binaries here; a
\* difference would end the run before any write, as StatementFails may.
Accepts(r) == recorded \subseteq Known(r)

\* getAppliedMigrations; an unknown version is an error before any write.
ReadApplied(r) ==
    /\ pc[r] = "read"
    /\ ~MigCtxDone(r)
    /\ IF Accepts(r)
         THEN /\ todo' = [todo EXCEPT ![r] = Pending(r)]
              /\ steps' = [steps EXCEPT ![r] = IF @ <= 0 THEN 1 ELSE @]
              /\ Goto(r, "apply")
         ELSE /\ Abort(r)
              /\ UNCHANGED <<todo, steps>>
    /\ UNCHANGED <<db, dir, count, ctxAge, beat>>

\* The loop is over.  Nothing looks at the context once more.
FinishLoop(r) ==
    /\ pc[r] = "apply"
    /\ Exhausted(r)
    /\ Goto(r, "unlock")
    /\ UNCHANGED <<db, loop, ctxAge, beat>>

\* BeginTx and the migration's SQL, inside the transaction.
ExecMigration(r) ==
    /\ pc[r] = "apply"
    /\ ~Exhausted(r)
    /\ ~MigCtxDone(r)
    /\ ~WriteLocked(r)
    /\ \A v \in Irreversible : ~(dir[r] = "down" /\ IsNext(r, v))
    /\ Goto(r, "record")
    /\ UNCHANGED <<db, loop, ctxAge, beat>>

\* INSERT INTO or DELETE FROM schema_migrations, same transaction.  The
\* primary key rejects a second row for a version, and a row another open
\* transaction has touched makes the statement wait.
RecordVersion(r) ==
    /\ pc[r] = "record"
    /\ ~MigCtxDone(r)
    /\ \E v \in Versions :
         /\ IsNext(r, v)
         /\ dir[r] = "up" => v \notin recorded
         /\ \A q \in Runs \ {r} :
              pc[q] \in {"commit", "committing", "orphaned"} => ~IsNext(q, v)
    /\ Goto(r, "commit")
    /\ UNCHANGED <<db, loop, ctxAge, beat>>

\* tx.Commit checks the context, then sends COMMIT.
IssueCommit(r) ==
    /\ pc[r] = "commit"
    /\ ~MigCtxDone(r)
    /\ Goto(r, "committing")
    /\ UNCHANGED <<db, loop, ctxAge, beat>>

\* What r's transaction makes of the recorded versions.
Publish(r) ==
    \E v \in Versions :
        /\ IsNext(r, v)
        /\ recorded' = IF dir[r] = "up" THEN recorded \cup {v} ELSE recorded \ {v}

CommitLands(r) ==
    /\ pc[r] = "committing"
    /\ Publish(r)
    /\ todo' = [todo EXCEPT ![r] = {v \in @ : ~IsNext(r, v)}]
    /\ count' = [count EXCEPT ![r] = IF dir[r] = "down" THEN @ + 1 ELSE @]
    /\ Goto(r, "apply")
    /\ UNCHANGED <<tables, lock, dir, steps, ctxAge, beat>>

\* Commit returns an error: the transaction was rolled back, or it was
\* committed and the acknowledgement was lost.  The driver waits for the
\* server's answer whatever the context does; only when the connection breaks
\* is it not known, and then the server is taken to be done with the COMMIT
\* before the run's release reaches it.
CommitErrs(r) ==
    /\ pc[r] = "committing"
    /\ \/ UNCHANGED recorded
       \/ Dialect = "postgres" /\ Publish(r)
    /\ Abort(r)
    /\ UNCHANGED <<tables, lock, loop, ctxAge, beat>>

\* A statement of the session fails (or its context is done): the open
\* transaction is rolled back and the error returned.
StatementFails(r) ==
    /\ pc[r] \in {"read", "apply", "record", "commit"}
    /\ pc[r] = "apply" => ~Exhausted(r)
    /\ Abort(r)
    /\ UNCHANGED <<db, loop, ctxAge, beat>>

-----------------------------------------------------------------------------
(* The deferred unlock: stop the heartbeat, wait for it, release.          *)

StopHeartbeat(r) ==
    /\ pc[r] = "unlock"
    /\ Goto(r, "release")
    /\ Forget(r)
    /\ UNCHANGED db

\* The UPDATE names its owner; its error is dropped.
ReleaseLock(r) ==
    /\ pc[r] = "release"
    /\ \/ lock' = Released(r)
       \/ FaultyDb /\ UNCHANGED lock
    /\ Goto(r, "done")
    /\ UNCHANGED <<tables, recorded, loop, ctxAge, beat>>

\* The process dies: an open transaction is rolled back, the lease row stays.
\* In a SQLite file a COMMIT is either complete by then or undone.
Crash(r) ==
    /\ pc[r] \notin {"idle", "orphaned", "dead"}
    /\ pc[r] = "committing" => Dialect = "sqlite"
    /\ \/ UNCHANGED recorded
       \/ pc[r] = "committing" /\ Publish(r)
    /\ Goto(r, "dead")
    /\ Forget(r)
    /\ UNCHANGED <<tables, lock>>

\* A PostgreSQL server outlives the process, and the COMMIT it was sent is
\* still its to execute ...
CrashCommitting(r) ==
    /\ Dialect = "postgres"
    /\ pc[r] = "committing"
    /\ Goto(r, "orphaned")
    /\ hb' = [hb EXCEPT ![r] = "off"]
    /\ renewAge' = [renewAge EXCEPT ![r] = 0]
    /\ tickAge' = [tickAge EXCEPT ![r] = 0]
    /\ UNCHANGED <<db, loop, ctxAge>>

\* ... or to drop, whoever has the lease by then.
Settle(r) ==
    /\ pc[r] = "orphaned"
    /\ UNCHANGED recorded \/ Publish(r)
    /\ Goto(r, "dead")
    /\ Forget(r)
    /\ UNCHANGED <<tables, lock>>

-----------------------------------------------------------------------------
(* The heartbeat goroutine.                                                *)

TickerFired(r) == hb[r] = "on" /\ tickAge[r] >= HeartbeatInterval

\* The ticker keeps its period whatever a renewal takes.
NextPeriod(r) == tickAge' = [tickAge EXCEPT ![r] = @ - HeartbeatInterval]

\* cancelMigration; the goroutine ends.
StopRenewing(r) ==
    /\ hb' = [hb EXCEPT ![r] = "cancelled"]
    /\ renewAge' = [renewAge EXCEPT ![r] = 0]
    /\ tickAge' = [tickAge EXCEPT ![r] = 0]

\* renewLock's UPDATE takes effect ...
RenewLock(r) ==
    /\ TickerFired(r)
    /\ ~PoolBusy(r)
    /\ lock.by = r
    /\ lock' = Renewed
    /\ hb' = [hb EXCEPT ![r] = "renewed"]
    /\ UNCHANGED <<tables, recorded, pc, loop, ctxAge, renewAge, tickAge>>

\* ... and lastRenewed is set once its answer is back.
RenewReturns(r) ==
    /\ hb[r] = "renewed"
    /\ hb' = [hb EXCEPT ![r] = "on"]
    /\ renewAge' = [renewAge EXCEPT ![r] = 0]
    /\ NextPeriod(r)
    /\ UNCHANGED <<db, pc, loop, ctxAge>>

\* No row matches: errLockLost, and the migration context is cancelled.
RenewFindsLost(r) ==
    /\ TickerFired(r)
    /\ ~PoolBusy(r)
    /\ lock.by # r
    /\ StopRenewing(r)
    /\ UNCHANGED <<db, pc, loop, ctxAge>>

\* Any other error is tolerated until staleLockTimeout has passed since the
\* last renewal; on SQLite for ever.
RenewErrs(r) ==
    /\ \/ TickerFired(r) /\ (FaultyDb \/ PoolBusy(r))
       \/ hb[r] = "renewed" /\ FaultyDb
    /\ IF Dialect = "postgres" /\ renewAge[r] >= StaleTimeout
         THEN StopRenewing(r)
         ELSE /\ hb' = [hb EXCEPT ![r] = "on"]
              /\ NextPeriod(r)
              /\ UNCHANGED renewAge
    /\ UNCHANGED <<db, pc, loop, ctxAge>>

-----------------------------------------------------------------------------
(* Time.                                                                   *)

Older(age, cap) == IF age < cap THEN age + 1 ELSE age

\* The clock of a run's context runs, or that of the COMMIT it has left behind.
Timed(r) ==
    IF HasDeadline THEN pc[r] \in {"ensure", "orphaned"} \cup Waiting \cup Session
      ELSE pc[r] = "orphaned"

\* A COMMIT that was sent in time lands within StmtDelay of the deadline; without
\* one, within StmtDelay of the death of the process that waited for it.
LandsBy == IF HasDeadline THEN CtxCap ELSE StmtDelay

CommitsLandInTime ==
    \A r \in Runs : Timed(r) /\ pc[r] \in {"committing", "orphaned"} => ctxAge[r] < LandsBy

Tick ==
    /\ CommitsLandInTime
    /\ lock' = [lock EXCEPT !.age =
         IF lock.by = None THEN @ ELSE Older(@, StaleTimeout + 1)]
    /\ ctxAge' = [r \in Runs |->
         IF Timed(r) THEN Older(ctxAge[r], CtxCap) ELSE ctxAge[r]]
    /\ renewAge' = [r \in Runs |->
         IF hb[r] \in {"on", "renewed"} THEN Older(renewAge[r], StaleTimeout)
           ELSE renewAge[r]]
    /\ tickAge' = [r \in Runs |->
         IF hb[r] \in {"on", "renewed"} THEN Older(tickAge[r], TickCap)
           ELSE tickAge[r]]
    /\ UNCHANGED <<tables, recorded, pc, loop, hb>>

-----------------------------------------------------------------------------
Take(r) ==
    \/ EnsureTable(r) \/ GiveUp(r)
    \/ AcquireLock(r) \/ AcquireMisses(r)
    \/ BreakStaleLock(r) \/ ReadLockOwner(r) \/ ReclaimDeadLock(r)

Migrate(r) ==
    \/ ReadApplied(r) \/ FinishLoop(r) \/ ExecMigration(r) \/ RecordVersion(r)
    \/ IssueCommit(r) \/ CommitLands(r) \/ CommitErrs(r) \/ StatementFails(r)

Unlock(r) == StopHeartbeat(r) \/ ReleaseLock(r)

Die(r) == Crash(r) \/ CrashCommitting(r) \/ Settle(r)

Heartbeat(r) ==
    RenewLock(r) \/ RenewReturns(r) \/ RenewFindsLost(r) \/ RenewErrs(r)

Steps == \E r \in Runs :
    \/ Begin(r) \/ Inspect(r) \/ Take(r)
    \/ Migrate(r) \/ Unlock(r) \/ Die(r) \/ Heartbeat(r)

Next == Steps \/ Tick

Spec == Init /\ [][Next]_vars

\* The heartbeat as it is meant to run: each renewal is sent and answered
\* within RenewTimeout of the ticker.
PromptTick ==
    /\ \A r \in Runs : hb[r] \in {"on", "renewed"} => tickAge[r] < TickCap
    /\ Tick

PromptSpec == Init /\ [][Steps \/ PromptTick]_vars

\* The Go scheduler: a goroutine that can go on does, and time passes.
\* Nothing makes a caller start a run, and no process has to crash.
Fairness ==
    /\ WF_vars(PromptTick)
    /\ \A r \in Runs :
         /\ WF_vars(Take(r))
         /\ WF_vars(Migrate(r))
         /\ WF_vars(Unlock(r))
         /\ WF_vars(Heartbeat(r))
         /\ WF_vars(Settle(r))

FairSpec == PromptSpec /\ Fairness

-----------------------------------------------------------------------------
(* Properties.                                                             *)

\* r can still change the database: a COMMIT it sent may land, be its process
\* alive or dead, or its migration context lets it send more.
MayWrite(r) ==
    \/ pc[r] \in {"committing", "orphaned"}
    \/ pc[r] \in Session /\ ~MigCtxDone(r)

\* Two runs never migrate at the same time (the "exclusive distributed lock"
\* of acquireLock), whatever crashes, deadlines and lease take-overs do.
ExclusiveMigration ==
    \A r, q \in Runs : MayWrite(r) /\ MayWrite(q) => r = q

\* A run that can still change the database is the one the lease row names:
\* neither breakStaleLock, EnsureTable nor another run's release or late
\* release of its own has taken the row away from it.
ActiveRunOwnsLease ==
    \A r \in Runs : MayWrite(r) => lock.by = r

\* What Up and Down read at their start is still true while they act on it:
\* the versions left to visit are the ones recorded (or missing) now.
PlanIsCurrent ==
    \A r \in Runs :
        MayWrite(r) /\ pc[r] # "read" => todo[r] = Pending(r)

\* schema_migrations never has a gap: every version is applied on top of its
\* predecessor and rolled back before it, over any interleaving of runs of
\* older and newer binaries, crashes and half-finished Downs.
AppliedIsPrefix ==
    \E k \in 0..TopVersion : recorded = 1..k

\* A binary that does not know a recorded version never writes: the versions
\* only change by a run whose binary registers every recorded one.
OnlyInformedRunsWrite ==
    [][\A r \in Runs :
         pc[r] \in {"committing", "orphaned"} /\ pc'[r] # pc[r] /\ recorded' # recorded
             => recorded \cup recorded' \subseteq Known(r)]_vars

\* The migrator implements SerialMigrations: the run that is migrating is the
\* one that can still change the database.
Migrating ==
    IF \E r \in Runs : MayWrite(r) THEN CHOOSE r \in Runs : MayWrite(r) ELSE None

Serial == INSTANCE SerialMigrations WITH holder <- Migrating, applied <- recorded

ImplementsSerial == Serial!Spec

\* A run that waits for the lease stops waiting, without any deadline: what
\* a crashed run leaves in the row goes stale and is broken (PostgreSQL).
WaiterIsServed ==
    \A r \in Runs : pc[r] \in Waiting ~> pc[r] \notin Waiting
=============================================================================
