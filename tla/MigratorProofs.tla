--------------------------- MODULE MigratorProofs ---------------------------
(***************************************************************************)
(* What holds of the migrator for any number of runs, versions and any     *)
(* timeouts: its types, and that no two runs ever migrate at the same      *)
(* time, for callers whose deadline is shorter than staleLockTimeout, for  *)
(* heartbeats that are on time, and on SQLite but for one race; and that   *)
(* no file of a directory of any size is lost.                             *)
(***************************************************************************)
EXTENDS MigrationFiles, FiniteSetTheorems, SequenceTheorems, TLAPS

\* The deployment of cmd/server: every caller has a deadline (15 s or 30 s),
\* and what it sent last has landed before staleLockTimeout (60 s) is over.
DeadlineIsShort == HasDeadline /\ CtxTimeout + StmtDelay <= StaleTimeout

\* A renewal is only in flight once the ticker has fired.
RenewalHasFired ==
    \A r \in Runs : hb[r] = "renewed" => tickAge[r] >= HeartbeatInterval

\* A run goes for the lease only after EnsureTable.
TablesExist == \A r \in Runs : pc[r] \in Waiting \cup Session => tables

TypeInv == TypeOK /\ RenewalHasFired /\ TablesExist

\* While a run can change the database the lease is its own.
Owned == \A r \in Runs : MayWrite(r) => lock.by = r /\ tables

\* ... and, under short deadlines, no older than its context, so that nobody
\* finds it stale.
OwnedAndYoung ==
    \A r \in Runs : MayWrite(r) => /\ lock.by = r
                                   /\ lock.age <= ctxAge[r]
                                   /\ tables

LeaseInv == TypeInv /\ OwnedAndYoung

-----------------------------------------------------------------------------
\* A binary's versions are versions.
LEMMA KnownVersions == ASSUME NEW r \in Runs PROVE Known(r) \subseteq Versions
<1>1. TopVersion \in Nat /\ Latest[r] \in 0..TopVersion
  BY MigratorAssumption
<1> QED BY <1>1 DEF Known, Versions

LEMMA InitTypeInv == Init => TypeInv
<1> SUFFICES ASSUME Init PROVE TypeInv
  OBVIOUS
<1> USE MigratorAssumption
<1>1. recorded \subseteq Versions
  BY DEF Init, Versions
<1>2. TypeOK
  BY <1>1 DEF Init, TypeOK, Unlocked, PCs, CtxCap, TickCap
<1>3. RenewalHasFired
  BY DEF Init, RenewalHasFired
<1>4. TablesExist
  BY DEF Init, TablesExist, Waiting, Session, TxOpen
<1> QED BY <1>2, <1>3, <1>4 DEF TypeInv

\* Every action keeps the types, and starts a renewal only after the ticker.
LEMMA NextTypeInv == TypeInv /\ [Next]_vars => TypeInv'
<1> SUFFICES ASSUME TypeInv, [Next]_vars PROVE TypeInv'
  OBVIOUS
<1> USE MigratorAssumption DEF TypeInv, TypeOK, RenewalHasFired, TablesExist, Waiting, Session, TxOpen
<1>1. CASE UNCHANGED vars
  BY <1>1 DEF vars, db, loop, beat
<1>2. CASE Tick
  BY <1>2 DEF Tick, Older, CtxCap, TickCap, loop
<1>3. ASSUME NEW r \in Runs, Begin(r) \/ Inspect(r) \/ Take(r) PROVE TypeInv'
  <2>1. CASE Begin(r)
    BY <2>1 DEF Begin, Goto, PCs, db, beat
  <2>9. CASE Inspect(r)
    BY <2>9 DEF Inspect, Ensured, Unlocked, loop, beat
  <2>2. CASE EnsureTable(r)
    BY <2>2 DEF EnsureTable, Ensured, Unlocked, Goto, PCs, Waiting, loop, beat
  <2>3. CASE GiveUp(r)
    BY <2>3 DEF GiveUp, Forget, Goto, PCs, CtxCap, TickCap, db
  <2>4. CASE AcquireLock(r)
    BY <2>4 DEF AcquireLock, HeldBy, Goto, PCs, Session, TickCap, loop
  <2>5. CASE AcquireMisses(r)
    BY <2>5 DEF AcquireMisses, HeldBy, Goto, PCs, Waiting, loop, beat
  <2>6. CASE BreakStaleLock(r)
    BY <2>6 DEF BreakStaleLock, Unlocked, Goto, PCs, Waiting, loop, beat
  <2>7. CASE ReadLockOwner(r)
    BY <2>7 DEF ReadLockOwner, Goto, PCs, Waiting, db, loop, beat
  <2>8. CASE ReclaimDeadLock(r)
    BY <2>8 DEF ReclaimDeadLock, Unlocked, Goto, PCs, Waiting, loop, beat
  <2> QED BY <1>3, <2>1, <2>2, <2>3, <2>4, <2>5, <2>6, <2>7, <2>8, <2>9 DEF Take
<1>4. ASSUME NEW r \in Runs, Migrate(r) PROVE TypeInv'
  <2> USE DEF Goto, Abort, PCs, Session, TxOpen
  <2>1. CASE ReadApplied(r)
    <3>1. Pending(r) \subseteq Versions
      BY KnownVersions DEF Pending
    <3> QED BY <2>1, <3>1 DEF ReadApplied, db, beat
  <2>2. CASE FinishLoop(r)
    BY <2>2 DEF FinishLoop, db, loop, beat
  <2>3. CASE ExecMigration(r)
    BY <2>3 DEF ExecMigration, db, loop, beat
  <2>4. CASE RecordVersion(r)
    BY <2>4 DEF RecordVersion, db, loop, beat
  <2>5. CASE IssueCommit(r)
    BY <2>5 DEF IssueCommit, db, loop, beat
  <2>6. CASE CommitLands(r)
    BY <2>6 DEF CommitLands, Publish, beat
  <2>7. CASE CommitErrs(r)
    BY <2>7 DEF CommitErrs, Publish, loop, beat
  <2>8. CASE StatementFails(r)
    BY <2>8 DEF StatementFails, db, loop, beat
  <2> QED BY <1>4, <2>1, <2>2, <2>3, <2>4, <2>5, <2>6, <2>7, <2>8 DEF Migrate
<1>5. ASSUME NEW r \in Runs, Unlock(r) \/ Die(r) PROVE TypeInv'
  <2> USE DEF Goto, PCs
  <2>1. CASE StopHeartbeat(r)
    BY <2>1 DEF StopHeartbeat, Forget, CtxCap, TickCap, db
  <2>2. CASE ReleaseLock(r)
    BY <2>2 DEF ReleaseLock, Released, Unlocked, loop, beat
  <2>3. CASE Crash(r) \/ Settle(r)
    BY <2>3 DEF Crash, Settle, Forget, Publish, CtxCap, TickCap
  <2>4. CASE CrashCommitting(r)
    BY <2>4 DEF CrashCommitting, TickCap, db, loop
  <2> QED BY <1>5, <2>1, <2>2, <2>3, <2>4 DEF Unlock, Die
<1>6. ASSUME NEW r \in Runs, Heartbeat(r) PROVE TypeInv'
  <2>1. CASE RenewLock(r)
    BY <2>1 DEF RenewLock, TickerFired, Renewed, loop
  <2>2. CASE RenewReturns(r)
    BY <2>2 DEF RenewReturns, NextPeriod, TickCap, db, loop
  <2>3. CASE RenewFindsLost(r)
    BY <2>3 DEF RenewFindsLost, StopRenewing, TickCap, db, loop
  <2>4. CASE RenewErrs(r)
    BY <2>4 DEF RenewErrs, TickerFired, StopRenewing, NextPeriod, TickCap, db, loop
  <2> QED BY <1>6, <2>1, <2>2, <2>3, <2>4 DEF Heartbeat
<1> QED BY <1>1, <1>2, <1>3, <1>4, <1>5, <1>6 DEF Next, Steps

\* The variables have the types TypeOK gives them, for all constants.
THEOREM TypeCorrect == Spec => []TypeOK
<1>1. Init => TypeInv
  BY InitTypeInv
<1>2. TypeInv /\ [Next]_vars => TypeInv'
  BY NextTypeInv
<1>3. TypeInv => TypeOK
  BY DEF TypeInv
<1> QED BY <1>1, <1>2, <1>3, PTL DEF Spec

-----------------------------------------------------------------------------
(* The lease.                                                              *)

\* Two runs that may write would both be the owner of the one lease row.
LEMMA OwnedIsExclusive ==
    ASSUME Owned, NEW r \in Runs, NEW q \in Runs, MayWrite(r), MayWrite(q)
    PROVE  r = q
BY DEF Owned

LEMMA YoungIsOwned == OwnedAndYoung => Owned
BY DEF Owned, OwnedAndYoung

\* The lease of a run that may write is never stale.
LEMMA OwnedIsFresh ==
    ASSUME DeadlineIsShort, TypeOK, OwnedAndYoung,
           NEW r \in Runs, MayWrite(r)
    PROVE  ~LockIsStale
<1>1. lock.age <= ctxAge[r] /\ ctxAge[r] \in 0..CtxCap
  BY DEF OwnedAndYoung, TypeOK
<1>2. lock.age \in Nat /\ CtxTimeout \in Nat /\ StmtDelay \in Nat /\ StaleTimeout \in Nat
  BY MigratorAssumption DEF TypeOK
<1> QED BY <1>1, <1>2 DEF LockIsStale, DeadlineIsShort, CtxCap

\* A step that leaves q's place, context and heartbeat alone, and does not
\* touch the lease while q may write, keeps what q relies on.
LEMMA OthersKeep ==
    ASSUME OwnedAndYoung, NEW q \in Runs,
           pc'[q] = pc[q], ctxAge'[q] = ctxAge[q], hb'[q] = hb[q],
           MayWrite(q) => lock' = lock /\ tables'
    PROVE  MayWrite(q)' => lock'.by = q /\ lock'.age <= ctxAge'[q] /\ tables'
BY DEF OwnedAndYoung, MayWrite, MigCtxDone, CtxDone

\* Time passes: a lease ages no faster than the context of its owner, which
\* stops being allowed to write before the age of its context stops to grow.
LEMMA TickKeepsLease ==
    ASSUME TypeInv, OwnedAndYoung, DeadlineIsShort, Tick
    PROVE  OwnedAndYoung'
<1> SUFFICES ASSUME NEW r \in Runs, MayWrite(r)'
             PROVE  lock'.by = r /\ lock'.age <= ctxAge'[r] /\ tables'
  BY DEF OwnedAndYoung
<1>0. /\ ctxAge[r] \in 0..CtxCap /\ lock.age \in Nat /\ CtxCap \in Nat
      /\ CtxTimeout \in Nat /\ CtxTimeout <= CtxCap
      /\ StaleTimeout \in Nat
      /\ lock \in [by : Runs \cup {None}, age : 0..(StaleTimeout + 1)]
  BY MigratorAssumption DEF TypeInv, TypeOK, CtxCap
<1>1. pc[r] \in Session \cup {"orphaned"}
  BY DEF MayWrite, Tick, Session, TxOpen
<1>2. Timed(r) /\ ctxAge'[r] = Older(ctxAge[r], CtxCap)
  BY <1>1 DEF Tick, Timed, DeadlineIsShort
<1>3. MayWrite(r) /\ ctxAge[r] < CtxCap
  <2>1. CASE pc[r] \in {"committing", "orphaned"}
    BY <2>1, <1>0, <1>2 DEF MayWrite, Tick, CommitsLandInTime, LandsBy, DeadlineIsShort
  <2>2. CASE pc[r] \notin {"committing", "orphaned"}
    BY <2>2, <1>0, <1>1, <1>2
    DEF MayWrite, MigCtxDone, CtxDone, Tick, Older, DeadlineIsShort
  <2> QED BY <2>1, <2>2
<1>4. lock.by = r /\ lock.age <= ctxAge[r] /\ tables
  BY <1>3 DEF OwnedAndYoung
<1>5. lock'.by = lock.by /\ lock'.age <= lock.age + 1
  BY <1>0 DEF Tick, Older
<1>6. lock'.age \in Nat
  BY <1>0 DEF Tick, Older
<1> QED BY <1>0, <1>2, <1>3, <1>4, <1>5, <1>6 DEF Tick, Older

\* No step of a run takes the lease from another run that may still write,
\* and a step after which a run may write itself leaves it the owner.
LEMMA StepKeepsLease ==
    ASSUME TypeInv, OwnedAndYoung, DeadlineIsShort, NEW r \in Runs,
           Begin(r) \/ Inspect(r) \/ Take(r) \/ Migrate(r) \/ Unlock(r) \/ Die(r) \/ Heartbeat(r)
    PROVE  OwnedAndYoung'
<1>0. /\ pc \in [Runs -> PCs] /\ hb \in [Runs -> {"off", "on", "renewed", "cancelled"}]
      /\ ctxAge \in [Runs -> 0..CtxCap] /\ todo \in [Runs -> SUBSET Versions]
      /\ lock \in [by : Runs \cup {None}, age : 0..(StaleTimeout + 1)]
      /\ tables \in BOOLEAN /\ None \notin Runs
  BY MigratorAssumption DEF TypeInv, TypeOK
<1> SUFFICES ASSUME NEW q \in Runs, MayWrite(q)'
             PROVE  lock'.by = q /\ lock'.age <= ctxAge'[q] /\ tables'
  BY DEF OwnedAndYoung
<1> USE DEF Goto
<1>1. CASE Begin(r)
  <2>1. q # r
    BY <1>0, <1>1 DEF Begin, MayWrite, Session, TxOpen
  <2> QED BY <1>0, <1>1, <2>1, OthersKeep DEF Begin, db, beat, OwnedAndYoung
<1>2. CASE EnsureTable(r) \/ Inspect(r) \/ GiveUp(r)
  <2>1. q # r
    BY <1>0, <1>2 DEF EnsureTable, Inspect, GiveUp, MayWrite, Session, TxOpen
  <2>2. MayWrite(q) => lock' = lock /\ tables'
    BY <1>2 DEF EnsureTable, Inspect, GiveUp, Ensured, db, OwnedAndYoung
  <2> QED BY <1>0, <1>2, <2>1, <2>2, OthersKeep DEF EnsureTable, Inspect, GiveUp, Forget, beat
<1>3. CASE AcquireLock(r)
  <2>1. ~MayWrite(q)
    BY <1>0, <1>3 DEF AcquireLock, OwnedAndYoung
  <2>2. CASE q = r
    <3>1. tables'
      BY <1>3 DEF AcquireLock, TypeInv, TablesExist, Waiting
    <3>2. lock' = HeldBy(q) /\ ctxAge'[q] \in 0..CtxCap
      BY <1>0, <1>3, <2>2 DEF AcquireLock
    <3> QED BY <3>1, <3>2 DEF HeldBy
  <2>3. CASE q # r
    BY <1>0, <1>3, <2>1, <2>3, OthersKeep DEF AcquireLock
  <2> QED BY <2>2, <2>3
<1>4. CASE AcquireMisses(r) \/ BreakStaleLock(r) \/ ReadLockOwner(r) \/ ReclaimDeadLock(r)
  <2>1. q # r
    BY <1>0, <1>4
    DEF AcquireMisses, BreakStaleLock, ReadLockOwner, ReclaimDeadLock, MayWrite, Session, TxOpen
  <2>2. MayWrite(q) => ~LockIsStale
    BY OwnedIsFresh DEF TypeInv
  <2>3. MayWrite(q) => lock.by # None
    BY <1>0 DEF OwnedAndYoung
  <2>4. MayWrite(q) => lock' = lock /\ tables'
    BY <1>4, <2>2, <2>3
    DEF AcquireMisses, BreakStaleLock, ReadLockOwner, ReclaimDeadLock, db, OwnedAndYoung
  <2> QED BY <1>0, <1>4, <2>1, <2>4, OthersKeep
      DEF AcquireMisses, BreakStaleLock, ReadLockOwner, ReclaimDeadLock, beat
<1>5. CASE Migrate(r)
  <2>1. lock' = lock /\ tables' = tables /\ ctxAge' = ctxAge /\ hb' = hb
    BY <1>5 DEF Migrate, ReadApplied, FinishLoop, ExecMigration, RecordVersion,
                IssueCommit, CommitLands, CommitErrs, StatementFails, db, beat
  <2>2. MayWrite(q)
    <3>1. CASE q # r
      BY <1>0, <1>5, <2>1, <3>1
      DEF Migrate, ReadApplied, FinishLoop, ExecMigration, RecordVersion, IssueCommit,
          CommitLands, CommitErrs, StatementFails, Abort, MayWrite, MigCtxDone, CtxDone
    <3>2. CASE q = r
      BY <1>0, <1>5, <2>1, <3>2
      DEF Migrate, ReadApplied, FinishLoop, ExecMigration, RecordVersion, IssueCommit,
          CommitLands, CommitErrs, StatementFails, Abort, MayWrite, MigCtxDone, CtxDone,
          Session, TxOpen
    <3> QED BY <3>1, <3>2
  <2> QED BY <2>1, <2>2 DEF OwnedAndYoung
<1>6. CASE Unlock(r) \/ Crash(r) \/ Settle(r)
  <2>1. q # r
    BY <1>0, <1>6 DEF Unlock, StopHeartbeat, ReleaseLock, Crash, Settle, MayWrite, Session, TxOpen
  <2>2. MayWrite(q) => lock' = lock /\ tables'
    BY <1>6, <2>1 DEF Unlock, StopHeartbeat, ReleaseLock, Crash, Settle, Released, db,
                      OwnedAndYoung
  <2> QED BY <1>0, <1>6, <2>1, <2>2, OthersKeep
      DEF Unlock, StopHeartbeat, ReleaseLock, Crash, Settle, Forget, beat
<1>8. CASE CrashCommitting(r)
  <2>1. MayWrite(q) /\ UNCHANGED <<lock, tables, ctxAge>>
    BY <1>0, <1>8 DEF CrashCommitting, MayWrite, MigCtxDone, CtxDone, db
  <2> QED BY <2>1 DEF OwnedAndYoung
<1>7. CASE Heartbeat(r)
  <2>1. MayWrite(q)
    BY <1>0, <1>7
    DEF Heartbeat, RenewLock, RenewReturns, RenewFindsLost, RenewErrs, TickerFired,
        StopRenewing, MayWrite, MigCtxDone, CtxDone, loop, db
  <2>2. lock.by = q /\ lock.age <= ctxAge[q] /\ tables
    BY <2>1 DEF OwnedAndYoung
  <2>3. lock' = lock \/ lock' = Renewed
    BY <1>7 DEF Heartbeat, RenewLock, RenewReturns, RenewFindsLost, RenewErrs, db
  <2>4. ctxAge' = ctxAge /\ tables' = tables
    BY <1>7 DEF Heartbeat, RenewLock, RenewReturns, RenewFindsLost, RenewErrs, db
  <2> QED BY <1>0, <2>2, <2>3, <2>4 DEF Renewed
<1> QED BY <1>1, <1>2, <1>3, <1>4, <1>5, <1>6, <1>7, <1>8 DEF Take, Die

LEMMA InitLeaseInv == Init => LeaseInv
<1>1. Init => OwnedAndYoung
  BY DEF Init, OwnedAndYoung, MayWrite, Session, TxOpen
<1> QED BY <1>1, InitTypeInv DEF LeaseInv

LEMMA NextLeaseInv == DeadlineIsShort /\ LeaseInv /\ [Next]_vars => LeaseInv'
<1> SUFFICES ASSUME DeadlineIsShort, LeaseInv, [Next]_vars PROVE OwnedAndYoung'
  BY NextTypeInv DEF LeaseInv
<1>1. CASE UNCHANGED vars
  BY <1>1 DEF LeaseInv, OwnedAndYoung, MayWrite, MigCtxDone, CtxDone, vars, db, beat
<1>2. CASE Tick
  BY <1>2, TickKeepsLease DEF LeaseInv
<1>3. CASE Steps
  BY <1>3, StepKeepsLease DEF Steps, LeaseInv
<1> QED BY <1>1, <1>2, <1>3 DEF Next

\* A run that can still change the database owns the lease row, whatever the
\* number of runs, binaries and versions, when deadlines are short.
THEOREM LeaseIsOwned ==
    ASSUME DeadlineIsShort
    PROVE  Spec => []ActiveRunOwnsLease
<1>1. LeaseInv => ActiveRunOwnsLease
  BY DEF LeaseInv, OwnedAndYoung, ActiveRunOwnsLease
<1>2. LeaseInv /\ [Next]_vars => LeaseInv'
  BY NextLeaseInv
<1> QED BY <1>1, <1>2, InitLeaseInv, PTL DEF Spec

\* No two runs migrate at the same time, when deadlines are short.
THEOREM MigrationIsExclusive ==
    ASSUME DeadlineIsShort
    PROVE  Spec => []ExclusiveMigration
<1>1. ActiveRunOwnsLease => ExclusiveMigration
  BY DEF ActiveRunOwnsLease, ExclusiveMigration
<1> QED BY <1>1, LeaseIsOwned, PTL

-----------------------------------------------------------------------------
(* The recorded versions.                                                  *)

\* What a run read is still so, and its binary knows all of it.
PlanInv ==
    \A r \in Runs : MayWrite(r) /\ pc[r] # "read" =>
        todo[r] = Pending(r) /\ recorded \subseteq Known(r)

Inv == TypeInv /\ Owned /\ AppliedIsPrefix /\ PlanInv

\* A migration that lands takes 1..k to 1..(k+1) or 1..(k-1).
LEMMA PublishMovesByOne ==
    ASSUME NEW r \in Runs, TypeOK, AppliedIsPrefix,
           todo[r] = Pending(r), recorded \subseteq Known(r), Publish(r)
    PROVE  \E k, j \in 0..TopVersion :
             /\ recorded = 1..k /\ recorded' = 1..j
             /\ j \in {k - 1, k + 1}
             /\ recorded' \subseteq Known(r)
<1>0. TopVersion \in Nat /\ Latest[r] \in 0..TopVersion /\ dir[r] \in {"up", "down"}
  BY MigratorAssumption DEF TypeOK
<1>1. PICK k \in 0..TopVersion : recorded = 1..k
  BY DEF AppliedIsPrefix
<1>2. PICK v \in Versions :
        /\ IsNext(r, v)
        /\ recorded' = IF dir[r] = "up" THEN recorded \cup {v} ELSE recorded \ {v}
  BY DEF Publish
<1>3. \A i \in 1..k : i \in 1..Latest[r]
  BY <1>1 DEF Known
<1>4. k <= Latest[r]
  BY <1>0, <1>3
<1>5. CASE dir[r] = "up"
  <2>1. todo[r] = (1..Latest[r]) \ (1..k)
    BY <1>1, <1>5 DEF Pending, Known
  <2>2. v \in todo[r] /\ \A w \in todo[r] : v <= w
    BY <1>2, <1>5 DEF IsNext
  <2>3. v \in Int /\ k < v /\ v <= Latest[r]
    BY <1>0, <2>1, <2>2
  <2>4. k + 1 \in todo[r]
    BY <1>0, <2>1, <2>3
  <2>5. v = k + 1
    BY <2>2, <2>3, <2>4
  <2>6. recorded' = 1..(k + 1)
    BY <1>1, <1>2, <1>5, <2>5
  <2>7. k + 1 \in 0..TopVersion /\ 1..(k + 1) \subseteq 1..Latest[r]
    BY <1>0, <2>3, <2>5
  <2> QED BY <1>1, <2>6, <2>7 DEF Known
<1>6. CASE dir[r] # "up"
  <2>1. todo[r] = 1..k
    BY <1>1, <1>6 DEF Pending
  <2>2. v \in todo[r] /\ \A w \in todo[r] : w <= v
    BY <1>0, <1>2, <1>6 DEF IsNext
  <2>3. v = k /\ k >= 1
    <3>1. v \in 1..k /\ k \in Nat
      BY <2>1, <2>2
    <3>2. k \in todo[r]
      BY <2>1, <3>1
    <3>3. k <= v
      BY <2>2, <3>2
    <3> QED BY <3>1, <3>3
  <2>4. recorded' = 1..(k - 1)
    BY <1>1, <1>2, <1>6, <2>3
  <2>5. k - 1 \in 0..TopVersion /\ 1..(k - 1) \subseteq 1..Latest[r]
    BY <1>0, <1>4, <2>3
  <2> QED BY <1>1, <2>4, <2>5 DEF Known
<1> QED BY <1>5, <1>6

\* Who changes the recorded versions, and what that does to them.
LEMMA OnlyCommitsChange ==
    ASSUME NEW r \in Runs,
           Begin(r) \/ Inspect(r) \/ Take(r) \/ Migrate(r) \/ Unlock(r) \/ Die(r) \/ Heartbeat(r)
    PROVE  \/ recorded' = recorded
           \/ pc[r] \in {"committing", "orphaned"} /\ Publish(r)
BY DEF Begin, Inspect, Take, EnsureTable, GiveUp, AcquireLock, AcquireMisses, BreakStaleLock,
       ReadLockOwner, ReclaimDeadLock, Migrate, ReadApplied, FinishLoop, ExecMigration,
       RecordVersion, IssueCommit, CommitLands, CommitErrs, StatementFails, Unlock,
       StopHeartbeat, ReleaseLock, Die, Crash, CrashCommitting, Settle, Heartbeat, RenewLock,
       RenewReturns,
       RenewFindsLost, RenewErrs, db

\* Whatever happens, another run's plan stays true: while it may write, no
\* one else commits.
LEMMA OthersPlan ==
    ASSUME Inv, NEW r \in Runs, NEW q \in Runs, q # r,
           pc'[q] = pc[q], ctxAge'[q] = ctxAge[q], hb'[q] = hb[q],
           dir'[q] = dir[q], todo'[q] = todo[q],
           recorded' = recorded \/ pc[r] \in {"committing", "orphaned"},
           MayWrite(q)', pc'[q] # "read"
    PROVE  todo'[q] = Pending(q)' /\ recorded' \subseteq Known(q)
<1>1. MayWrite(q) /\ pc[q] # "read"
  BY DEF MayWrite, MigCtxDone, CtxDone
<1>2. recorded' = recorded
  BY <1>1, OwnedIsExclusive DEF MayWrite, Inv
<1> QED BY <1>1, <1>2 DEF Inv, PlanInv, Pending

LEMMA StepKeepsPlan ==
    ASSUME Inv, NEW r \in Runs,
           Begin(r) \/ Inspect(r) \/ Take(r) \/ Migrate(r) \/ Unlock(r) \/ Die(r) \/ Heartbeat(r)
    PROVE  AppliedIsPrefix' /\ PlanInv'
<1>0. /\ pc \in [Runs -> PCs] /\ hb \in [Runs -> {"off", "on", "renewed", "cancelled"}]
      /\ ctxAge \in [Runs -> 0..CtxCap] /\ todo \in [Runs -> SUBSET Versions]
      /\ dir \in [Runs -> {"up", "down"}] /\ steps \in [Runs -> Int]
      /\ count \in [Runs -> Nat]
      /\ TypeOK
  BY DEF Inv, TypeInv, TypeOK
<1> USE DEF Goto
<1>1. recorded' = recorded \/ (pc[r] \in {"committing", "orphaned"} /\ Publish(r))
  BY OnlyCommitsChange
<1>2. pc[r] \in {"committing", "orphaned"} => todo[r] = Pending(r) /\ recorded \subseteq Known(r)
  BY DEF Inv, PlanInv, MayWrite
<1>3. AppliedIsPrefix'
  BY <1>0, <1>1, <1>2, PublishMovesByOne DEF Inv, AppliedIsPrefix
<1>4. ASSUME NEW q \in Runs, q # r, MayWrite(q)', pc'[q] # "read"
      PROVE  todo'[q] = Pending(q)' /\ recorded' \subseteq Known(q)
  <2>1. pc'[q] = pc[q] /\ ctxAge'[q] = ctxAge[q]
    BY <1>0, <1>4
    DEF Begin, Inspect, Take, EnsureTable, GiveUp, AcquireLock, AcquireMisses, BreakStaleLock,
        ReadLockOwner, ReclaimDeadLock, Migrate, ReadApplied, FinishLoop, ExecMigration,
        RecordVersion, IssueCommit, CommitLands, CommitErrs, StatementFails, Unlock,
        StopHeartbeat, ReleaseLock, Die, Crash, CrashCommitting, Settle, Heartbeat, RenewLock,
        RenewReturns,
        RenewFindsLost, RenewErrs, Abort, Forget, db
  <2>2. hb'[q] = hb[q]
    BY <1>0, <1>4
    DEF Begin, Inspect, Take, EnsureTable, GiveUp, AcquireLock, AcquireMisses, BreakStaleLock,
        ReadLockOwner, ReclaimDeadLock, Migrate, ReadApplied, FinishLoop, ExecMigration,
        RecordVersion, IssueCommit, CommitLands, CommitErrs, StatementFails, Unlock,
        StopHeartbeat, ReleaseLock, Die, Crash, CrashCommitting, Settle, Heartbeat, RenewLock,
        RenewReturns,
        RenewFindsLost, RenewErrs, Forget, StopRenewing, beat
  <2>3. dir'[q] = dir[q] /\ todo'[q] = todo[q]
    BY <1>0, <1>4
    DEF Begin, Inspect, Take, EnsureTable, GiveUp, AcquireLock, AcquireMisses, BreakStaleLock,
        ReadLockOwner, ReclaimDeadLock, Migrate, ReadApplied, FinishLoop, ExecMigration,
        RecordVersion, IssueCommit, CommitLands, CommitErrs, StatementFails, Unlock,
        StopHeartbeat, ReleaseLock, Die, Crash, CrashCommitting, Settle, Heartbeat, RenewLock,
        RenewReturns,
        RenewFindsLost, RenewErrs, Forget, loop
  <2> QED BY <1>1, <1>4, <2>1, <2>2, <2>3, OthersPlan
<1>5. ASSUME MayWrite(r)', pc'[r] # "read"
      PROVE  todo'[r] = Pending(r)' /\ recorded' \subseteq Known(r)
  <2>1. CASE Begin(r) \/ Inspect(r) \/ Take(r) \/ Unlock(r) \/ Crash(r) \/ Settle(r)
    BY <1>0, <1>5, <2>1
    DEF Begin, Inspect, Take, EnsureTable, GiveUp, AcquireLock, AcquireMisses, BreakStaleLock,
        ReadLockOwner, ReclaimDeadLock, Unlock, StopHeartbeat, ReleaseLock, Crash, Settle,
        MayWrite, Session, TxOpen
  <2>2. CASE ReadApplied(r)
    BY <1>0, <1>5, <2>2
    DEF ReadApplied, Accepts, Abort, Pending, MayWrite, Session, TxOpen, db
  <2>3. CASE CommitLands(r)
    <3>1. pc[r] = "committing" /\ Publish(r) /\ dir' = dir
      BY <2>3 DEF CommitLands
    <3>2. todo'[r] = {v \in todo[r] : ~IsNext(r, v)}
      BY <1>0, <2>3 DEF CommitLands
    <3>3. recorded' \subseteq Known(r)
      BY <1>0, <1>2, <3>1, PublishMovesByOne DEF Inv
    <3>4. PICK v \in Versions :
            /\ IsNext(r, v)
            /\ recorded' = IF dir[r] = "up" THEN recorded \cup {v} ELSE recorded \ {v}
      BY <3>1 DEF Publish
    <3>5. \A w \in todo[r] : IsNext(r, w) => w = v
      BY <1>0, <3>4 DEF IsNext, Versions
    <3>6. todo'[r] = todo[r] \ {v}
      BY <3>2, <3>4, <3>5
    <3> QED BY <1>2, <3>1, <3>3, <3>4, <3>6 DEF Pending
  <2>4. CASE CommitErrs(r) \/ StatementFails(r) \/ FinishLoop(r)
    BY <1>0, <1>5, <2>4
    DEF CommitErrs, StatementFails, FinishLoop, Abort, MayWrite, Session, TxOpen
  <2>5. CASE ExecMigration(r) \/ RecordVersion(r) \/ IssueCommit(r) \/ Heartbeat(r)
    <3>1. recorded' = recorded /\ dir' = dir /\ todo' = todo
      BY <2>5 DEF ExecMigration, RecordVersion, IssueCommit, Heartbeat, RenewLock,
                  RenewReturns, RenewFindsLost, RenewErrs, db, loop
    <3>2. MayWrite(r) /\ pc[r] # "read"
      BY <1>0, <1>5, <2>5
      DEF ExecMigration, RecordVersion, IssueCommit, Heartbeat, RenewLock, RenewReturns,
          RenewFindsLost, RenewErrs, TickerFired, StopRenewing, MayWrite, MigCtxDone,
          CtxDone, Session, TxOpen, beat
    <3> QED BY <3>1, <3>2 DEF Inv, PlanInv, Pending
  <2>6. CASE CrashCommitting(r)
    <3>1. UNCHANGED <<recorded, dir, todo>> /\ pc[r] = "committing"
      BY <2>6 DEF CrashCommitting, db, loop
    <3> QED BY <1>2, <3>1 DEF Pending
  <2> QED BY <2>1, <2>2, <2>3, <2>4, <2>5, <2>6 DEF Migrate, Die
<1> QED BY <1>3, <1>4, <1>5 DEF PlanInv, Pending

LEMMA InitInv == Init => Inv
<1>1. Init => AppliedIsPrefix
  BY DEF Init, AppliedIsPrefix
<1>2. Init => PlanInv
  BY DEF Init, PlanInv, MayWrite, Session, TxOpen
<1>3. Init => Owned
  BY DEF Init, Owned, MayWrite, Session, TxOpen
<1> QED BY <1>1, <1>2, <1>3, InitTypeInv DEF Inv

\* Whatever it is that keeps the lease, it keeps the plans.
LEMMA NextKeepsPlan == Inv /\ [Next]_vars => AppliedIsPrefix' /\ PlanInv'
<1> SUFFICES ASSUME Inv, [Next]_vars
             PROVE  AppliedIsPrefix' /\ PlanInv'
  OBVIOUS
<1>1. CASE UNCHANGED vars
  BY <1>1 DEF Inv, AppliedIsPrefix, PlanInv, MayWrite, MigCtxDone, CtxDone, Pending,
              vars, db, beat, loop
<1>2. CASE Tick
  <2>1. UNCHANGED <<recorded, pc, dir, todo, hb>>
    BY <1>2 DEF Tick, loop
  <2>2. ASSUME NEW r \in Runs, MayWrite(r)' PROVE MayWrite(r)
    <3>1. /\ ctxAge'[r] >= ctxAge[r] /\ ctxAge[r] \in Nat /\ ctxAge'[r] \in Nat
          /\ CtxTimeout \in Nat
      BY <1>2, MigratorAssumption
      DEF Tick, Older, CtxCap, Inv, TypeInv, TypeOK
    <3> QED BY <2>1, <2>2, <3>1 DEF MayWrite, MigCtxDone, CtxDone
  <2> QED BY <2>1, <2>2 DEF Inv, AppliedIsPrefix, PlanInv, Pending
<1>3. CASE Steps
  BY <1>3, StepKeepsPlan DEF Steps
<1> QED BY <1>1, <1>2, <1>3 DEF Next

DeadlineInv == Inv /\ OwnedAndYoung

LEMMA InitDeadlineInv == Init => DeadlineInv
BY InitInv, InitLeaseInv DEF DeadlineInv, LeaseInv

LEMMA NextDeadlineInv == DeadlineIsShort /\ DeadlineInv /\ [Next]_vars => DeadlineInv'
<1> SUFFICES ASSUME DeadlineIsShort, DeadlineInv, [Next]_vars
             PROVE  DeadlineInv'
  OBVIOUS
<1>1. TypeInv' /\ OwnedAndYoung'
  BY NextLeaseInv DEF LeaseInv, DeadlineInv, Inv
<1>2. Owned'
  BY <1>1, YoungIsOwned, PTL
<1>3. AppliedIsPrefix' /\ PlanInv'
  BY NextKeepsPlan DEF DeadlineInv
<1> QED BY <1>1, <1>2, <1>3 DEF DeadlineInv, Inv

\* What Up and Down read at their start is true for as long as they act on it.
THEOREM PlanStaysCurrent ==
    ASSUME DeadlineIsShort
    PROVE  Spec => []PlanIsCurrent
<1>1. DeadlineInv => PlanIsCurrent
  BY DEF DeadlineInv, Inv, PlanInv, PlanIsCurrent
<1>2. DeadlineInv /\ [Next]_vars => DeadlineInv'
  BY NextDeadlineInv
<1> QED BY <1>1, <1>2, InitDeadlineInv, PTL DEF Spec

\* The recorded versions are always 1..k for some k.
THEOREM NoGaps ==
    ASSUME DeadlineIsShort
    PROVE  Spec => []AppliedIsPrefix
<1>1. DeadlineInv => AppliedIsPrefix
  BY DEF DeadlineInv, Inv
<1>2. DeadlineInv /\ [Next]_vars => DeadlineInv'
  BY NextDeadlineInv
<1> QED BY <1>1, <1>2, InitDeadlineInv, PTL DEF Spec

\* What OnlyInformedRunsWrite says of a step.
Informed ==
    \A r \in Runs :
        pc[r] \in {"committing", "orphaned"} /\ pc'[r] # pc[r] /\ recorded' # recorded
            => recorded \cup recorded' \subseteq Known(r)

LEMMA StepIsInformed ==
    ASSUME Inv, [Next]_vars
    PROVE  Informed
<1> SUFFICES ASSUME NEW r \in Runs, pc[r] \in {"committing", "orphaned"},
                    pc'[r] # pc[r], recorded' # recorded
             PROVE  recorded \cup recorded' \subseteq Known(r)
  BY DEF Informed
<1>1. todo[r] = Pending(r) /\ recorded \subseteq Known(r) /\ MayWrite(r)
  BY DEF Inv, PlanInv, MayWrite
<1>2. ~(UNCHANGED vars) /\ ~Tick
  BY DEF vars, db, Tick
<1>3. PICK q \in Runs :
        Begin(q) \/ Inspect(q) \/ Take(q) \/ Migrate(q) \/ Unlock(q) \/ Die(q) \/ Heartbeat(q)
  BY <1>2 DEF Next, Steps
<1>4. pc[q] \in {"committing", "orphaned"} /\ Publish(q)
  BY <1>3, OnlyCommitsChange
<1>5. q = r
  BY <1>1, <1>4, OwnedIsExclusive DEF MayWrite, Inv
<1>6. recorded' \subseteq Known(r)
  BY <1>1, <1>4, <1>5, PublishMovesByOne DEF Inv, TypeInv
<1> QED BY <1>1, <1>6

\* Only a run whose binary registers every recorded version changes them.
THEOREM WritersAreInformed ==
    ASSUME DeadlineIsShort
    PROVE  Spec => OnlyInformedRunsWrite
<1>1. DeadlineInv /\ [Next]_vars => [Informed]_vars
  BY StepIsInformed DEF DeadlineInv
<1>2. DeadlineInv /\ [Next]_vars => DeadlineInv'
  BY NextDeadlineInv
<1> QED BY <1>1, <1>2, InitDeadlineInv, PTL DEF Spec, OnlyInformedRunsWrite, Informed

-----------------------------------------------------------------------------
(* The refinement.                                                         *)

\* The run that may write is the one that is migrating.
LEMMA MigratingIs ==
    ASSUME Owned, NEW r \in Runs, MayWrite(r)
    PROVE  Migrating = r
BY OwnedIsExclusive DEF Migrating

LEMMA MigratingNone ==
    ASSUME \A r \in Runs : ~MayWrite(r)
    PROVE  Migrating = None
BY DEF Migrating

\* A run that migrates after a step migrated before it, unless it has just
\* taken the lease.
LEMMA EntersWithLease ==
    ASSUME Inv, [Next]_vars, NEW q \in Runs, MayWrite(q)', ~MayWrite(q)
    PROVE  AcquireLock(q)
<1>0. /\ pc \in [Runs -> PCs] /\ hb \in [Runs -> {"off", "on", "renewed", "cancelled"}]
      /\ ctxAge \in [Runs -> 0..CtxCap]
  BY DEF Inv, TypeInv, TypeOK
<1> USE DEF Goto
<1>1. CASE UNCHANGED vars
  BY <1>1 DEF MayWrite, MigCtxDone, CtxDone, vars, beat
<1>2. CASE Tick
  <2>1. /\ ctxAge'[q] >= ctxAge[q] /\ ctxAge[q] \in Nat /\ ctxAge'[q] \in Nat
        /\ CtxTimeout \in Nat /\ pc' = pc /\ hb' = hb
    BY <1>0, <1>2, MigratorAssumption DEF Tick, Older, CtxCap
  <2> QED BY <2>1 DEF MayWrite, MigCtxDone, CtxDone
<1>3. ASSUME NEW r \in Runs,
             \/ Begin(r) \/ Inspect(r) \/ Take(r) \/ Migrate(r) \/ Unlock(r)
             \/ Die(r) \/ Heartbeat(r)
      PROVE  AcquireLock(q)
  <2>1. CASE q # r
    <3>1. pc'[q] = pc[q] /\ ctxAge'[q] = ctxAge[q] /\ hb'[q] = hb[q]
      BY <1>0, <1>3, <2>1
      DEF Begin, Inspect, Take, EnsureTable, GiveUp, AcquireLock, AcquireMisses, BreakStaleLock,
          ReadLockOwner, ReclaimDeadLock, Migrate, ReadApplied, FinishLoop, ExecMigration,
          RecordVersion, IssueCommit, CommitLands, CommitErrs, StatementFails, Unlock,
          StopHeartbeat, ReleaseLock, Die, Crash, CrashCommitting, Settle, Heartbeat,
          RenewLock, RenewReturns,
          RenewFindsLost, RenewErrs, Abort, Forget, StopRenewing, beat, db
    <3> QED BY <3>1 DEF MayWrite, MigCtxDone, CtxDone
  <2>2. CASE q = r /\ ~AcquireLock(r)
    <3>1. CASE Migrate(r)
      BY <1>0, <2>2, <3>1
      DEF Migrate, ReadApplied, FinishLoop, ExecMigration, RecordVersion, IssueCommit,
          CommitLands, CommitErrs, StatementFails, Abort, MayWrite, MigCtxDone, CtxDone,
          Session, TxOpen, beat
    <3>2. CASE Heartbeat(r)
      BY <1>0, <2>2, <3>2
      DEF Heartbeat, RenewLock, RenewReturns, RenewFindsLost, RenewErrs, TickerFired,
          StopRenewing, MayWrite, MigCtxDone, CtxDone, loop, db
    <3>3. CASE Begin(r) \/ Inspect(r) \/ Take(r) \/ Unlock(r) \/ Die(r)
      BY <1>0, <2>2, <3>3
      DEF Begin, Inspect, Take, EnsureTable, GiveUp, AcquireMisses, BreakStaleLock, ReadLockOwner,
          ReclaimDeadLock, Unlock, StopHeartbeat, ReleaseLock, Die, Crash, CrashCommitting,
          Settle, MayWrite,
          Session, TxOpen
    <3> QED BY <1>3, <3>1, <3>2, <3>3
  <2> QED BY <2>1, <2>2
<1> QED BY <1>1, <1>2, <1>3 DEF Next, Steps

LEMMA MigratingPrimed ==
    ASSUME Owned'
    PROVE  /\ \A r \in Runs : MayWrite(r)' => Migrating' = r
           /\ (\A r \in Runs : ~MayWrite(r)') => Migrating' = None
BY DEF Migrating, Owned

LEMMA StepIsSerial ==
    ASSUME Inv, Inv', [Next]_vars
    PROVE  [Serial!Next]_<<Migrating, recorded>>
<1>1. CASE \E r \in Runs : MayWrite(r)
  <2>1. PICK r \in Runs : MayWrite(r)
    BY <1>1
  <2>2. Migrating = r /\ r # None
    BY <2>1, MigratingIs, MigratorAssumption DEF Inv
  <2>3. ASSUME NEW q \in Runs, MayWrite(q)' PROVE q = r
    <3>1. CASE MayWrite(q)
      BY <2>1, <3>1, OwnedIsExclusive DEF Inv
    <3>2. CASE ~MayWrite(q)
      <4>1. lock.by = None
        BY <2>3, <3>2, EntersWithLease DEF AcquireLock
      <4> QED BY <2>1, <2>2, <4>1 DEF Inv, Owned
    <3> QED BY <3>1, <3>2
  <2>4. Migrating' \in {r, None}
    BY <2>3, MigratingPrimed DEF Inv
  <2>5. CASE recorded' = recorded
    BY <2>2, <2>4, <2>5 DEF Serial!Next, Serial!Leave
  <2>6. CASE recorded' # recorded
    <3>1. ~(UNCHANGED vars) /\ ~Tick
      BY <2>6 DEF vars, db, Tick
    <3>2. PICK q \in Runs :
            Begin(q) \/ Inspect(q) \/ Take(q) \/ Migrate(q) \/ Unlock(q) \/ Die(q) \/ Heartbeat(q)
      BY <3>1 DEF Next, Steps
    <3>3. pc[q] \in {"committing", "orphaned"} /\ Publish(q)
      BY <2>6, <3>2, OnlyCommitsChange
    <3>4. q = r
      BY <2>1, <3>3, OwnedIsExclusive DEF MayWrite, Inv
    <3>5. todo[r] = Pending(r) /\ recorded \subseteq Known(r)
      BY <2>1, <3>3, <3>4 DEF Inv, PlanInv
    <3>6. \E k, j \in 0..TopVersion :
            recorded = 1..k /\ recorded' = 1..j /\ j \in {k - 1, k + 1}
      BY <3>3, <3>4, <3>5, PublishMovesByOne DEF Inv, TypeInv
    <3>7. Serial!Move(r)
      BY <2>2, <2>4, <3>6 DEF Serial!Move
    <3> QED BY <3>7 DEF Serial!Next
  <2> QED BY <2>5, <2>6
<1>2. CASE \A r \in Runs : ~MayWrite(r)
  <2>1. Migrating = None
    BY <1>2, MigratingNone
  <2>2. recorded' = recorded
    <3>1. CASE UNCHANGED vars \/ Tick
      BY <3>1 DEF vars, db, Tick
    <3>2. CASE Steps
      BY <1>2, <3>2, OnlyCommitsChange DEF Steps, MayWrite
    <3> QED BY <3>1, <3>2 DEF Next
  <2>3. CASE \E q \in Runs : MayWrite(q)'
    <3>1. PICK q \in Runs : Migrating' = q
      BY <2>3, MigratingPrimed DEF Inv
    <3> QED BY <2>1, <2>2, <3>1 DEF Serial!Next, Serial!Enter
  <2>4. CASE \A q \in Runs : ~MayWrite(q)'
    BY <2>1, <2>2, <2>4, MigratingPrimed DEF Inv
  <2> QED BY <2>3, <2>4
<1> QED BY <1>1, <1>2

LEMMA InitIsSerial == Init => Serial!Init
<1> SUFFICES ASSUME Init PROVE Serial!Init
  OBVIOUS
<1>1. \A r \in Runs : ~MayWrite(r)
  BY DEF Init, MayWrite, Session, TxOpen
<1> QED BY <1>1, MigratingNone DEF Init, Serial!Init

\* The migrator implements SerialMigrations, when deadlines are short.
THEOREM MigratorImplementsSerial ==
    ASSUME DeadlineIsShort
    PROVE  Spec => ImplementsSerial
<1>1. DeadlineInv /\ DeadlineInv' /\ [Next]_vars => [Serial!Next]_<<Migrating, recorded>>
  BY StepIsSerial DEF DeadlineInv
<1>2. DeadlineInv /\ [Next]_vars => DeadlineInv'
  BY NextDeadlineInv
<1> QED BY <1>1, <1>2, InitDeadlineInv, InitIsSerial, PTL DEF Spec, ImplementsSerial, Serial!Spec

-----------------------------------------------------------------------------
(* The heartbeat.                                                          *)

\* Callers may have no deadline at all if the heartbeat is as it is meant to
\* be: on PostgreSQL, where nothing keeps a renewal waiting, each is answered
\* before staleLockTimeout has passed since the ticker fired for the one
\* before it, with time left for the COMMIT of a process that dies, and none
\* fails.
HeartbeatIsPrompt ==
    /\ Dialect = "postgres"
    /\ ~HasDeadline
    /\ ~FaultyDb
    /\ TickCap + StmtDelay <= StaleTimeout

PromptNext == Steps \/ PromptTick

AtWork == Session \cup {"unlock"}

\* A run that has the lease keeps it, for the lease is no older than the
\* ticker says.
Renewing ==
    \A r \in Runs : pc[r] \in AtWork =>
        /\ lock.by = r
        /\ tables
        /\ hb[r] \in {"on", "renewed"}
        /\ hb[r] = "on" => lock.age <= tickAge[r]
        /\ hb[r] = "renewed" => lock.age + HeartbeatInterval <= tickAge[r]

\* A COMMIT that has outlived its process lands before the lease is stale.
OrphansLand ==
    \A r \in Runs :
        IF pc[r] = "orphaned"
          THEN /\ lock.by = r
               /\ tables
               /\ lock.age <= TickCap + ctxAge[r]
               /\ ctxAge[r] <= StmtDelay
          ELSE ctxAge[r] = 0

LEMMA RenewingIsOwned == Renewing /\ OrphansLand => Owned
BY DEF Renewing, OrphansLand, Owned, MayWrite, AtWork, Session, TxOpen

LEMMA RenewedIsFresh ==
    ASSUME HeartbeatIsPrompt, TypeOK, Renewing, NEW r \in Runs, pc[r] \in AtWork
    PROVE  ~LockIsStale
<1>1. /\ tickAge[r] \in 0..TickCap /\ lock.age \in Nat
      /\ TickCap \in Nat /\ HeartbeatInterval \in Nat /\ StaleTimeout \in Nat
  BY MigratorAssumption DEF TypeOK, TickCap
<1>2. lock.age <= tickAge[r]
  BY <1>1 DEF Renewing
<1>3. StmtDelay \in Nat
  BY MigratorAssumption
<1> QED BY <1>1, <1>2, <1>3 DEF LockIsStale, HeartbeatIsPrompt

LEMMA OrphansLeaseIsFresh ==
    ASSUME HeartbeatIsPrompt, TypeOK, OrphansLand, NEW r \in Runs, pc[r] = "orphaned"
    PROVE  ~LockIsStale
<1>1. /\ ctxAge[r] \in 0..CtxCap /\ CtxCap \in Nat /\ lock.age \in Nat
      /\ TickCap \in Nat /\ StmtDelay \in Nat /\ StaleTimeout \in Nat
  BY MigratorAssumption DEF TypeOK, CtxCap, TickCap
<1> QED BY <1>1 DEF OrphansLand, LockIsStale, HeartbeatIsPrompt

\* A step that leaves q's place and heartbeat alone, and does not touch the
\* lease while q has it, leaves q the lease.
LEMMA OthersRenew ==
    ASSUME Renewing, NEW q \in Runs, pc'[q] \in AtWork,
           pc'[q] = pc[q], hb'[q] = hb[q], tickAge'[q] = tickAge[q],
           pc[q] \in AtWork => lock' = lock /\ tables'
    PROVE  /\ lock'.by = q
           /\ tables'
           /\ hb'[q] \in {"on", "renewed"}
           /\ hb'[q] = "on" => lock'.age <= tickAge'[q]
           /\ hb'[q] = "renewed" => lock'.age + HeartbeatInterval <= tickAge'[q]
BY DEF Renewing

LEMMA TickKeepsRenewing ==
    ASSUME TypeOK, Renewing, PromptTick
    PROVE  Renewing'
<1> SUFFICES ASSUME NEW r \in Runs, pc'[r] \in AtWork
             PROVE  /\ lock'.by = r
                    /\ tables'
                    /\ hb'[r] \in {"on", "renewed"}
                    /\ hb'[r] = "on" => lock'.age <= tickAge'[r]
                    /\ hb'[r] = "renewed" => lock'.age + HeartbeatInterval <= tickAge'[r]
  BY DEF Renewing
<1>1. Tick /\ pc' = pc /\ hb' = hb /\ tables' = tables
  BY DEF PromptTick, Tick
<1>2. /\ lock.by = r /\ tables /\ hb[r] \in {"on", "renewed"}
      /\ hb[r] = "on" => lock.age <= tickAge[r]
      /\ hb[r] = "renewed" => lock.age + HeartbeatInterval <= tickAge[r]
  BY <1>1 DEF Renewing
<1>3. /\ tickAge[r] \in Nat /\ HeartbeatInterval \in Nat /\ StaleTimeout \in Nat
      /\ lock \in [by : Runs \cup {None}, age : 0..(StaleTimeout + 1)]
  BY MigratorAssumption DEF TypeOK, TickCap
<1>4. tickAge'[r] = tickAge[r] + 1
  BY <1>1, <1>2 DEF PromptTick, Tick, Older
<1>5. lock'.by = lock.by /\ lock'.age \in Nat /\ lock'.age <= lock.age + 1
  BY <1>1, <1>3 DEF Tick, Older
<1> QED BY <1>1, <1>2, <1>3, <1>4, <1>5

LEMMA StepKeepsRenewing ==
    ASSUME TypeInv, Renewing, HeartbeatIsPrompt, NEW r \in Runs,
           Begin(r) \/ Inspect(r) \/ Take(r) \/ Migrate(r) \/ Unlock(r) \/ Die(r) \/ Heartbeat(r)
    PROVE  Renewing'
<1>0. /\ pc \in [Runs -> PCs] /\ hb \in [Runs -> {"off", "on", "renewed", "cancelled"}]
      /\ tickAge \in [Runs -> 0..TickCap] /\ TickCap \in Nat /\ HeartbeatInterval \in Nat
      /\ lock \in [by : Runs \cup {None}, age : 0..(StaleTimeout + 1)]
      /\ tables \in BOOLEAN /\ None \notin Runs
  BY MigratorAssumption DEF TypeInv, TypeOK, TickCap
<1> SUFFICES ASSUME NEW q \in Runs, pc'[q] \in AtWork
             PROVE  /\ lock'.by = q
                    /\ tables'
                    /\ hb'[q] \in {"on", "renewed"}
                    /\ hb'[q] = "on" => lock'.age <= tickAge'[q]
                    /\ hb'[q] = "renewed" => lock'.age + HeartbeatInterval <= tickAge'[q]
  BY DEF Renewing
<1> USE DEF Goto
<1>1. CASE Begin(r)
  <2>1. q # r
    BY <1>0, <1>1 DEF Begin, AtWork, Session, TxOpen
  <2> QED BY <1>0, <1>1, <2>1, OthersRenew DEF Begin, db, beat, Renewing
<1>2. CASE EnsureTable(r) \/ Inspect(r) \/ GiveUp(r)
  <2>1. q # r
    BY <1>0, <1>2 DEF EnsureTable, Inspect, GiveUp, AtWork, Waiting, Session, TxOpen, Renewing
  <2>2. pc[q] \in AtWork => lock' = lock /\ tables'
    BY <1>2 DEF EnsureTable, Inspect, GiveUp, Ensured, db, Renewing
  <2> QED BY <1>0, <1>2, <2>1, <2>2, OthersRenew DEF EnsureTable, Inspect, GiveUp, Forget, beat
<1>3. CASE AcquireLock(r)
  <2>1. pc[q] \notin AtWork
    BY <1>0, <1>3 DEF AcquireLock, Renewing
  <2>2. CASE q = r
    <3>1. tables'
      BY <1>3 DEF AcquireLock, TypeInv, TablesExist, Waiting
    <3>2. lock' = HeldBy(q) /\ hb'[q] = "on" /\ tickAge'[q] = 0
      BY <1>0, <1>3, <2>2 DEF AcquireLock
    <3> QED BY <3>1, <3>2 DEF HeldBy
  <2>3. CASE q # r
    BY <1>0, <1>3, <2>1, <2>3 DEF AcquireLock
  <2> QED BY <2>2, <2>3
<1>4. CASE AcquireMisses(r) \/ BreakStaleLock(r) \/ ReadLockOwner(r) \/ ReclaimDeadLock(r)
  <2>1. q # r
    BY <1>0, <1>4
    DEF AcquireMisses, BreakStaleLock, ReadLockOwner, ReclaimDeadLock, AtWork, Session, TxOpen
  <2>2. pc[q] \in AtWork => ~LockIsStale
    BY RenewedIsFresh DEF TypeInv
  <2>3. pc[q] \in AtWork => lock' = lock /\ tables'
    BY <1>4, <2>2
    DEF AcquireMisses, BreakStaleLock, ReadLockOwner, ReclaimDeadLock, db, Renewing,
        HeartbeatIsPrompt
  <2> QED BY <1>0, <1>4, <2>1, <2>3, OthersRenew
      DEF AcquireMisses, BreakStaleLock, ReadLockOwner, ReclaimDeadLock, beat
<1>5. CASE Migrate(r)
  <2>1. lock' = lock /\ tables' = tables /\ hb' = hb /\ tickAge' = tickAge
    BY <1>5 DEF Migrate, ReadApplied, FinishLoop, ExecMigration, RecordVersion,
                IssueCommit, CommitLands, CommitErrs, StatementFails, db, beat
  <2>2. pc[q] \in AtWork
    BY <1>0, <1>5
    DEF Migrate, ReadApplied, FinishLoop, ExecMigration, RecordVersion, IssueCommit,
        CommitLands, CommitErrs, StatementFails, Abort, AtWork, Session, TxOpen
  <2> QED BY <2>1, <2>2 DEF Renewing
<1>6. CASE Unlock(r) \/ Die(r)
  <2>1. q # r
    BY <1>0, <1>6
    DEF Unlock, StopHeartbeat, ReleaseLock, Die, Crash, CrashCommitting, Settle, AtWork,
        Session, TxOpen
  <2>2. pc[q] \in AtWork => lock' = lock /\ tables'
    BY <1>6, <2>1
    DEF Unlock, StopHeartbeat, ReleaseLock, Die, Crash, CrashCommitting, Settle, Released, db,
        Renewing
  <2> QED BY <1>0, <1>6, <2>1, <2>2, OthersRenew
      DEF Unlock, StopHeartbeat, ReleaseLock, Die, Crash, CrashCommitting, Settle, Forget, beat
<1>7. CASE Heartbeat(r)
  <2>1. pc[q] \in AtWork
    BY <1>7 DEF Heartbeat, RenewLock, RenewReturns, RenewFindsLost, RenewErrs
  <2>2. /\ lock.by = q /\ tables /\ hb[q] \in {"on", "renewed"}
        /\ hb[q] = "on" => lock.age <= tickAge[q]
        /\ hb[q] = "renewed" => lock.age + HeartbeatInterval <= tickAge[q]
    BY <2>1 DEF Renewing
  <2>3. ~RenewErrs(r)
    BY DEF RenewErrs, PoolBusy, WriteLocked, HeartbeatIsPrompt
  <2>4. CASE q # r
    <3>1. ~RenewLock(r)
      BY <2>2, <2>4 DEF RenewLock
    <3> QED BY <1>0, <1>7, <2>1, <2>2, <2>3, <2>4, <3>1, OthersRenew
        DEF Heartbeat, RenewReturns, RenewFindsLost, StopRenewing, NextPeriod, db
  <2>5. CASE q = r /\ RenewLock(r)
    BY <1>0, <2>2, <2>5 DEF RenewLock, TickerFired, Renewed
  <2>6. CASE q = r /\ RenewReturns(r)
    <3>1. tickAge[q] \in Nat /\ lock.age \in Nat
      BY <1>0
    <3> QED BY <1>0, <2>2, <2>6, <3>1 DEF RenewReturns, NextPeriod, db
  <2>7. CASE q = r /\ RenewFindsLost(r)
    BY <2>2, <2>7 DEF RenewFindsLost
  <2> QED BY <1>7, <2>3, <2>4, <2>5, <2>6, <2>7 DEF Heartbeat
<1> QED BY <1>1, <1>2, <1>3, <1>4, <1>5, <1>6, <1>7 DEF Take

LEMMA TickKeepsOrphans ==
    ASSUME TypeOK, OrphansLand, HeartbeatIsPrompt, Tick
    PROVE  OrphansLand'
<1> SUFFICES ASSUME NEW r \in Runs
             PROVE  IF pc'[r] = "orphaned"
                      THEN /\ lock'.by = r
                           /\ tables'
                           /\ lock'.age <= TickCap + ctxAge'[r]
                           /\ ctxAge'[r] <= StmtDelay
                      ELSE ctxAge'[r] = 0
  BY DEF OrphansLand
<1>0. /\ ctxAge[r] \in Nat /\ StmtDelay \in Nat /\ CtxTimeout \in Nat
      /\ TickCap \in Nat /\ StaleTimeout \in Nat
      /\ lock \in [by : Runs \cup {None}, age : 0..(StaleTimeout + 1)]
  BY MigratorAssumption DEF TypeOK, CtxCap, TickCap
<1>1. /\ pc' = pc /\ tables' = tables
      /\ ctxAge'[r] = IF Timed(r) THEN Older(ctxAge[r], CtxCap) ELSE ctxAge[r]
  BY DEF Tick
<1>2. CASE pc[r] = "orphaned"
  <2>1. ctxAge[r] < StmtDelay
    BY <1>2 DEF Tick, CommitsLandInTime, Timed, LandsBy, HeartbeatIsPrompt
  <2>2. ctxAge'[r] = ctxAge[r] + 1
    BY <1>0, <1>1, <1>2, <2>1 DEF Timed, Older, CtxCap, HeartbeatIsPrompt
  <2>3. lock'.by = lock.by /\ lock'.age \in Nat /\ lock'.age <= lock.age + 1
    BY <1>0 DEF Tick, Older
  <2> QED BY <1>0, <1>1, <1>2, <2>1, <2>2, <2>3 DEF OrphansLand
<1>3. CASE pc[r] # "orphaned"
  BY <1>1, <1>3 DEF OrphansLand, Timed, HeartbeatIsPrompt
<1> QED BY <1>2, <1>3

LEMMA StepKeepsOrphans ==
    ASSUME TypeInv, Renewing, OrphansLand, HeartbeatIsPrompt, NEW r \in Runs,
           Begin(r) \/ Inspect(r) \/ Take(r) \/ Migrate(r) \/ Unlock(r) \/ Die(r) \/ Heartbeat(r)
    PROVE  OrphansLand'
<1>0. /\ pc \in [Runs -> PCs] /\ ctxAge \in [Runs -> 0..CtxCap]
      /\ tickAge \in [Runs -> 0..TickCap] /\ TickCap \in Nat /\ HeartbeatInterval \in Nat
      /\ StmtDelay \in Nat
      /\ lock \in [by : Runs \cup {None}, age : 0..(StaleTimeout + 1)]
      /\ tables \in BOOLEAN /\ None \notin Runs
  BY MigratorAssumption DEF TypeInv, TypeOK, TickCap
<1> SUFFICES ASSUME NEW q \in Runs
             PROVE  IF pc'[q] = "orphaned"
                      THEN /\ lock'.by = q
                           /\ tables'
                           /\ lock'.age <= TickCap + ctxAge'[q]
                           /\ ctxAge'[q] <= StmtDelay
                      ELSE ctxAge'[q] = 0
  BY DEF OrphansLand
<1> USE DEF Goto
<1>1. CASE pc'[q] # "orphaned"
  <2>1. ctxAge'[q] \in {ctxAge[q], 0}
    BY <1>0
    DEF Begin, Inspect, Take, EnsureTable, GiveUp, AcquireLock, AcquireMisses, BreakStaleLock,
        ReadLockOwner, ReclaimDeadLock, Migrate, ReadApplied, FinishLoop, ExecMigration,
        RecordVersion, IssueCommit, CommitLands, CommitErrs, StatementFails, Unlock,
        StopHeartbeat, ReleaseLock, Die, Crash, CrashCommitting, Settle, Heartbeat, RenewLock,
        RenewReturns, RenewFindsLost, RenewErrs, Forget
  <2>2. ASSUME pc[q] = "orphaned" PROVE q = r /\ Settle(r)
    <3>1. q = r
      BY <1>0, <1>1, <2>2
      DEF Begin, Inspect, Take, EnsureTable, GiveUp, AcquireLock, AcquireMisses, BreakStaleLock,
          ReadLockOwner, ReclaimDeadLock, Migrate, ReadApplied, FinishLoop, ExecMigration,
          RecordVersion, IssueCommit, CommitLands, CommitErrs, StatementFails, Abort, Unlock,
          StopHeartbeat, ReleaseLock, Die, Crash, CrashCommitting, Settle, Heartbeat, RenewLock,
          RenewReturns, RenewFindsLost, RenewErrs
    <3>2. Settle(r)
      BY <1>0, <1>1, <2>2, <3>1
      DEF Begin, Inspect, Take, EnsureTable, GiveUp, AcquireLock, AcquireMisses, BreakStaleLock,
          ReadLockOwner, ReclaimDeadLock, Migrate, ReadApplied, FinishLoop, ExecMigration,
          RecordVersion, IssueCommit, CommitLands, CommitErrs, StatementFails, Unlock,
          StopHeartbeat, ReleaseLock, Die, Crash, CrashCommitting, Heartbeat, RenewLock,
          RenewReturns, RenewFindsLost, RenewErrs, Waiting
    <3> QED BY <3>1, <3>2
  <2>3. Settle(r) => ctxAge'[r] = 0
    BY <1>0 DEF Settle, Forget
  <2> QED BY <1>1, <2>1, <2>2, <2>3 DEF OrphansLand
<1>2. CASE pc'[q] = "orphaned" /\ pc[q] = "orphaned"
  <2>1. /\ lock.by = q /\ tables
        /\ lock.age <= TickCap + ctxAge[q] /\ ctxAge[q] <= StmtDelay
    BY <1>2 DEF OrphansLand
  <2>2. ~LockIsStale
    BY <1>2, OrphansLeaseIsFresh DEF TypeInv
  <2>3. ctxAge'[q] = ctxAge[q]
    BY <1>0, <1>2
    DEF Begin, Inspect, Take, EnsureTable, GiveUp, AcquireLock, AcquireMisses, BreakStaleLock,
        ReadLockOwner, ReclaimDeadLock, Migrate, ReadApplied, FinishLoop, ExecMigration,
        RecordVersion, IssueCommit, CommitLands, CommitErrs, StatementFails, Unlock,
        StopHeartbeat, ReleaseLock, Die, Crash, CrashCommitting, Settle, Heartbeat, RenewLock,
        RenewReturns, RenewFindsLost, RenewErrs, Forget, Waiting
  <2>4. tables' /\ lock' \in {lock, Renewed}
    BY <1>0, <1>2, <2>1, <2>2
    DEF Begin, Inspect, Take, EnsureTable, Ensured, GiveUp, AcquireLock, AcquireMisses,
        BreakStaleLock, ReadLockOwner, ReclaimDeadLock, Migrate, ReadApplied, FinishLoop,
        ExecMigration, RecordVersion, IssueCommit, CommitLands, CommitErrs, StatementFails,
        Unlock, StopHeartbeat, ReleaseLock, Released, Die, Crash, CrashCommitting, Settle,
        Heartbeat, RenewLock, RenewReturns, RenewFindsLost, RenewErrs, db
  <2>5. lock'.by = q /\ lock'.age <= lock.age
    BY <1>0, <2>1, <2>4 DEF Renewed
  <2>6. lock'.age \in Nat /\ lock.age \in Nat /\ ctxAge[q] \in Nat
    BY <1>0, <2>4 DEF Renewed
  <2> QED BY <1>0, <1>2, <2>1, <2>3, <2>4, <2>5, <2>6
<1>3. CASE pc'[q] = "orphaned" /\ pc[q] # "orphaned"
  <2>1. CrashCommitting(q)
    BY <1>0, <1>3
    DEF Begin, Inspect, Take, EnsureTable, GiveUp, AcquireLock, AcquireMisses, BreakStaleLock,
        ReadLockOwner, ReclaimDeadLock, Migrate, ReadApplied, FinishLoop, ExecMigration,
        RecordVersion, IssueCommit, CommitLands, CommitErrs, StatementFails, Abort, Unlock,
        StopHeartbeat, ReleaseLock, Die, Crash, CrashCommitting, Settle, Heartbeat, RenewLock,
        RenewReturns, RenewFindsLost, RenewErrs
  <2>2. UNCHANGED <<lock, tables, ctxAge>> /\ pc[q] \in AtWork /\ ctxAge[q] = 0
    BY <1>3, <2>1 DEF CrashCommitting, OrphansLand, AtWork, Session, TxOpen, db
  <2>3. lock.by = q /\ tables /\ lock.age <= tickAge[q]
    <3>1. tickAge[q] \in Nat /\ lock.age \in Nat
      BY <1>0
    <3> QED BY <1>0, <2>2, <3>1 DEF Renewing
  <2>4. tickAge[q] \in 0..TickCap /\ lock.age \in Nat
    BY <1>0
  <2> QED BY <1>0, <1>3, <2>2, <2>3, <2>4
<1> QED BY <1>1, <1>2, <1>3

PromptInv == Inv /\ Renewing /\ OrphansLand

LEMMA InitPromptInv == Init => PromptInv
<1>1. Init => Renewing
  BY DEF Init, Renewing, AtWork, Session, TxOpen
<1>2. Init => OrphansLand
  BY DEF Init, OrphansLand
<1> QED BY <1>1, <1>2, InitInv DEF PromptInv

LEMMA NextPromptInv ==
    HeartbeatIsPrompt /\ PromptInv /\ [PromptNext]_vars => PromptInv' /\ [Next]_vars
<1> SUFFICES ASSUME HeartbeatIsPrompt, PromptInv, [PromptNext]_vars
             PROVE  PromptInv' /\ [Next]_vars
  OBVIOUS
<1>1. [Next]_vars
  BY DEF PromptNext, PromptTick, Next
<1>2. TypeInv'
  BY <1>1, NextTypeInv DEF PromptInv, Inv
<1>3. Renewing'
  <2>1. CASE UNCHANGED vars
    BY <2>1 DEF PromptInv, Renewing, vars, db, beat
  <2>2. CASE PromptTick
    BY <2>2, TickKeepsRenewing DEF PromptInv, Inv, TypeInv
  <2>3. CASE Steps
    BY <2>3, StepKeepsRenewing DEF Steps, PromptInv, Inv
  <2> QED BY <2>1, <2>2, <2>3 DEF PromptNext
<1>4. OrphansLand'
  <2>1. CASE UNCHANGED vars
    BY <2>1 DEF PromptInv, OrphansLand, vars, db
  <2>2. CASE PromptTick
    BY <2>2, TickKeepsOrphans DEF PromptTick, PromptInv, Inv, TypeInv
  <2>3. CASE Steps
    BY <2>3, StepKeepsOrphans DEF Steps, PromptInv, Inv
  <2> QED BY <2>1, <2>2, <2>3 DEF PromptNext
<1>5. Owned'
  BY <1>3, <1>4, RenewingIsOwned, PTL
<1>6. AppliedIsPrefix' /\ PlanInv'
  BY <1>1, NextKeepsPlan DEF PromptInv
<1> QED BY <1>1, <1>2, <1>3, <1>4, <1>5, <1>6 DEF PromptInv, Inv

\* With a prompt heartbeat a run owns the lease for as long as it can change
\* the database, however long its migrations take.
THEOREM HeartbeatKeepsLease ==
    ASSUME HeartbeatIsPrompt
    PROVE  PromptSpec => []ActiveRunOwnsLease
<1>1. PromptInv => ActiveRunOwnsLease
  BY DEF PromptInv, Inv, Owned, ActiveRunOwnsLease
<1>2. PromptInv /\ [PromptNext]_vars => PromptInv'
  BY NextPromptInv
<1> QED BY <1>1, <1>2, InitPromptInv, PTL DEF PromptSpec, PromptNext

\* So then, too, migrations come one at a time.
THEOREM HeartbeatImplementsSerial ==
    ASSUME HeartbeatIsPrompt
    PROVE  PromptSpec => ImplementsSerial
<1>1. PromptInv /\ PromptInv' /\ [PromptNext]_vars => [Serial!Next]_<<Migrating, recorded>>
  BY NextPromptInv, StepIsSerial DEF PromptInv
<1>2. PromptInv /\ [PromptNext]_vars => PromptInv'
  BY NextPromptInv
<1> QED BY <1>1, <1>2, InitPromptInv, InitIsSerial, PTL
    DEF PromptSpec, PromptNext, ImplementsSerial, Serial!Spec

-----------------------------------------------------------------------------
(* SQLite.                                                                 *)

\* Nobody takes the lease while somebody is between reading its owner and
\* clearing it (breakStaleLock).
NoneTakenMeanwhile ==
    \A r \in Runs : AcquireLock(r) => \A q \in Runs : pc[q] # "reclaim"

\* A run that has the lease keeps it, for only a dead owner's is cleared.
DeadOwners ==
    /\ \A r \in Runs : pc[r] # "orphaned"
    /\ \A r \in Runs : pc[r] \in Session => lock.by = r /\ tables
    /\ \A r \in Runs : pc[r] = "reclaim" /\ lock.by # None =>
          lock.by \in Runs /\ pc[lock.by] = "dead"

LEMMA DeadIsOwned == DeadOwners => Owned
BY DEF DeadOwners, Owned, MayWrite, Session, TxOpen

LEMMA StepKeepsDeadOwners ==
    ASSUME TypeInv, DeadOwners, Dialect = "sqlite", NoneTakenMeanwhile, NEW r \in Runs,
           Begin(r) \/ Inspect(r) \/ Take(r) \/ Migrate(r) \/ Unlock(r) \/ Die(r) \/ Heartbeat(r)
    PROVE  DeadOwners'
<1>0. /\ pc \in [Runs -> PCs]
      /\ lock \in [by : Runs \cup {None}, age : 0..(StaleTimeout + 1)]
      /\ tables \in BOOLEAN /\ None \notin Runs
  BY MigratorAssumption DEF TypeInv, TypeOK
<1> USE DEF Goto
\* Where the lease goes, and who may take it from whom.
<1>1. /\ tables => tables'
      /\ \/ lock'.by = lock.by
         \/ ~tables
         \/ AcquireLock(r)
         \/ pc[r] = "reclaim" /\ lock'.by = None
         \/ pc[r] = "release" /\ lock.by = r /\ lock'.by = None
  BY <1>0
  DEF Begin, Inspect, Ensured, Take, EnsureTable, GiveUp, AcquireLock, AcquireMisses,
      BreakStaleLock, ReadLockOwner, ReclaimDeadLock, Migrate, ReadApplied, FinishLoop,
      ExecMigration, RecordVersion, IssueCommit, CommitLands, CommitErrs, StatementFails,
      Unlock, StopHeartbeat, ReleaseLock, Released, Unlocked, Die, Crash, CrashCommitting,
      Settle, Heartbeat, RenewLock,
      Renewed, RenewReturns, RenewFindsLost, RenewErrs, db
<1>2. \A q \in Runs : q # r => pc'[q] = pc[q]
  BY <1>0
  DEF Begin, Inspect, Take, EnsureTable, GiveUp, AcquireLock, AcquireMisses, BreakStaleLock,
      ReadLockOwner, ReclaimDeadLock, Migrate, ReadApplied, FinishLoop, ExecMigration,
      RecordVersion, IssueCommit, CommitLands, CommitErrs, StatementFails, Abort, Unlock,
      StopHeartbeat, ReleaseLock, Die, Crash, CrashCommitting, Settle, Heartbeat, RenewLock,
      RenewReturns,
      RenewFindsLost, RenewErrs
<1>3. pc[r] = "dead" => pc' = pc
  BY DEF Begin, Inspect, Take, EnsureTable, GiveUp, AcquireLock, AcquireMisses, BreakStaleLock,
      ReadLockOwner, ReclaimDeadLock, Migrate, ReadApplied, FinishLoop, ExecMigration,
      RecordVersion, IssueCommit, CommitLands, CommitErrs, StatementFails, Abort, Unlock,
      StopHeartbeat, ReleaseLock, Die, Crash, CrashCommitting, Settle, Heartbeat, RenewLock,
      RenewReturns,
      RenewFindsLost, RenewErrs, Waiting
<1>4. pc'[r] \in Session => pc[r] \in Session \/ AcquireLock(r)
  BY <1>0
  DEF Begin, Inspect, Take, EnsureTable, GiveUp, AcquireMisses, BreakStaleLock,
      ReadLockOwner, ReclaimDeadLock, Migrate, ReadApplied, FinishLoop, ExecMigration,
      RecordVersion, IssueCommit, CommitLands, CommitErrs, StatementFails, Abort, Unlock,
      StopHeartbeat, ReleaseLock, Die, Crash, CrashCommitting, Settle, Heartbeat, RenewLock,
      RenewReturns,
      RenewFindsLost, RenewErrs, Session, TxOpen
<1>5. pc'[r] = "reclaim" => pc[r] = "reclaim" \/ ReadLockOwner(r)
  BY <1>0
  DEF Begin, Inspect, Take, EnsureTable, GiveUp, AcquireLock, AcquireMisses, BreakStaleLock,
      ReclaimDeadLock, Migrate, ReadApplied, FinishLoop, ExecMigration,
      RecordVersion, IssueCommit, CommitLands, CommitErrs, StatementFails, Abort, Unlock,
      StopHeartbeat, ReleaseLock, Die, Crash, CrashCommitting, Settle, Heartbeat, RenewLock,
      RenewReturns,
      RenewFindsLost, RenewErrs
<1>6. ASSUME NEW q \in Runs, pc'[q] \in Session
      PROVE  lock'.by = q /\ tables'
  <2>1. CASE pc[q] \in Session
    <3>1. lock.by = q /\ tables
      BY <2>1 DEF DeadOwners
    <3>2. pc[q] \notin {"dead", "acquire", "reclaim", "release"}
      BY <2>1 DEF Session, TxOpen
    <3>3. ~AcquireLock(r)
      BY <1>0, <3>1 DEF AcquireLock
    <3>4. pc[r] # "reclaim"
      BY <1>0, <3>1, <3>2 DEF DeadOwners
    <3> QED BY <1>1, <3>1, <3>2, <3>3, <3>4
  <2>2. CASE pc[q] \notin Session
    <3>1. q = r /\ AcquireLock(r)
      BY <1>2, <1>4, <1>6, <2>2
    <3>2. tables /\ lock'.by = r
      BY <3>1 DEF AcquireLock, HeldBy, TypeInv, TablesExist, Waiting
    <3> QED BY <1>1, <3>1, <3>2
  <2> QED BY <2>1, <2>2
<1>7. ASSUME NEW q \in Runs, pc'[q] = "reclaim", lock'.by # None
      PROVE  lock'.by \in Runs /\ pc'[lock'.by] = "dead"
  <2>1. CASE pc[q] = "reclaim"
    <3>1. tables
      BY <2>1 DEF TypeInv, TablesExist, Waiting
    <3>2. ~AcquireLock(r)
      BY <2>1 DEF NoneTakenMeanwhile
    <3>3. lock'.by = lock.by
      BY <1>1, <1>7, <3>1, <3>2
    <3>4. lock.by \in Runs /\ pc[lock.by] = "dead"
      BY <1>7, <2>1, <3>3 DEF DeadOwners
    <3> QED BY <1>2, <1>3, <3>3, <3>4
  <2>2. CASE pc[q] # "reclaim"
    <3>1. q = r /\ ReadLockOwner(r)
      BY <1>2, <1>5, <1>7, <2>2
    <3>2. /\ lock' = lock /\ lock.by # None /\ pc[lock.by] = "dead" /\ pc[r] = "break"
      BY <1>0, <1>7, <3>1 DEF ReadLockOwner, LooksDead, db
    <3>3. lock.by \in Runs /\ lock.by # r
      BY <1>0, <3>2
    <3> QED BY <1>2, <3>2, <3>3
  <2> QED BY <2>1, <2>2
<1>8. \A q \in Runs : pc'[q] # "orphaned"
  BY <1>0
  DEF DeadOwners, Begin, Inspect, Take, EnsureTable, GiveUp, AcquireLock, AcquireMisses,
      BreakStaleLock, ReadLockOwner, ReclaimDeadLock, Migrate, ReadApplied, FinishLoop,
      ExecMigration, RecordVersion, IssueCommit, CommitLands, CommitErrs, StatementFails,
      Abort, Unlock, StopHeartbeat, ReleaseLock, Die, Crash, CrashCommitting, Settle,
      Heartbeat, RenewLock, RenewReturns, RenewFindsLost, RenewErrs
<1> QED BY <1>6, <1>7, <1>8 DEF DeadOwners

SqliteInv == Inv /\ DeadOwners

LEMMA InitSqliteInv == Init => SqliteInv
<1>1. Init => DeadOwners
  BY DEF Init, DeadOwners, Session, TxOpen
<1> QED BY <1>1, InitInv DEF SqliteInv

LEMMA NextSqliteInv ==
    Dialect = "sqlite" /\ SqliteInv /\ [Next]_vars /\ [NoneTakenMeanwhile]_vars => SqliteInv'
<1> SUFFICES ASSUME Dialect = "sqlite", SqliteInv, [Next]_vars, [NoneTakenMeanwhile]_vars
             PROVE  SqliteInv'
  OBVIOUS
<1>1. TypeInv'
  BY NextTypeInv DEF SqliteInv, Inv
<1>2. DeadOwners'
  <2>1. CASE UNCHANGED vars
    BY <2>1 DEF SqliteInv, DeadOwners, vars, db
  <2>2. CASE Tick
    <3>1. lock'.by = lock.by /\ pc' = pc /\ tables' = tables
      BY <2>2 DEF Tick, SqliteInv, Inv, TypeInv, TypeOK
    <3> QED BY <3>1 DEF SqliteInv, DeadOwners
  <2>3. CASE Steps /\ ~UNCHANGED vars
    BY <2>3, StepKeepsDeadOwners DEF Steps, SqliteInv, Inv
  <2> QED BY <2>1, <2>2, <2>3 DEF Next
<1>3. Owned'
  BY <1>2, DeadIsOwned, PTL
<1>4. AppliedIsPrefix' /\ PlanInv'
  BY NextKeepsPlan DEF SqliteInv
<1> QED BY <1>1, <1>2, <1>3, <1>4 DEF SqliteInv, Inv

\* On SQLite, whatever the deadlines, the faults and the renewals, a run loses
\* its lease only by one being taken while another run is about to clear it:
\* no other order of steps breaks what breakStaleLock promises.
THEOREM ReclaimRaceIsAll ==
    ASSUME Dialect = "sqlite"
    PROVE  Spec /\ [][NoneTakenMeanwhile]_vars => []ActiveRunOwnsLease
<1>1. SqliteInv => ActiveRunOwnsLease
  BY DEF SqliteInv, Inv, Owned, ActiveRunOwnsLease
<1>2. SqliteInv /\ [Next]_vars /\ [NoneTakenMeanwhile]_vars => SqliteInv'
  BY NextSqliteInv
<1> QED BY <1>1, <1>2, InitSqliteInv, PTL DEF Spec

\* Without that race migrations come one at a time on SQLite, too.
THEOREM SqliteImplementsSerial ==
    ASSUME Dialect = "sqlite"
    PROVE  Spec /\ [][NoneTakenMeanwhile]_vars => ImplementsSerial
<1>1. SqliteInv /\ SqliteInv' /\ [Next]_vars => [Serial!Next]_<<Migrating, recorded>>
  BY StepIsSerial DEF SqliteInv
<1>2. SqliteInv /\ [Next]_vars /\ [NoneTakenMeanwhile]_vars => SqliteInv'
  BY NextSqliteInv
<1> QED BY <1>1, <1>2, InitSqliteInv, InitIsSerial, PTL
    DEF Spec, ImplementsSerial, Serial!Spec

-----------------------------------------------------------------------------
(* The files of LoadMigrations: its loop.                                  *)

\* Induction, by the least counterexample.
LEMMA LeastNat ==
    ASSUME NEW T \in SUBSET Nat, T # {}
    PROVE  \E n \in T : \A m \in T : n <= m
<1> DEFINE R == OpToRel(<, Nat)
<1>1. IsWellFoundedOn(R, Nat)
    BY NatLessThanWellFounded
<1>2. \E n \in T : \A m \in T : <<m, n>> \notin R
    BY <1>1, WFMin
<1>3. \A n, m \in Nat : m < n => <<m, n>> \in R
    BY DEF OpToRel
<1> HIDE DEF R
<1>4. PICK n \in T : \A m \in T : <<m, n>> \notin R
    BY <1>2
<1>5. \A m \in T : ~(m < n)
    BY <1>3, <1>4
<1>6. \A m \in T : n <= m
    BY <1>5
<1> QED
    BY <1>6

Greatest(s) == CHOOSE x \in s : \A y \in s : x >= y

LEMMA GreatestIs ==
    ASSUME NEW n \in Nat, NEW s \in SUBSET (1..n), s # {}
    PROVE  Greatest(s) \in s /\ \A y \in s : Greatest(s) >= y
<1> DEFINE T == {n - x : x \in s}
<1>1. T \in SUBSET Nat /\ T # {}
  <2>1. \A x \in s : n - x \in Nat
    OBVIOUS
  <2>2. PICK x \in s : TRUE
    OBVIOUS
  <2> QED
    BY <2>1, <2>2
<1>2. PICK m \in T : \A k \in T : m <= k
    <2> HIDE DEF T
    <2> QED
      BY <1>1, LeastNat
<1>3. PICK x \in s : m = n - x
    BY <1>2
<1>4. \A y \in s : n - x <= n - y
    BY <1>2, <1>3
<1>5. \A y \in s : x >= y
    BY <1>4
<1> QED
    BY <1>5 DEF Greatest

\* What the loop has for each set of files: the last of them read last.
ReadOn(f, files, D) ==
    f = [s \in D |-> IF s = {} THEN Nothing
                     ELSE Read(f[s \ {Greatest(s)}], files[Greatest(s)])]

LEMMA ReadGrows ==
    ASSUME NEW files, NEW D, NEW E, D \subseteq E,
           \A s \in E : s # {} => s \ {Greatest(s)} \in D,
           NEW f, ReadOn(f, files, D)
    PROVE  \E g : ReadOn(g, files, E)
<1> DEFINE Reads(h, s) == IF s = {} THEN Nothing
                          ELSE Read(h[s \ {Greatest(s)}], files[Greatest(s)])
           g == [s \in E |-> Reads(f, s)]
<1>1. \A s \in D : f[s] = Reads(f, s)
    BY DEF ReadOn
<1>2. \A s \in E : g[s] = Reads(f, s)
    OBVIOUS
<1>3. \A s \in D : g[s] = f[s]
  <2> HIDE DEF g, Reads
  <2> QED
    BY <1>1, <1>2
<1>4. \A s \in E : s # {} => g[s \ {Greatest(s)}] = f[s \ {Greatest(s)}]
  <2> HIDE DEF g
  <2> QED
    BY <1>3
<1>5. g = [s \in E |-> Reads(g, s)]
  <2> DEFINE h == [s \in E |-> Reads(g, s)]
  <2> HIDE DEF g
  <2>1. \A s \in E : g[s] = h[s]
    BY <1>2, <1>4
  <2> QED
    BY <2>1 DEF g
<1> QED
    BY <1>5 DEF ReadOn

\* FoldLeft's recursive function exists.
LEMMA ReadExists ==
    ASSUME NEW files, NEW n \in Nat
    PROVE  \E f : ReadOn(f, files, SUBSET (1..n))
<1> DEFINE Bad == {k \in Nat : ~ \E f : ReadOn(f, files, SUBSET (1..k))}
<1>1. Bad = {}
  <2> SUFFICES ASSUME Bad # {} PROVE FALSE
    OBVIOUS
  <2>1. PICK k \in Bad : \A m \in Bad : k <= m
    BY LeastNat
  <2>2. k \in Nat /\ ~ \E f : ReadOn(f, files, SUBSET (1..k))
    BY <2>1
  <2>3. CASE k = 0
    <3>1. \A s \in SUBSET (1..0) : s = {}
      OBVIOUS
    <3> DEFINE g == [s \in SUBSET (1..0) |-> Nothing]
    <3>2. ReadOn(g, files, SUBSET (1..0))
      BY <3>1 DEF ReadOn
    <3> QED
      BY <2>2, <2>3, <3>2
  <2>4. CASE k # 0
    <3> DEFINE j == k - 1
    <3>1. j \in Nat /\ j < k
      BY <2>2, <2>4
    <3>2. j \notin Bad
      <4> HIDE DEF Bad, j
      <4>1. j \in Bad => k <= j
        BY <2>1
      <4> QED
        BY <2>2, <3>1, <4>1
    <3>3. PICK f : ReadOn(f, files, SUBSET (1..j))
      BY <3>1, <3>2
    <3>4. SUBSET (1..j) \subseteq SUBSET (1..k)
      BY <2>2, <3>1
    <3>5. ASSUME NEW s \in SUBSET (1..k), s # {}
          PROVE  s \ {Greatest(s)} \in SUBSET (1..j)
      <4>1. Greatest(s) \in s /\ \A y \in s : Greatest(s) >= y
        BY <2>2, <3>5, GreatestIs
      <4> DEFINE x == Greatest(s)
      <4> HIDE DEF x
      <4>2. x \in s /\ \A y \in s : x >= y
        BY <4>1 DEF x
      <4>3. ASSUME NEW y \in s \ {x} PROVE y \in 1..(k - 1)
        BY <2>2, <4>2
      <4> QED
        BY <4>3 DEF x
    <3> HIDE DEF j
    <3> QED
      BY <2>2, <3>3, <3>4, <3>5, ReadGrows
  <2> QED
    BY <2>3, <2>4
<1> QED
    BY <1>1

\* So the loop reads one file after the other.
LEMMA LoopIs ==
    ASSUME NEW files \in Seq(Files)
    PROVE  \E at : /\ at[0] = Nothing
                   /\ \A k \in 1..Len(files) : at[k] = Read(at[k - 1], files[k])
                   /\ FoldLeft(Read, Nothing, files) = at[Len(files)]
<1> DEFINE n == Len(files)
           f == CHOOSE f : ReadOn(f, files, SUBSET (1..n))
           at == [k \in 0..n |-> f[1..k]]
<1>1. n \in Nat /\ DOMAIN files = 1..n
    OBVIOUS
<1>2. ReadOn(f, files, SUBSET (1..n))
    BY <1>1, ReadExists
<1>3. FoldLeft(Read, Nothing, files) = f[DOMAIN files]
    BY <1>1 DEF FoldLeft, MapThenFoldSet, Max, ReadOn, Greatest
<1> HIDE DEF f, n
<1>4. at[n] = f[DOMAIN files]
    BY <1>1
<1>5. at[0] = Nothing
  <2>1. 1..0 = {} /\ {} \in SUBSET (1..n) /\ at[0] = f[1..0]
    BY <1>1
  <2> QED
    BY <1>2, <2>1 DEF ReadOn
<1>6. ASSUME NEW k \in 1..n PROVE at[k] = Read(at[k - 1], files[k])
  <2> DEFINE s == 1..k
  <2>1. s \in SUBSET (1..n) /\ s # {} /\ k \in s /\ \A y \in s : k >= y
    BY <1>1
  <2>2. Greatest(s) = k
    <3>1. Greatest(s) \in s /\ \A y \in s : Greatest(s) >= y
      BY <1>1, <2>1, GreatestIs
    <3>2. s \subseteq Int
      OBVIOUS
    <3> DEFINE x == Greatest(s)
    <3>3. x \in s /\ x >= k
      BY <2>1, <3>1
    <3>4. k >= x
      BY <2>1, <3>3
    <3> HIDE DEF s, x
    <3>5. x = k
      BY <2>1, <3>2, <3>3, <3>4
    <3> QED
      BY <3>5 DEF x
  <2>3. s \ {k} = 1..(k - 1) /\ k - 1 \in 0..n /\ k \in 0..n
    BY <1>1
  <2>4. f[s] = Read(f[s \ {k}], files[k])
    <3> HIDE DEF s
    <3> QED
      BY <1>2, <2>1, <2>2 DEF ReadOn
  <2> QED
    BY <2>3, <2>4
<1> HIDE DEF at
<1> QED
    BY <1>3, <1>4, <1>5, <1>6 DEF n

\* The migration a file is part of, and the file's text put into it.
Entries == [name : FileNames, up : Texts, down : Texts]

EntryOf(l, f) ==
    IF f.version \in DOMAIN l.migs THEN l.migs[f.version]
    ELSE [name |-> f.name, up |-> "", down |-> ""]

Put(m, f) == [m EXCEPT ![f.kind] = f.text]

Refused(l, f) ==
    \/ l.failed
    \/ f.kind = "neither"
    \/ f.version <= 0
    \/ EntryOf(l, f).name # f.name
    \/ EntryOf(l, f)[f.kind] # ""

LEMMA RoundIs ==
    ASSUME NEW l, NEW f
    PROVE  Read(l, f) =
             IF Refused(l, f) THEN [l EXCEPT !.failed = TRUE]
             ELSE [l EXCEPT !.migs = [v \in DOMAIN l.migs \cup {f.version} |->
                                        IF v = f.version THEN Put(EntryOf(l, f), f) ELSE l.migs[v]]]
  BY DEF Read, Refused, EntryOf, Put, Duplicate

LEMMA PutIs ==
    ASSUME NEW m \in Entries, NEW f \in Files, f.kind # "neither"
    PROVE  /\ Put(m, f) \in Entries
           /\ Put(m, f).name = m.name
           /\ Put(m, f)[f.kind] = f.text
           /\ \A d \in {"up", "down"} : d # f.kind => Put(m, f)[d] = m[d]
<1>1. f.kind \in {"up", "down"} /\ f.text \in Texts
    BY DEF Files
<1>2. CASE f.kind = "up"
    BY <1>1, <1>2 DEF Entries, Put
<1>3. CASE f.kind = "down"
    BY <1>1, <1>3 DEF Entries, Put
<1> QED
    BY <1>1, <1>2, <1>3

\* What the loop knows after k files: the maps hold their versions, names and
\* texts, and nothing else; and it has no reason to fail if there is none.
Shaped(l) == l = [failed |-> l.failed, migs |-> l.migs] /\ l.failed \in BOOLEAN

Mapped(l, files, k) == l.migs \in [{files[i].version : i \in 1..k} -> Entries]

Held(l, f) ==
    /\ f.kind # "neither"
    /\ f.version \in DOMAIN l.migs
    /\ l.migs[f.version].name = f.name
    /\ f.text # "" => l.migs[f.version][f.kind] = f.text

HasText(l, v, d) == l.migs[v][d] # ""

IsRead(files, k, v, d) == \E i \in 1..k : files[i].version = v /\ files[i].kind = d

Sourced(l, files, k) ==
    \A v \in DOMAIN l.migs : \A d \in {"up", "down"} : HasText(l, v, d) => IsRead(files, k, v, d)

Whole(l, files, k) ==
    /\ Shaped(l)
    /\ ~l.failed => /\ Mapped(l, files, k)
                    /\ \A i \in 1..k : Held(l, files[i])
                    /\ Sourced(l, files, k)
    /\ InOrder(files) => ~l.failed

LEMMA RoundKeepsWhole ==
    ASSUME NEW files \in Seq(Files), NEW k \in 1..Len(files),
           NEW l, Whole(l, files, k - 1)
    PROVE  Whole(Read(l, files[k]), files, k)
<1> DEFINE f == files[k]
           r == Read(l, f)
           e == EntryOf(l, f)
           j == k - 1
<1>1. f \in Files /\ k \in Nat /\ DOMAIN files = 1..Len(files)
    OBVIOUS
<1>2. j \in Nat /\ 1..k = (1..j) \cup {k} /\ 1..j \subseteq 1..k /\ k \notin 1..j
      /\ 1..k \subseteq DOMAIN files
    BY <1>1
<1>3. Whole(l, files, j)
    OBVIOUS
<1>4. r = IF Refused(l, f) THEN [l EXCEPT !.failed = TRUE]
          ELSE [l EXCEPT !.migs = [v \in DOMAIN l.migs \cup {f.version} |->
                                     IF v = f.version THEN Put(e, f) ELSE l.migs[v]]]
    BY RoundIs
<1>5. f = files[k]
    OBVIOUS
<1> HIDE DEF j, r, f, e
<1>6. ASSUME ~l.failed PROVE e \in Entries
  <2>1. CASE f.version \in DOMAIN l.migs
    BY <1>3, <1>6, <2>1 DEF Whole, Mapped, EntryOf, e
  <2>2. CASE f.version \notin DOMAIN l.migs
    BY <1>1, <2>2 DEF Files, Entries, Texts, EntryOf, e
  <2> QED
    BY <2>1, <2>2
<1>7. ASSUME InOrder(files) PROVE ~Refused(l, f)
  <2>1. ~l.failed /\ f.kind # "neither" /\ ~(f.version <= 0)
    <3>1. f.kind # "neither" /\ f.version > 0 /\ f.version \in Int
      BY <1>1, <1>2, <1>5, <1>7, MigrationFilesAssumption DEF InOrder, Files
    <3> QED
      BY <1>3, <1>7, <3>1 DEF Whole
  <2>2. f.kind \in {"up", "down"}
    BY <1>1, <2>1 DEF Files
  <2>3. CASE f.version \in DOMAIN l.migs
    <3>1. PICK i \in 1..j : files[i].version = f.version
      BY <1>3, <2>1, <2>3 DEF Whole, Mapped
    <3>2. e = l.migs[f.version]
      BY <2>3 DEF EntryOf, e
    <3>3. e.name = f.name
      <4>1. Held(l, files[i])
        BY <1>3, <2>1 DEF Whole
      <4>2. files[i].name = f.name
        BY <1>2, <1>5, <1>7, <3>1 DEF InOrder
      <4> QED
        BY <3>1, <3>2, <4>1, <4>2 DEF Held
    <3>4. e[f.kind] = ""
      <4> SUFFICES ASSUME e[f.kind] # "" PROVE FALSE
        OBVIOUS
      <4>0. Sourced(l, files, j)
        BY <1>3, <2>1 DEF Whole
      <4>1. PICK h \in 1..j : files[h].version = f.version /\ files[h].kind = f.kind
        <5>1. HasText(l, f.version, f.kind)
          BY <3>2 DEF HasText
        <5>2. IsRead(files, j, f.version, f.kind)
          BY <2>2, <2>3, <4>0, <5>1 DEF Sourced
        <5> QED
          BY <5>2 DEF IsRead
      <4>2. h # k /\ h \in DOMAIN files /\ k \in DOMAIN files
        BY <1>2
      <4> QED
        BY <1>5, <1>7, <4>1, <4>2 DEF InOrder
    <3> QED
      BY <2>1, <3>3, <3>4 DEF Refused, e
  <2>4. CASE f.version \notin DOMAIN l.migs
    <3>1. e = [name |-> f.name, up |-> "", down |-> ""]
      BY <2>4 DEF EntryOf, e
    <3>2. e.name = f.name /\ e["up"] = "" /\ e["down"] = ""
      BY <3>1
    <3>3. e[f.kind] = ""
      BY <2>2, <3>2
    <3> QED
      BY <2>1, <3>2, <3>3 DEF Refused, e
  <2> QED
    BY <2>3, <2>4
<1>8. CASE Refused(l, f)
  <2>1. r = [l EXCEPT !.failed = TRUE] /\ ~InOrder(files)
    BY <1>4, <1>7, <1>8
  <2>2. l = [failed |-> l.failed, migs |-> l.migs]
    BY <1>3 DEF Whole, Shaped
  <2>3. r = [failed |-> TRUE, migs |-> l.migs]
    BY <2>1, <2>2
  <2> QED
    BY <2>1, <2>3 DEF Whole, Shaped, r, f
<1>9. CASE ~Refused(l, f)
  <2>1. ~l.failed /\ f.kind # "neither" /\ e.name = f.name /\ e[f.kind] = ""
    BY <1>9 DEF Refused, e
  <2>2. /\ e \in Entries /\ f.kind \in {"up", "down"}
        /\ Put(e, f) \in Entries /\ Put(e, f).name = f.name /\ Put(e, f)[f.kind] = f.text
        /\ \A d \in {"up", "down"} : d # f.kind => Put(e, f)[d] = e[d]
    <3>1. e \in Entries
      BY <1>6, <2>1
    <3> QED
      BY <1>1, <2>1, <3>1, PutIs DEF Files
  <2> DEFINE p == Put(e, f)
             M == [v \in DOMAIN l.migs \cup {f.version} |-> IF v = f.version THEN p ELSE l.migs[v]]
  <2>3. r = [l EXCEPT !.migs = M]
    BY <1>4, <1>9
  <2> HIDE DEF p, M
  <2>4. r = [failed |-> FALSE, migs |-> M]
    <3>1. l = [failed |-> l.failed, migs |-> l.migs] /\ l.failed = FALSE
      BY <1>3, <2>1 DEF Whole, Shaped
    <3> QED
      BY <2>3, <3>1
  <2>5. /\ DOMAIN M = DOMAIN l.migs \cup {f.version} /\ M[f.version] = p
        /\ \A v \in DOMAIN l.migs : v # f.version => M[v] = l.migs[v]
    BY DEF M
  <2>6. l.migs \in [{files[i].version : i \in 1..j} -> Entries]
    BY <1>3, <2>1 DEF Whole, Mapped
  <2>7. Mapped(r, files, k)
    <3>1. DOMAIN M = {files[i].version : i \in 1..k}
      BY <1>2, <1>5, <2>5, <2>6
    <3>2. \A v \in DOMAIN M : M[v] \in Entries
      BY <2>2, <2>5, <2>6 DEF p
    <3>3. M = [v \in DOMAIN M |-> M[v]]
      BY DEF M
    <3> HIDE DEF M
    <3> QED
      BY <2>4, <3>1, <3>2, <3>3 DEF Mapped
  <2>8. ASSUME NEW i \in 1..k PROVE Held(r, files[i])
    <3>1. CASE i = k
      BY <1>5, <2>1, <2>2, <2>4, <2>5, <3>1 DEF Held, p
    <3>2. CASE i # k
      <4> DEFINE g == files[i]
      <4>1. Held(l, g) /\ g \in Files
        <5>1. i \in 1..j /\ i \in DOMAIN files
          BY <1>2, <3>2
        <5>2. files[i] \in Files
          BY <5>1
        <5> QED
          BY <1>3, <2>1, <5>1, <5>2 DEF Whole
      <4> SUFFICES Held(r, g)
        OBVIOUS
      <4> HIDE DEF g
      <4>2. CASE g.version # f.version
        BY <2>4, <2>5, <4>1, <4>2 DEF Held
      <4>3. CASE g.version = f.version
        <5>1. e = l.migs[g.version]
          BY <4>1, <4>3 DEF EntryOf, Held, e
        <5>2. g.kind \in {"up", "down"} /\ g.text \in Texts
          BY <4>1 DEF Held, Files
        <5>3. p.name = g.name
          BY <2>1, <2>2, <4>1, <5>1 DEF Held, p
        <5>4. g.text # "" => p[g.kind] = g.text
          BY <2>1, <2>2, <4>1, <5>1, <5>2 DEF Held, p
        <5> QED
          BY <2>4, <2>5, <4>1, <4>3, <5>3, <5>4 DEF Held
      <4> QED
        BY <4>2, <4>3
    <3> QED
      BY <3>1, <3>2
  <2>9. Sourced(r, files, k)
    <3>1. ASSUME NEW v \in DOMAIN M, NEW d \in {"up", "down"}, M[v][d] # ""
          PROVE  IsRead(files, k, v, d)
      <4>1. CASE v \in DOMAIN l.migs /\ HasText(l, v, d)
        <5>1. IsRead(files, j, v, d)
          BY <1>3, <2>1, <4>1 DEF Whole, Sourced
        <5> QED
          BY <1>2, <5>1 DEF IsRead
      <4>2. CASE v = f.version /\ d = f.kind
        BY <1>2, <1>5, <4>2 DEF IsRead
      <4>3. CASE v = f.version /\ d # f.kind
        <5>1. M[v][d] = e[d]
          BY <2>2, <2>5, <4>3 DEF p
        <5>2. CASE v \in DOMAIN l.migs
          <6>1. e = l.migs[v]
            BY <4>3, <5>2 DEF EntryOf, e
          <6>2. HasText(l, v, d)
            BY <3>1, <5>1, <6>1 DEF HasText
          <6> QED
            BY <4>1, <5>2, <6>2
        <5>3. CASE v \notin DOMAIN l.migs
          <6>1. e = [name |-> f.name, up |-> "", down |-> ""]
            BY <4>3, <5>3 DEF EntryOf, e
          <6>2. e["up"] = "" /\ e["down"] = ""
            BY <6>1
          <6>3. e[d] = ""
            BY <6>2
          <6> QED
            BY <3>1, <5>1, <6>3
        <5> QED
          BY <5>2, <5>3
      <4>4. CASE v # f.version
        <5>1. v \in DOMAIN l.migs /\ M[v] = l.migs[v]
          BY <2>5, <4>4
        <5>2. HasText(l, v, d)
          BY <3>1, <5>1 DEF HasText
        <5> QED
          BY <4>1, <5>1, <5>2
      <4> QED
        BY <4>2, <4>3, <4>4
    <3>2. r.migs = M
      BY <2>4
    <3>3. ASSUME NEW v \in DOMAIN r.migs, NEW d \in {"up", "down"}, HasText(r, v, d)
          PROVE  IsRead(files, k, v, d)
      <4>1. v \in DOMAIN M /\ M[v][d] # ""
        BY <3>2, <3>3 DEF HasText
      <4> QED
        BY <3>1, <4>1
    <3> QED
      BY <3>3 DEF Sourced
  <2>10. Shaped(r) /\ ~r.failed
    BY <2>4 DEF Shaped
  <2> QED
    BY <2>7, <2>8, <2>9, <2>10 DEF Whole, r, f
<1> QED
    BY <1>8, <1>9

\* So it is with all files read.
LEMMA LoopIsWhole ==
    ASSUME NEW files \in Seq(Files)
    PROVE  Whole(FoldLeft(Read, Nothing, files), files, Len(files))
<1> DEFINE n == Len(files)
<1>1. PICK at : /\ at[0] = Nothing
                /\ \A k \in 1..n : at[k] = Read(at[k - 1], files[k])
                /\ FoldLeft(Read, Nothing, files) = at[n]
    BY LoopIs
<1> DEFINE Bad == {k \in 0..n : ~Whole(at[k], files, k)}
<1>2. n \in Nat
    OBVIOUS
<1>3. Bad = {}
  <2> SUFFICES ASSUME Bad # {} PROVE FALSE
    OBVIOUS
  <2>1. PICK k \in Bad : \A m \in Bad : k <= m
    <3>1. Bad \subseteq Nat
      BY <1>2
    <3> HIDE DEF Bad
    <3> QED
      BY <3>1, LeastNat
  <2>2. k \in 0..n /\ ~Whole(at[k], files, k)
    BY <2>1
  <2>3. CASE k = 0
    <3>1. at[0] = [failed |-> FALSE, migs |-> << >>]
      BY <1>1 DEF Nothing
    <3>2. {files[i].version : i \in 1..0} = {}
      OBVIOUS
    <3>3. << >> \in [{} -> Entries] /\ DOMAIN << >> = {}
      OBVIOUS
    <3>4. Whole(at[0], files, 0)
      BY <3>1, <3>2, <3>3 DEF Whole, Shaped, Mapped, Sourced
    <3> QED
      BY <2>2, <2>3, <3>4
  <2>4. CASE k # 0
    <3> DEFINE j == k - 1
    <3>1. j \in 0..n /\ j < k /\ k \in 1..n
      BY <1>2, <2>2, <2>4
    <3>2. Whole(at[j], files, j)
      <4> HIDE DEF j
      <4>1. j \in Bad => k <= j
        <5> HIDE DEF Bad
        <5> QED
          BY <2>1
      <4>2. j \notin Bad
        BY <2>2, <3>1, <4>1
      <4> QED
        BY <3>1, <4>2
    <3>3. at[k] = Read(at[j], files[k])
      BY <1>1, <3>1
    <3> HIDE DEF n
    <3>4. Whole(Read(at[j], files[k]), files, k)
      BY <3>1, <3>2, RoundKeepsWhole DEF n
    <3> QED
      BY <2>2, <3>3, <3>4
  <2> QED
    BY <2>3, <2>4
<1>4. Whole(at[n], files, n)
    BY <1>2, <1>3
<1> QED
    BY <1>1, <1>4

-----------------------------------------------------------------------------
(* The files of LoadMigrations: sorting.                                   *)

UpTo(ms, m) == {o \in ms : o.version <= m.version}

\* Migrations of different versions can be put in order.
LEMMA SortedIs ==
    ASSUME NEW ms, IsFiniteSet(ms), \A m \in ms : m.version \in Int,
           \A m, o \in ms : m.version = o.version => m = o
    PROVE  /\ Sorted(ms) \in [1..Cardinality(ms) -> ms]
           /\ \A m \in ms : \E i \in 1..Cardinality(ms) : Sorted(ms)[i] = m
           /\ \A i, j \in 1..Cardinality(ms) : i < j => Sorted(ms)[i].version < Sorted(ms)[j].version
<1> DEFINE n == Cardinality(ms)
           D == 1..n
           rank == [m \in ms |-> Cardinality(UpTo(ms, m))]
<1>1. n \in Nat /\ IsFiniteSet(D) /\ Cardinality(D) = n
    BY FS_CardinalityType, FS_Interval
<1>2. ASSUME NEW m \in ms
      PROVE  /\ IsFiniteSet(UpTo(ms, m)) /\ m \in UpTo(ms, m)
             /\ rank[m] = Cardinality(UpTo(ms, m)) /\ rank[m] \in D
  <2>1. UpTo(ms, m) \in SUBSET ms /\ m \in UpTo(ms, m)
    BY DEF UpTo
  <2>2. /\ IsFiniteSet(UpTo(ms, m)) /\ Cardinality(UpTo(ms, m)) \in Nat
        /\ Cardinality(UpTo(ms, m)) <= n
    BY <2>1, FS_Subset, FS_CardinalityType
  <2>3. Cardinality(UpTo(ms, m)) # 0
    BY <2>1, <2>2, FS_EmptySet
  <2> QED
    BY <1>1, <2>1, <2>2, <2>3
<1>3. ASSUME NEW m \in ms, NEW o \in ms, m.version < o.version
      PROVE  rank[m] < rank[o]
  <2>1. UpTo(ms, m) \in SUBSET UpTo(ms, o) /\ o \notin UpTo(ms, m)
    BY <1>3 DEF UpTo
  <2>2. /\ Cardinality(UpTo(ms, m)) <= Cardinality(UpTo(ms, o))
        /\ Cardinality(UpTo(ms, m)) = Cardinality(UpTo(ms, o)) => UpTo(ms, o) = UpTo(ms, m)
    BY <1>2, <2>1, FS_Subset
  <2>3. Cardinality(UpTo(ms, m)) # Cardinality(UpTo(ms, o))
    BY <1>2, <2>1, <2>2
  <2>4. rank[m] \in D /\ rank[o] \in D
    BY <1>2
  <2> HIDE DEF rank, n
  <2> QED
    BY <1>1, <1>2, <2>2, <2>3, <2>4
<1>4. rank \in [ms -> D]
    BY <1>2
<1> HIDE DEF rank
<1>5. ASSUME NEW m \in ms, NEW o \in ms, rank[m] = rank[o]
      PROVE  m = o
  <2>1. rank[m] \in Int
    BY <1>1, <1>4
  <2>2. ~(m.version < o.version) /\ ~(o.version < m.version)
    <3> HIDE DEF n
    <3> QED
      BY <1>3, <1>5, <2>1
  <2> QED
    BY <2>2
<1>6. rank \in Injection(ms, D)
    BY <1>4, <1>5 DEF Injection, IsInjective
<1>7. rank \in Surjection(ms, D)
    BY <1>1, <1>6, FS_Injection
<1>8. \A i \in D : \E m \in ms : rank[m] = i
    BY <1>7 DEF Surjection
<1> DEFINE s == [i \in D |-> CHOOSE m \in ms : rank[m] = i]
<1>9. \A i \in D : s[i] \in ms /\ rank[s[i]] = i
    BY <1>8
<1>10. s \in [D -> ms]
    BY <1>9
<1> HIDE DEF s, n
<1>11. ASSUME NEW i \in D, NEW j \in D
       PROVE  /\ i # j => s[i] # s[j]
              /\ i < j => s[i].version < s[j].version
  <2>1. s[i] \in ms /\ s[j] \in ms /\ rank[s[i]] = i /\ rank[s[j]] = j
    BY <1>9
  <2>2. ASSUME i < j PROVE s[i].version < s[j].version
    <3>1. i \in Int /\ j \in Int
      BY <1>1
    <3>2. ~(s[j].version < s[i].version)
      BY <1>3, <2>1, <2>2, <3>1
    <3>3. s[j].version # s[i].version
      BY <2>1, <2>2, <3>1
    <3> QED
      BY <2>1, <3>2, <3>3
  <2> QED
    BY <2>1, <2>2
<1> DEFINE Right(t) == \A i, j \in DOMAIN t : i < j => t[i].version < t[j].version
           Seqs == {f \in [D -> ms] : \A i, j \in D : i # j => f[i] # f[j]}
           t == Sorted(ms)
<1>12. SetToSeqs(ms) = Seqs
    BY DEF SetToSeqs, n
<1>13. s \in Seqs /\ Right(s)
    BY <1>10, <1>11
<1>14. t \in Seqs /\ Right(t)
  <2>1. t = CHOOSE q \in Seqs : Right(q)
    BY <1>12 DEF Sorted
  <2> HIDE DEF Seqs, Right, t
  <2> QED
    BY <1>13, <2>1
<1> HIDE DEF t
<1>15. t \in [D -> ms] /\ DOMAIN t = D
    BY <1>14
<1>16. t \in Injection(D, ms)
    BY <1>14 DEF Injection, IsInjective
<1>17. t \in Surjection(D, ms)
    BY <1>1, <1>16, FS_Injection DEF n
<1>18. \A m \in ms : \E i \in D : t[i] = m
    BY <1>17 DEF Surjection
<1> QED
    BY <1>14, <1>15, <1>18 DEF t, n

-----------------------------------------------------------------------------
(* The files of LoadMigrations: nothing is lost.                           *)

\* The migration of the map's entry of a version.
Migration(migs, v) == [version |-> v, name |-> migs[v].name, up |-> migs[v].up, down |-> migs[v].down]

\* No file is lost, however many there are and in whatever order they are
\* read: LoadMigrations returns the text of each, in ascending versions, or
\* an error, and no error for a directory in order.
THEOREM NoFileIsLost ==
    ASSUME NEW files \in Seq(Files)
    PROVE  IsLoaded(files)
<1> DEFINE n == Len(files)
           l == FoldLeft(Read, Nothing, files)
           migs == l.migs
           ms == {Migration(migs, v) : v \in DOMAIN migs}
           missing == \E v \in DOMAIN migs : migs[v].up # "sql"
           result == LoadMigrations(files)
<1>1. Whole(l, files, n) /\ n \in Nat /\ DOMAIN files = 1..n
    BY LoopIsWhole
<1>2. result = IF l.failed \/ missing THEN [failed |-> TRUE, plan |-> << >>]
               ELSE [failed |-> FALSE, plan |-> Sorted(ms)]
    BY DEF LoadMigrations, Migration
<1> HIDE DEF result, l, n
<1>3. ASSUME ~l.failed
      PROVE  /\ migs \in [{files[i].version : i \in 1..n} -> Entries]
             /\ \A i \in 1..n : Held(l, files[i])
    BY <1>1, <1>3 DEF Whole, Mapped
<1>4. ASSUME InOrder(files)
      PROVE  ~result.failed
  <2>1. ~l.failed
    BY <1>1, <1>4 DEF Whole
  <2>2. ASSUME NEW v \in DOMAIN migs PROVE migs[v].up = "sql"
    <3>1. PICK i \in 1..n : files[i].version = v
      BY <1>3, <2>1
    <3>2. PICK j \in 1..n : files[j].version = v /\ files[j].kind = "up" /\ files[j].text = "sql"
      BY <1>1, <1>4, <3>1 DEF InOrder
    <3>3. Held(l, files[j])
      BY <1>3, <2>1
    <3> QED
      BY <3>2, <3>3 DEF Held
  <2>3. ~missing
    BY <2>2
  <2> HIDE DEF missing
  <2> QED
    BY <1>2, <2>1, <2>3
<1>5. ASSUME ~result.failed
      PROVE  /\ \A i, j \in DOMAIN result.plan :
                  i < j => result.plan[i].version < result.plan[j].version
             /\ \A i \in DOMAIN files : \E j \in DOMAIN result.plan :
                   /\ result.plan[j].version = files[i].version
                   /\ result.plan[j].name = files[i].name
                   /\ files[i].text # "" => result.plan[j][files[i].kind] = files[i].text
             /\ \A j \in DOMAIN result.plan : result.plan[j].up = "sql"
  <2>1. ~l.failed /\ ~missing /\ result.plan = Sorted(ms)
    <3> HIDE DEF missing
    <3> QED
      BY <1>2, <1>5
  <2> DEFINE p == Sorted(ms)
             c == Cardinality(ms)
  <2>2. /\ migs \in [{files[i].version : i \in 1..n} -> Entries]
        /\ \A i \in 1..n : Held(l, files[i])
    BY <1>3, <2>1
  <2>3. IsFiniteSet(ms)
    <3> DEFINE g == [i \in 1..n |-> Migration(migs, files[i].version)]
    <3>1. \A i \in 1..n : g[i] \in ms
      BY <2>2
    <3>2. \A m \in ms : \E i \in 1..n : g[i] = m
      BY <2>2
    <3> HIDE DEF g, ms
    <3>3. g \in [1..n -> ms]
      BY <3>1 DEF g
    <3>4. g \in Surjection(1..n, ms)
      BY <3>2, <3>3 DEF Surjection
    <3>5. IsFiniteSet(1..n)
      BY <1>1, FS_Interval
    <3> QED
      BY <3>4, <3>5, FS_Surjection
  <2>4. \A v \in DOMAIN migs : v \in Int /\ migs[v].up = "sql"
    <3>1. ASSUME NEW i \in 1..n PROVE files[i].version \in Int
      <4>1. files[i] \in Files
        BY <1>1
      <4> QED
        BY <4>1, MigrationFilesAssumption DEF Files
    <3> QED
      BY <2>1, <2>2, <3>1
  <2>5. \A m \in ms : m.version \in Int /\ m.up = "sql"
    BY <2>4 DEF Migration
  <2>6. \A m, o \in ms : m.version = o.version => m = o
    BY DEF Migration
  <2> HIDE DEF ms
  <2>7. /\ p \in [1..c -> ms]
        /\ \A m \in ms : \E i \in 1..c : p[i] = m
        /\ \A i, j \in 1..c : i < j => p[i].version < p[j].version
    BY <2>3, <2>5, <2>6, SortedIs
  <2> HIDE DEF p
  <2>8. DOMAIN p = 1..c /\ \A j \in 1..c : p[j] \in ms
    BY <2>7
  <2>9. ASSUME NEW i \in 1..n
        PROVE  \E j \in 1..c : /\ p[j].version = files[i].version
                               /\ p[j].name = files[i].name
                               /\ files[i].text # "" => p[j][files[i].kind] = files[i].text
    <3> DEFINE f == files[i]
               m == Migration(migs, f.version)
    <3>1. Held(l, f) /\ f \in Files
      BY <1>1, <2>2
    <3>2. m \in ms
      BY <3>1 DEF ms, Held
    <3>3. PICK j \in 1..c : p[j] = m
      BY <2>7, <3>2
    <3> HIDE DEF f
    <3>4. f.kind \in {"up", "down"}
      BY <3>1 DEF Held, Files
    <3>5. m.version = f.version /\ m.name = f.name
      BY <3>1 DEF Held, Migration
    <3>6. ASSUME f.text # "" PROVE m[f.kind] = f.text
      <4>1. migs[f.version][f.kind] = f.text
        BY <3>1, <3>6 DEF Held
      <4>2. m["up"] = migs[f.version].up /\ m["down"] = migs[f.version].down
        BY DEF Migration
      <4> QED
        BY <3>4, <4>1, <4>2
    <3> HIDE DEF m
    <3> QED
      BY <3>3, <3>5, <3>6 DEF f
  <2>10. result.plan = p
    BY <2>1 DEF p
  <2> QED
    BY <1>1, <2>5, <2>7, <2>8, <2>9, <2>10
<1> QED
    BY <1>4, <1>5 DEF IsLoaded, result

\* So no migration file is lost between a directory of any size and a run.
THEOREM DirectoriesAreLoaded == Spec => []FilesAreLoaded
<1>1. \A files \in Directories : IsLoaded(files)
  <2>1. ASSUME NEW files \in Directories PROVE files \in Seq(Files)
    BY DEF Directories
  <2> QED
    BY <2>1, NoFileIsLost
<1>2. FilesAreLoaded
    BY <1>1 DEF FilesAreLoaded
<1> QED
    BY <1>2, PTL
=============================================================================
