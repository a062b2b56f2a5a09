# Formal models of the LID Challenge service

TLA+ specifications of the parts of this repository whose correctness depends
on interleavings, failures and time, checked with TLC on small instances and,
where it says so, proved with TLAPS for every value of the constants.

## 1. The system

One Go binary (`cmd/server`) that is either an HTTP service over a SQL database
or a command line for schema migrations, and a library that talks to identity
vendors. Several replicas of the binary, of different versions, may share one
database.

| Component | Code | State | Operations | Talks to |
|---|---|---|---|---|
| Schema migrator | `internal/dao/migrator.go` | `schema_migrations`, the lease row of `schema_migrations_lock`; per run: the heartbeat goroutine, the migration context | `LoadMigrations`, `Up`, `Down`, `Version`, `Status` | the database; called at start-up (15 s) and from the CLI (30 s) |
| User store | `internal/dao/sql_dao.go`, `handleCreateUser`, `handleLogin` in `internal/api/handlers.go` | `user_profile`, `user_credential`, the connection pool | `CreateUser`, `VerifyUserCredential` | the database, against migrations that drop its tables |
| Vendor connector | `internal/connector/client.go` | cached token and its expiry, the singleflight call | `GetIdentity`, `Authenticate` | the vendor's `/auth` and `/identity` |
| Rate limiter | `internal/api/middleware.go` | bucket per client, linked list in order of activity, time of the last sweep | `AllowWithRetryAfter` | `WithRateLimit` |
| HTTP server, middleware | `internal/api/server.go`, `middleware.go` | none beyond the limiter | recovery, logging, 10 s timeout, `clientIP`, `WithAuth` | handlers |
| Tokens and passwords | `internal/security` | none (signed, expiring tokens, kept by the clients) | `GenerateUserToken`, `VerifyUserToken`, `CheckPassword` | `handleLogin`, `WithAuth` |
| Profile queries | `SearchProfiles`, `handleSearchProfiles`, `handleGetProfile` | none (reads) | filter, clamp, page | the database |
| Server process | `cmd/server/main.go` | life cycle; the connections it serves | migrate at start-up, listen, shut down in 10 s | all of the above; its supervisor, which restarts it |
| Configuration, dialects, models, probes, providers, OpenAPI | `internal/config`, `dao/dialect.go`, `models`, `handlers.go`, `connector/providers.go`, `openapi.go` | none | parsing, formatting, constructors | |

How they interact: requests pass the limiter and the middleware to a handler,
which calls the store; the store and the migrator share the database, and on
SQLite one connection; replicas and CLI runs of the migrator meet only in the
lease row; the connector's callers meet in its cache and its flight.

What is hard in this code:

* runs of the migrator that crash, are held up or lose an answer while they
  hold the lease, and others that take it over; three clocks (the database's,
  the process's, the ticker's); COMMITs that land after everyone has given up;
* concurrent callers of the connector between "the cache is empty" and "the
  flight is registered", late 401s, flights that outlive the token they fetched;
* transactions that conflict, deadlock, are retried or end in doubt, next to a
  rollback of their tables;
* a hand-written linked list under inserts, moves, evictions and sweeps;
* direct calls of `Authenticate`, which write the cache beside the flight;
* tokens that outlive the users they were issued to, and their usernames' reuse;
* replicas that are killed with the lease and restarted sooner than it goes
  stale; shutdowns that wait for handlers which have as long as the shutdown;
* pages that are queries of their own, while rows are inserted between them.

What makes each component correct:

* migrator: one run at a time changes the schema, versions are applied and
  rolled back without gaps, old binaries leave newer schemas alone, a lease left
  by a crash does not block for ever;
* store: a user exists wholly or not at all, one owner per name, answers are
  true, every registration is answered;
* connector: no needless authentication, no expired token served, no usable
  token thrown away, nobody gets another caller's cancellation, every call ends;
* limiter: list and map agree, the map stays bounded, clients are limited as by
  a bucket of their own, under their own address, `Retry-After` is exact;
* tokens: one opens its owner's profile and no other, for its 24 hours;
* search: a scan page by page misses nobody, a term matches what it says;
* server process: it comes back after any crash, handlers in time are not cut
  off, the pool outlives them, slow clients do not keep it for ever.

## 2. Modules

| Module | Role |
|---|---|
| `SerialMigrations` | what the migrator promises: a holder applies or rolls back one version at a time |
| `Migrator` | the migrator: processes, lease, heartbeat, transactions, time |
| `MigrationFiles` | `Migrator` and `LoadMigrations`: what a directory of files becomes |
| `MigratorProofs` | the theorems of both |
| `Connector` | token cache, singleflight, callers, vendor, time |
| `ConnectorProofs` | its theorems |
| `TokenBuckets` | what the limiter promises: steadily refilled buckets, the least recently active forgotten |
| `RateLimiter` | the limiter, link by link |
| `RateLimiterProofs` | its theorems |
| `ClientAddress` | `clientIP`: whose request it is, from what proxies add to it |
| `Edge` | `WithRateLimit`: clients, proxies, `ClientAddress` and `RateLimiter` together |
| `EdgeProofs` | its theorems |
| `Directory` | what the user store promises: names taken at most once, logins answered truly |
| `UserStore` | registrations and logins statement by statement, and a rollback of the tables |
| `UserStoreProofs` | its theorems |
| `Access` | `UserStore` and users' bearer tokens: login, verification, the owner's profile |
| `AccessProofs` | its theorems |
| `LikePattern` | the substring filters of the search: escaping and `LIKE` |
| `ProfileScan` | `UserStore` and a scan of the profiles page by page, with the filters of `LikePattern` |
| `ProfileScanProofs` | its theorems |
| `Server` | replicas of the server process, their lease, their connections, time |
| `ServerProofs` | its theorems |
| `MC*` | values of the constants for TLC |

Definitions named "seeded faults" are not part of a specification: each is a
plausible mistake in the definition it is named after, and makes the property
it is kept for fail (`PROJECT.json`, `mutants`).

### Migrator

A *run* is one call of `Up` or `Down` in a process of its own. `pc` follows the
code: `ensure` (`EnsureTable`), `acquire`/`break`/`reclaim` (the polling loop of
`acquireLock` and the statements of `breakStaleLock`), `read`, `apply`,
`record`, `commit`, `committing` (`getAppliedMigrations`, `BeginTx` and the
migration's SQL, the bookkeeping statement, `tx.Commit` before and after the
COMMIT is sent), `unlock`, `release`. `Inspect` is `Version` and `Status`, which
write only by `EnsureTable`. The migration's own effects and its row in
`schema_migrations` share a transaction, so `recorded` stands for both.

The lease row is its owner and the age of `locked_at`; `is_locked = FALSE` is
owner `None`. The owner string holds host and pid: `LooksDead` is what
`kill(pid, 0)` tells a process on the same host. `ReadLockOwner` may also find
the owner alive when it is not (a reused pid, a failed query).

The heartbeat is a second thread of each run (`hb`, `renewAge`, `tickAge`):
`RenewLock` is the UPDATE on the server, `RenewReturns` its answer, and
`RenewErrs` an error, which PostgreSQL runs tolerate until `staleLockTimeout`
after `lastRenewed` and SQLite runs always. On SQLite a renewal cannot get a
connection while the run's own transaction holds the only one (`PoolBusy`), and
a writing transaction locks others out (`WriteLocked`).

Failures: any statement may fail (`FaultyDb` for those on the lease row), the
UPDATE that takes the lease and the COMMIT may take effect although their answer
is an error, and a process may die anywhere. A PostgreSQL server still has the
COMMIT that a dead process was waiting for (`CrashCommitting`, then `orphaned`) and
executes or drops it later (`Settle`), when another run may be polling for the lease
or breaking it. Assumed of a COMMIT whose run goes on (`CommitErrs`): its error
comes after the server is done with it. `lib/pq` waits for the answer whatever the
context does; only a connection that breaks under the COMMIT leaves it unknown for
how long the server goes on, and that it does so past the run's release, which needs
another connection, is left out.

`Accepts` is `validateAppliedMigrations` without the comparison of names: all
binaries here call a version the same. A conflict of names would be one more error
before any write, which `StatementFails` has.

Time: `Tick` ages the lease, the callers' contexts, `lastRenewed` and the
tickers by one unit. Ages saturate where no comparison can tell more. A COMMIT
sent before the deadline lands at most `StmtDelay` after it or not at all; where there
is no deadline, at most `StmtDelay` after the death of the process that sent it.
`PromptTick` lets no more than `RenewTimeout` pass between a tick of the
heartbeat and the renewal's answer: the code's two seconds, provided that the
process is scheduled.

Versions are numbered `1..n`, as the embedded files are; the order of
application is what `LoadMigrations` sorts into. `MigrationFiles` is that
function: a directory is a sequence of files in any order, `Read` one round of
the loop with its early returns, a text is empty, blank or has statements.
Numbers are compared as parsed, so that `1_a` and `01_a` are two files of one
version. Two empty files of one version and direction, or an empty one before
another, pass the code's test for duplicates (`mig.UpSQL != ""`), as in the
model; `IsLoaded` says that nothing is lost by it.

### Connector

Callers loop over `GetIdentity`: `lookup` (the read of the cache), `miss` (the
lock is released, `DoChan` not yet called), `wait`, `call` (`/identity`),
`rejected` (a 401 for the first attempt). The flight is the goroutine that runs
the callback: `recheck`, `asking`, `answered`, `returned` (the token is stored,
singleflight has not forgotten the call: the deferred drain of the response
body runs here). The vendor issues tokens in order, each with the lifetime it
promises and the one it keeps, and may revoke any; it may fail, or never answer.
A context's cancellation can reach a caller anywhere. `left` runs on the
connector's clock, `life` on the vendor's: both go at the same speed, but a
promise is counted by the connector only from when the answer has arrived.
Each issued token is a new one; a token with the same text as an earlier one is
not modelled. `direct` are goroutines that call `Authenticate` with the
configured credentials: their requests to the vendor overlap with the flight's
and with each other's, and whoever stores last wins (`AuthStore`, `askedBy`
remembers whose answer a token was). They are timed by the HTTP client's
`Timeout` only, the flight by its context as well, which has the same length.

A caller's context may end at any moment (`Cancel`); it then leaves (`Abandon`) with
that context's error. `authCtx` is the context of the flight's request: the call it
derives from (`AuthContext`: none, `context.Background()`) and the error it has ended
with. A flight stops when its own timeout is over (`AuthCtxExpires`) or when the
context it derives from ends (`FlightStops`), and all who wait for it get the error it
then has (`Fail`), which is how a flight under a caller's context would hand that
caller's cancellation to others. What `CancellationIsOwn` allows them is the error of
their own context, and the flight's deadline once the flight is as old as that.

### Rate limiter

`AllowWithRetryAfter` is one action, since the mutex is held throughout. The
list is the four kinds of pointers (`head`, `tail`, `prev`, `next`) and each
list function is an operator on it. The sweep folds `RemoveNode` over the idle
clients in arbitrary order. Tokens are counted in `1/Unit` instead of `float64`,
time in whole seconds. The refinement to `TokenBuckets` assumes that a bucket is
full again before its client counts as idle (`Rate * IdleTimeout >= Burst`),
which the defaults (50 per second, 100 in a burst, five minutes) meet by far;
`NewServer` builds a limiter only for a positive rate (without one there is
nothing to model). `ListMatchesMap` implies
that the branch for a full map with `tail == nil` (`middleware.go:238-249`) is
never taken, and it is not modelled.

`Edge` puts `WithRateLimit` before it: a client sends requests directly or
through a chain of trusted proxies, with whatever `X-Forwarded-For` and
`X-Real-IP` it likes; `Arrival` is what the server then sees, `ClientIP` what the
code makes of it, `Exempt` the two probes. Assumed of the proxies: each appends
the address it has the request from to the one `X-Forwarded-For` line
(`Header.Get` reads no second line), and they are all trusted, the clients are
not. Addresses are compared as parsed: `parsed.String()` is one text per address.

### User store

Each registration has a fresh id and password, so it is represented by itself.
`pc` follows `CreateUser`'s loop and `createUserTx`'s statements; a transaction's
rows are visible to others only after `Commit`. Locks are PostgreSQL's: an INSERT
of a name waits for a transaction that has inserted it, `DROP TABLE` waits for
all who have touched the table, and INSERTs and reads wait for the drop.
`Conflict` is a serialization failure at any statement, `BreakDeadlock` the
database's choice of a victim: both are what `isRetryableTxError` knows.
`CommitUnknown` and `Settle` are a COMMIT whose answer is lost. A login is two
reads without a transaction. `Fail` is every other error, the request's timeout
included. The request's validation and the hashing are the enabling of
`CreateUser`.

`ProfileScan` adds an administrator's client that asks for one page after the
other, each a query of its own by `SearchProfiles`, until a page is short; a
query sees what is committed at that moment. `created_at` is the moment at which
`CreateUser` began, by the clock of its server, so rows with earlier ones may
still be committed, and ties are possible; `Orders` are the orders in which a
database may return the rows, of which `id DESC` leaves one. The scan has no
filter: a filter takes away rows, the same from every page. `LikePattern` is the
filter for substrings, with `LIKE` as SQL defines it and without `LOWER`.

### Access

`Access` adds the tokens to the user store. `Meanwhile` is a step of `UserStore`; a
login that is granted there is handed a token (`Signed`). `AskProfile` is `WithAuth`
(`Verifies`) and the owner check (`Owns`), which come one after the other without
waiting; `ask` is a request that has passed both, and whose SELECT may have to wait
for a connection or for the lock of a rollback until its context is done. `reply`
is the answer just given, with the token's age at that moment. A token is its claims: a
signature is by the server's secret or the token is refused, and the id in a
path is a request of `UserStore`, since ids are drawn there. Ticks are fractions of a
`Second`, the unit of `exp`. All servers share one clock.

### Server

`phase` follows `main`: `boot` (configuration, database), `migrate` (waiting for
the lease), `apply` (migrating with it), `serve`, `drain` (`Shutdown`), `closed`
(`Shutdown` has returned nil, the deferred `Close` has run), `down`. `lease` is
the migrator's, as its theorems leave it: held by a live replica, free, or left
by a dead one for `StaleAfter`. Replicas are restarted by their supervisor
(`restart: unless-stopped`). A connection is `new` (its header is awaited), `body`
(the handler runs and reads), `work`, and then `over`, `cut` by a shutdown that
has given up, or `killed` with the process. `early` are the requests that were at
work a tick before the signal. A tick is five seconds, of which the
timeouts of `main.go` are multiples; what the code does at once (a poll for the
lease, a timer that has fired) is done before the next tick (`Overdue`).
`MigrationFails` may or may not have released the lease. The migration command
line is a caller of `Migrator`, not part of this module.

## 3. What is checked

| Run | Instance | Shows |
|---|---|---|
| `MigratorDeadline` | PostgreSQL, a newer and an older binary, two versions, deadline 1, StmtDelay 1, stale 2, any fault | types; the run that may still write owns the lease; its plan is current; no gaps; old binaries do not write; implements `SerialMigrations` |
| `MigratorSqlite` | SQLite, three processes on two hosts, no deadline, any fault | the lease and the refinement hold by the liveness check alone, with renewals that fail |
| `MigratorHeartbeat` | PostgreSQL, no deadline, interval 1, prompt and faultless renewals of up to 1, StmtDelay 1, stale 3; every directory of up to three files | a lease is kept however long the migration takes, and until the COMMIT of a dead process has landed; waiting ends; no migration file is lost or run in the wrong order |
| `MigratorReclaim` | SQLite, three processes on one host | **violated**: see section 6 |
| `MigratorRenewalsFail` | PostgreSQL, no deadline, renewals may fail | **violated**: see section 6 |
| `Connector` | two callers, two tokens, lifetimes 0 to beyond the cap, timeout 1 | types; nobody gets the end of a context that is not its own or the flight's, whose deadline is the whole timeout; rejected tokens are dropped; calls end |
| `ConnectorDirect` | the same with a direct call of `Authenticate` | no needless authentication; the margin covers; usable tokens are kept, except by direct calls |
| `ConnectorRetry` | as `Connector` | **violated**: see section 6 |
| `RateLimiter` | four clients, none, one or two proxies, room for three, 2/3 token per second, bursts of two, idle after 3 s, sweeps every 2 s | types; list and map agree; capacity; exact `Retry-After`; each client is charged for its own requests; implements `TokenBuckets` |
| `UserStore` | three registrations, two of one name, a login, pool of two; a scan by pages of one or two; terms of up to two and texts of up to four characters | types; users are whole; implements `Directory`; limits are clamped; a scan misses nobody; a filter finds what contains its term |
| `UserStoreLive` | two registrations of one name, a login, a rollback; tokens of three ticks and requests of one, two ticks to a second | every registration ends; a token opens its owner's profile and no other; it lasts its time |
| `Server` | two replicas, two connections, the timeouts of `main.go` in units of 5 s, two faults or signals | types; the pool outlives the handlers; early requests are answered; servers serve again; connections end |

Why the bounds are enough. *Migrator*: two runs are enough for an owner and a
thief; the reclaim race needs a dead owner, the reclaimer and the new owner, so
the SQLite runs have three. Two versions make a half-finished `Up` or `Down`
and a binary that lacks one; `steps` 0 (normalised to 1) and 2 stop `Down` early
or late. Stale timeout, deadline and heartbeat only matter by their order, which
the small values keep: deadline + delay <= stale in `MigratorDeadline`, interval +
renewal + delay <= stale in `MigratorHeartbeat`,
heartbeat + renewal < stale elsewhere is not needed for the SQLite run, where
renewals may fail for ever. *Connector*: two callers give a leader and a joiner,
two tokens an old and a new one. Lifetimes are at most 2: with the margin of 1 in
`ConnectorDirect` they lie on both sides of twice the margin, with that of 2 in
`Connector` all are short and the margin is half of them, which is where a full one
would make an expiry in the past. A token whose half lifetime is
shorter than the timeout is in the answers on purpose: `MarginCovers` says by how
much it may be served too long, and that nothing else is. *Limiter*: three entries have a head, a middle and
a tail, the fourth client forces evictions; a sweep can remove none, some or
all. One proxy and two differ in what the walk over the chain passes by; the
presets hold an address of somebody else, junk, and a proxy's own address.
*User store*: two of one name contend, the third takes the pool's last
connection. Two rows tie in `created_at` and one is earlier than those before it;
pages of one and of two cut between any of them. There are at most two rows and
`MaxOffset` is 2, so that scans end; offsets that are cut are left to `NobodyIsMissed`,
which holds for any. *Files*: three files are two of
one version and direction and one more. *Access*: the second registration gets
the name of the first after a rollback; a token can be issued at the beginning and in
the middle of a second, and the clock runs past its end by the length of a request.
*Server*: a replica that dies and one
that waits; a connection that keeps a shutdown waiting and one that must not be
cut; with two faults a restart meets both the lease of a dead process and a
signal. Faults are bounded for the liveness properties: a server that is killed
for ever never serves.

`CHECK_DEADLOCK FALSE` stands where a system may stop: the migrator, whose runs
are all over or dead in the end. `FilesAreLoaded` and `SearchIsSubstring` are
about functions and no state; they are invariants of a run that are looked at in
its first state.

### Fairness

* Migrator (`FairSpec`): goroutines that can go on do (weak fairness of each
  run's taking, migrating, unlocking and heartbeat, and of the server with a COMMIT that
  a dead process has left), and time passes. No run has
  to start and nobody has to crash. Waiting is guaranteed to end only on
  PostgreSQL: SQLite never reclaims a lease of another host.
* Connector: callers and the flight go on, timers fire (the flight's
  `context.WithTimeout` and the client's `Timeout`), time passes. The vendor owes
  nothing: neither an answer nor a failure has to come.
* User store: the database and `database/sql` serve waiters in turn, hence strong
  fairness of the statements that wait for a lock or a connection; everything
  else goes on when it can. A rollback in progress goes on. Neither errors nor
  timeouts have to come.
* Server: boot, shutdown and timers go on (weak fairness), clients owe nothing.
  Strong fairness of `Listen`: a migration that is tried again and again succeeds
  within its deadline in the end. Nothing in the code makes it so, and without it
  no server would have to start; that the lease becomes available to it at all is
  what `ServesAgain` shows.

## 4. What is proved

All proofs hold for every value of the constants that the modules' assumptions
allow: any number of runs, callers, requests, versions, any timeouts.

**Migrator** (`MigratorProofs`). `TypeCorrect` needs nothing else. Whatever makes a
run that may write own the lease row (`Owned`), the rest follows from it: only one
run can publish, so versions stay a prefix (`AppliedIsPrefix`), the plan of a run
that may write is what is missing, or recorded, now (`PlanInv`), and each step is a
step of `SerialMigrations` or leaves the run that may write and the versions alone.
These are `Inv`, `NextKeepsPlan` and `StepIsSerial`; `Owned` itself is proved in
three regimes, each with an invariant of its own.

* *Deadlines*: `DeadlineIsShort` says that every caller has a deadline, and that
  deadline plus the time a COMMIT may be under way is at most `staleLockTimeout`; in
  `cmd/server` that is 15 s or 30 s against 60 s. The lease is set after the context
  was created, so while its owner may write it is no older than the context
  (`OwnedAndYoung`); the context is below its deadline or a COMMIT is landing, so the
  lease is not stale (`OwnedIsFresh`), so neither `breakStaleLock` nor anybody's
  release or `EnsureTable` touches it. Heartbeats are not needed for it and cannot
  hurt: they only make the lease younger. Theorems: `LeaseIsOwned`,
  `MigrationIsExclusive`, `PlanStaysCurrent`, `NoGaps`, `WritersAreInformed`,
  `MigratorImplementsSerial`.
* *Heartbeat*: no deadline is needed on PostgreSQL if no statement on the lease row
  fails and each renewal is answered within `RenewTimeout` of the tick
  (`HeartbeatIsPrompt`, and `PromptTick` for `Tick`), and these two times, with that for
  which the COMMIT of a dead process may be under way, are together at most
  `staleLockTimeout`. The invariant `Renewing`
  compares two clocks: the lease is no older than what the ticker has counted since
  its last tick, and after a renewal younger by the whole interval. `OrphansLand` goes
  on where a process dies and nobody renews: its lease is older by the time its COMMIT
  has been alone, no more, so that it is not stale when that lands. Theorems:
  `HeartbeatKeepsLease`, `HeartbeatImplementsSerial`. Finding 2 of section 6 is what
  happens when a renewal fails.
* *SQLite*: there the liveness check alone protects the lease. `ReclaimRaceIsAll` and
  `SqliteImplementsSerial` hold for any processes, hosts and failures, renewals that
  fail included, of every behaviour in which nobody takes the lease while another
  process stands between reading its dead owner and clearing it
  (`NoneTakenMeanwhile`): finding 1 of section 6 is the one way in which SQLite's
  lease can be stolen, and an UPDATE that names the owner it has judged would close
  it. The invariant is `DeadOwners`: whose lease a reclaimer is about to clear is
  dead. In the instance of `MigratorSqlite` that happens to nobody (a reclaimer shares
  its host with the dead owner only, and processes elsewhere cannot take the lease
  before it is cleared), in that of `MigratorReclaim` it does.

*Files*: `NoFileIsLost` is `IsLoaded` for a directory of any number of files, and
`DirectoriesAreLoaded` says so of all of them. The loop's fold is unfolded into a
function of the rounds (`LoopIs`), by induction over which `LoopIsWhole` keeps what
the rounds so far have read; of the sorted plan a migration's place is the number of
versions up to its own (`SortedIs`).

**Connector** (`ConnectorProofs`): `TypeCorrect`, `NoNeedlessAuthentication`
(beside direct calls only the flight fills the cache, and it looked),
`RejectedTokenIsGone` (tokens are issued once, so what a caller holds from an
earlier attempt cannot come back into the cache except from the flight or the
direct call that fetched it), `UsableTokenStays`, `CancellationStaysOwn` and
`MarginHolds`. Of the fifth the invariant is `ContextInv`: the context of a flight
derives from no call's, and has ended only when the request is as old as the timeout;
so whoever waits gets nobody's cancellation but its own. The last assumes
`VendorKeepsItsWord` (no token lives shorter than
the connector reckons with); the invariant `MarginInv` says of an answer under way
that its token has lost no more than the request's age, which the timeout bounds.

**Rate limiter** (`RateLimiterProofs`): `LimiterTypeCorrect`, `ListStaysWhole`,
`RoomIsKept`, `RetryAfterHolds`. The invariant `LimiterInv` says of the list that its
clients have places, counted from the tail, each its own (`Linked`), and that the
order of places is the order of activity. `RemoveLinked` and `PushLinked` follow the
pointers through `RemoveNode` and `PushFront`, in the middle and at either end;
`SweepIs` unfolds the sweep into single removals, and `SweepOrdered` is their
induction: those who stay keep their order, whatever the order of removal.
`PlacesAgree` shows that a list has one order, so that the head is the newest
(`HeadIsNewest`) and the evicted tail the oldest (`TailIsOldest`). `CeilBounds` is the
arithmetic of `Retry-After`. `LimiterImplementsBuckets` assumes
`Rate * IdleTimeout >= Burst`: a swept client's bucket was full (`IdleIsFull`), so that
forgetting it changes nothing, and only evictions forget.

Behind proxies (`EdgeProofs`): `EdgeIsLimiter` says that `Edge` takes steps of
`RateLimiter` only, so that these theorems hold of `WithRateLimit` too; its last one is
restated as `EdgeImplementsBuckets`. `SenderIsFound`, for any headers and any number
of trusted proxies: the walk from the right passes just the addresses that proxies
have added, since the one before them is the sender's, which is not trusted. From
it `ClientsPayThemselves`.

**Profile search** (`ProfileScanProofs`): `ScanTypeCorrect` and `NobodyIsMissed`. The
invariant `ScanInv` says that before every profile the scan still owes there are at
least as many others as its next offset. Registrations only add to them, a rollback
takes the owed profile away too, and a page takes off the list just those whose
place is within it: `Listing` and `PlacesBefore` show that `created_at DESC, id DESC`
gives every row one place, `PageIsFull` that only the last page is short.

`SearchFindsTerm` and `SearchMatchesSubstrings` are about the filters, for terms and
texts of any length: a row passes just if its text contains the term, wildcards and
escapes in the term included. `PatternIs` describes what escaping writes, character by
character; `LikeIs` gives the matcher's recursion over places of the pattern, and from
the last place backwards `EndMatches`, `CharMatches` and `TermMatches` say what each
remainder of the pattern matches.

**Server** (`ServerProofs`): `TypeCorrect`, which says of every timer that it does
not run past its end; `PoolStaysOpen` (`HandlersRunOn`: open connections are at a
replica that serves or drains, and `Shutdown` leaves that phase only when there
are none); `EarlyRequestsFinish`, which assumes that a request's timeout is at
most the shutdown's (10 s each): the invariant `EarlyAhead` keeps the handler of
an early request at least a tick ahead of the shutdown's own timer.

**User store** (`UserStoreProofs`): `TypeCorrect`, `UsersStayWhole`,
`StoreImplementsDirectory`. The inductive invariant joins to wholeness that a
name's credential belongs to a request of that name (`NamesMatch`), that a
transaction which has claimed a name finds it free until it ends
(`ClaimsAreSound`), that lock holders exclude a rollback (`LocksExclude`), and
that an unanswered call is under way (`UnderWay`).

**Tokens** (`AccessProofs`): `OwnProfileOnlyHolds` and `TokenLastsItsTimeHolds`. A
login is granted only when it has found the user whose password it presents, and
only once (`GrantedOnce`, from the store's invariant), so the subject of its token is
that user for good (`TokensAreOwn`); a request at the database is its owner's and
was verified before the token's end, longer ago than its timeout never
(`AsksAreOwn`). `EarlierSecond` and `LaterSecond` say what comparing rounded times
tells of the times.

## 5. What is only model-checked, and what is not modelled

Only checked: liveness (`WaiterIsServed`, `CallEnds`, `RegistrationEnds`,
`ServesAgain`, `ConnectionsEnd`), which needs fairness and ENABLED. Every invariant,
action property and refinement that a passing run checks is also a theorem, under the
assumptions that section 4 names; outside of these (a migrator with renewals that
fail and no deadline, a limiter whose clients are idle before their buckets are full,
a vendor that does not keep its word) nothing is claimed.

Where a fact is about something recursive (the sweep, the loop over files, the
matcher), the definition is first shown to be a function of the natural numbers that
satisfies its own equation, and the fact is then proved by the least counterexample
(`LeastNat`), since the library's induction theorems cannot be instantiated.

Not modelled:

* Of bearer authentication the administrator's secret, `DevAuthBypass` and the
  syntax of the header: decisions on one request from its own header and the
  configuration.
* The probes, and the filters of the search
  by equality: nothing depends on what another does.
* Parsing and formatting (configuration, dialects, masking, OpenAPI), cryptography
  (bcrypt, HMAC), URL validation, logging, recovery from panics.
* Of `net/http`: idle and kept-alive connections and `IdleTimeout`, `WriteTimeout`
  (an answer is written in one step), and that `Shutdown` closes connections that
  have sent nothing for five seconds, which `ReadHeaderTimeout` does in any case.
* That a scan ends. Offsets beyond 10000 are cut, as documented, and the model has
  that clamp: a client that pages on in a larger directory gets the last page
  again and again.

## 6. Where code and documentation differ

1. `migrator.go:374` says that on SQLite "active processes are never reclaimed".
   The owner is read and judged in one statement and the lease cleared in
   another that does not name the owner (`migrator.go:406-411`). A process held
   up between the two for longer than `staleLockTimeout` clears the lease of the
   process that has taken it since (`MigratorReclaim`). There is no other way
   (`ReclaimRaceIsAll`).
2. `migrator.go:234-236` promises an exclusive lock and a context "canceled if
   lock ownership is lost or heartbeat expires". Expiry is noticed at the next
   failed renewal, and counted from the last answer instead of the last
   execution, while the database counts exactly: without a caller's deadline
   another run may be let in first (`MigratorRenewalsFail`). With the deadlines of
   `cmd/server` it cannot happen (`MigrationIsExclusive`), nor while all renewals
   succeed in time (`HeartbeatKeepsLease`).
3. `README.md:45` of the repository says that after a 401 the connector
   "re-authenticates, and transparently retries". The retry can join the flight
   that fetched the rejected token, get that very token again, and fail
   (`ConnectorRetry`).

## 7. Plan

In order of importance; done are

1. `Migrator` against `SerialMigrations`, with proofs of exclusion and refinement
   under deadlines, by heartbeats and on SQLite;
2. `Connector`, with direct calls of `Authenticate`, and proofs of all its safety;
3. `RateLimiter` against `TokenBuckets`, behind `Edge`, with proofs of the list, the
   per-call facts, the refinement, and that every client is found;
4. `UserStore` against `Directory`, with proofs of both, and the tokens of `Access`
   with proofs;
5. `Server`, composed with what the migrator promises rather than its details,
   with proofs of its safety;
6. `LoadMigrations`, the clamps, pages and filters of `SearchProfiles`, with proofs
   that no file is lost, a scan misses nobody, and a filter finds its term.

What is left:

7. The migrator with a third version and a third run under deadlines, if its
   states can be reduced by the symmetry of equal binaries.
8. A proof that `Server`'s lease is what `Migrator`'s theorems leave of it.
