------------------------------- MODULE Server -------------------------------
(***************************************************************************)
(* The life of the server processes of cmd/server/main.go: boot, migration *)
(* under a deadline, serving, graceful shutdown and restart, for replicas  *)
(* that share a database and so the migrator's lease.  The requests they   *)
(* serve are connections with the timeouts of net/http and of the          *)
(* middleware.                                                             *)
(*                                                                         *)
(* The lease is the one of Migrator, as its theorems leave it: taken when  *)
(* free or stale, renewed while its owner lives.  A tick is five seconds.  *)
(* What the code does within much less than a tick after it may (a poll    *)
(* for the lease, a timer that has fired) is done before the next one.     *)
(***************************************************************************)
EXTENDS Integers

CONSTANTS
    Replicas,         \* server processes, each restarted by its supervisor
    Requests,         \* connections, each with one request
    None,             \* no replica
    Dead,             \* a process that died with the lease
    MigrateTimeout,   \* of migrateCtx, 15 s
    StaleAfter,       \* staleLockTimeout, 60 s
    HeaderTimeout,    \* ReadHeaderTimeout, 5 s
    ReadTimeout,      \* ReadTimeout, 15 s
    RequestTimeout,   \* of WithContextTimeout, 10 s
    ShutdownTimeout,  \* of shutdownCtx, 10 s
    MaxFaults         \* bound: failures, crashes and signals

ASSUME ServerAssumption ==
    /\ None \notin Replicas /\ Dead \notin Replicas /\ None # Dead
    /\ {MigrateTimeout, StaleAfter, HeaderTimeout, ReadTimeout, RequestTimeout,
        ShutdownTimeout, MaxFaults} \subseteq Nat

VARIABLES
    phase,   \* where each replica is in main
    clock,   \* how long its migration or its shutdown has run
    lease,   \* who holds the migration lease; how long ago a dead owner renewed it
    conn,    \* each connection: where it is, at which replica, for how long it has
             \* been sending and its handler been running
    early,   \* requests received in full, and at work, a tick before a signal
    faults   \* how many there have been

vars == <<phase, clock, lease, conn, early, faults>>

Phases == {"down", "boot", "migrate", "apply", "serve", "drain", "closed"}

\* The server has accepted the connection and not yet let go of it.
Open == {"new", "body", "work"}

Over == {"over", "cut", "killed"}

Conns == [at : {"none"} \cup Open \cup Over, on : Replicas \cup {None},
          age : 0..ReadTimeout, work : 0..RequestTimeout]

TypeOK ==
    /\ phase \in [Replicas -> Phases]
    /\ clock \in [Replicas -> Nat]
    /\ \A r \in Replicas :
          clock[r] <= IF phase[r] \in {"migrate", "apply"} THEN MigrateTimeout
                      ELSE IF phase[r] = "drain" THEN ShutdownTimeout ELSE 0
    /\ lease \in [holder : Replicas \cup {None, Dead}, age : 0..StaleAfter]
    /\ conn \in [Requests -> Conns]
    /\ early \subseteq Requests
    /\ faults \in 0..MaxFaults

Fresh == [at |-> "none", on |-> None, age |-> 0, work |-> 0]
Free  == [holder |-> None, age |-> 0]

Init ==
    /\ phase = [r \in Replicas |-> "down"]
    /\ clock = [r \in Replicas |-> 0]
    /\ lease = Free
    /\ conn = [q \in Requests |-> Fresh]
    /\ early = {}
    /\ faults = 0

-----------------------------------------------------------------------------
(* Seeded faults: each replaces the definition it is named after, to see a *)
(* property fail.  None is part of the specification.                      *)

QuietNew(r)        == \A q \in Requests : conn[q].on = r => conn[q].at # "new"
GivesUpEarly(r)    == clock[r] + 1 >= ShutdownTimeout
FreeUnlessDead     == lease.holder = None    \* no stale-lock recovery
BodyIsNeverLate(q) == FALSE                  \* no ReadTimeout
\* The context of the migration is the background, without a deadline.
NeverExpires(r)    == FALSE

-----------------------------------------------------------------------------
(* What time forces.                                                       *)

At(q, r, places) == conn[q].on = r /\ conn[q].at \in places

Available == lease.holder = None \/ (lease.holder = Dead /\ lease.age >= StaleAfter)

Expires(r) == clock[r] >= MigrateTimeout

\* Shutdown polls until no connection is active.  (It also closes one that has
\* sent no header for more than 5 s; ReadHeaderTimeout is faster.)
Quiet(r) == \A q \in Requests : ~At(q, r, Open)

GivesUp(r) == clock[r] >= ShutdownTimeout

HeaderIsLate(q) == conn[q].age >= HeaderTimeout

BodyIsLate(q) == conn[q].age >= ReadTimeout

\* The handler's context is done, and with it every statement it waits for.
HandlerIsLate(q) == conn[q].work >= RequestTimeout

-----------------------------------------------------------------------------
(* Boot and migration.                                                     *)

Move(r, to) == phase' = [phase EXCEPT ![r] = to] /\ clock' = [clock EXCEPT ![r] = 0]

Fault == faults < MaxFaults /\ faults' = faults + 1

\* docker-compose: restart.
Restart(r) ==
    /\ phase[r] = "down"
    /\ Move(r, "boot")
    /\ UNCHANGED <<lease, conn, early, faults>>

\* Configuration or database are not to be had: exit with 1.
BootFails(r) ==
    /\ phase[r] = "boot"
    /\ Move(r, "down")
    /\ Fault
    /\ UNCHANGED <<lease, conn, early>>

StartMigration(r) ==
    /\ phase[r] = "boot"
    /\ Move(r, "migrate")
    /\ UNCHANGED <<lease, conn, early, faults>>

\* The deadline goes on to run.
AcquireLease(r) ==
    /\ phase[r] = "migrate"
    /\ Available
    /\ phase' = [phase EXCEPT ![r] = "apply"]
    /\ lease' = [holder |-> r, age |-> 0]
    /\ UNCHANGED <<clock, conn, early, faults>>

\* Migrate returns an error and the server exits with 1: it is out of time ...
MigrationExpires(r) ==
    /\ phase[r] \in {"migrate", "apply"}
    /\ Expires(r)
    /\ Move(r, "down")
    /\ lease' = IF phase[r] = "apply" THEN Free ELSE lease
    /\ UNCHANGED <<conn, early, faults>>

\* ... or a statement fails, perhaps also the one that releases the lease.
MigrationFails(r) ==
    /\ phase[r] \in {"migrate", "apply"}
    /\ Move(r, "down")
    /\ Fault
    /\ IF phase[r] = "apply"
         THEN lease' \in {Free, [holder |-> Dead, age |-> 0]}
         ELSE UNCHANGED lease
    /\ UNCHANGED <<conn, early>>

Listen(r) ==
    /\ phase[r] = "apply"
    /\ Move(r, "serve")
    /\ lease' = Free
    /\ UNCHANGED <<conn, early, faults>>

-----------------------------------------------------------------------------
(* The end of a process.                                                   *)

\* What the process leaves behind when it ends without more ado.
Abandons(r, fate) ==
    /\ Move(r, "down")
    /\ lease' = IF lease.holder = r THEN [holder |-> Dead, age |-> 0] ELSE lease
    /\ conn' = [q \in Requests |->
                  IF At(q, r, Open) THEN [Fresh EXCEPT !.at = fate] ELSE conn[q]]
    /\ UNCHANGED early

\* It is killed, ListenAndServe returns an error, or SIGTERM comes before
\* signal.Notify.
Crash(r) ==
    /\ phase[r] # "down"
    /\ Fault
    /\ Abandons(r, "killed")

\* SIGTERM: the listener is closed, Shutdown begins.
Signal(r) ==
    /\ phase[r] = "serve"
    /\ Move(r, "drain")
    /\ Fault
    /\ early' = early \cup {q \in Requests : At(q, r, {"work"}) /\ conn[q].work > 0}
    /\ UNCHANGED <<lease, conn>>

\* Shutdown returns nil; the deferred userDAO.Close closes the pool ...
Drained(r) ==
    /\ phase[r] = "drain"
    /\ Quiet(r)
    /\ Move(r, "closed")
    /\ UNCHANGED <<lease, conn, early, faults>>

\* ... and main returns.
Exit(r) ==
    /\ phase[r] = "closed"
    /\ Move(r, "down")
    /\ UNCHANGED <<lease, conn, early, faults>>

\* Shutdown returns an error: exit with 1, under the handlers that are left.
DrainFails(r) ==
    /\ phase[r] = "drain"
    /\ GivesUp(r)
    /\ Abandons(r, "cut")
    /\ UNCHANGED faults

-----------------------------------------------------------------------------
(* Connections.                                                            *)

Rest == UNCHANGED <<phase, clock, lease, early, faults>>

Accepted(r) == [Fresh EXCEPT !.at = "new", !.on = r]

Connect(q, r) ==
    /\ conn[q].at = "none" /\ phase[r] = "serve"
    /\ conn' = [conn EXCEPT ![q] = Accepted(r)]
    /\ Rest

Finish(q) == conn' = [conn EXCEPT ![q] = [Fresh EXCEPT !.at = "over"]]

\* The header is in: the handler runs and reads the body ...
HeaderIn(q) ==
    /\ conn[q].at = "new"
    /\ conn' = [conn EXCEPT ![q].at = "body"]
    /\ Rest

\* ... which is in.
Received(c) == [c EXCEPT !.at = "work", !.age = 0]

BodyIn(q) ==
    /\ conn[q].at = "body"
    /\ conn' = [conn EXCEPT ![q] = Received(conn[q])]
    /\ Rest

\* The server closes a connection whose header does not come,
HeaderLate(q) == conn[q].at = "new" /\ HeaderIsLate(q) /\ Finish(q) /\ Rest

\* and a handler answers with an error when the body does not.
BodyLate(q) == conn[q].at = "body" /\ BodyIsLate(q) /\ Finish(q) /\ Rest

\* At the latest when its context is done the handler answers.
Reply(q) == conn[q].at = "work" /\ Finish(q) /\ Rest

-----------------------------------------------------------------------------
(* Time.                                                                   *)

Overdue ==
    \/ \E r \in Replicas :
          \/ phase[r] = "migrate" /\ Available
          \/ phase[r] \in {"migrate", "apply"} /\ Expires(r)
          \/ phase[r] = "drain" /\ (GivesUp(r) \/ Quiet(r))
    \/ \E q \in Requests :
          \/ conn[q].at = "new" /\ HeaderIsLate(q)
          \/ conn[q].at = "body" /\ BodyIsLate(q)
          \/ conn[q].at = "work" /\ HandlerIsLate(q)

\* A timer that has fired counts no further.
Count(n, timeout) == IF n < timeout THEN n + 1 ELSE n

Older(c) ==
    [c EXCEPT !.age  = IF c.at \in {"new", "body"} THEN Count(@, ReadTimeout) ELSE @,
              !.work = IF c.at \in {"body", "work"} THEN Count(@, RequestTimeout) ELSE @]

Tick ==
    /\ ~Overdue
    /\ clock' = [r \in Replicas |->
                   IF phase[r] \in {"migrate", "apply", "drain"} THEN clock[r] + 1 ELSE 0]
    /\ lease' = IF lease.holder = Dead
                THEN [lease EXCEPT !.age = Count(@, StaleAfter)] ELSE lease
    /\ conn' = [q \in Requests |-> Older(conn[q])]
    /\ UNCHANGED <<phase, early, faults>>

-----------------------------------------------------------------------------
Boot(r) == Restart(r) \/ StartMigration(r) \/ AcquireLease(r) \/ MigrationExpires(r)

Stop(r) == Drained(r) \/ Exit(r) \/ DrainFails(r)

Process(r) ==
    Boot(r) \/ BootFails(r) \/ MigrationFails(r) \/ Listen(r) \/ Crash(r) \/ Signal(r) \/ Stop(r)

Timed(q) == HeaderLate(q) \/ BodyLate(q) \/ (HandlerIsLate(q) /\ Reply(q))

Request(q) == HeaderIn(q) \/ BodyIn(q) \/ HeaderLate(q) \/ BodyLate(q) \/ Reply(q)

Next ==
    \/ \E r \in Replicas : Process(r)
    \/ \E q \in Requests : Request(q) \/ \E r \in Replicas : Connect(q, r)
    \/ Tick

Spec == Init /\ [][Next]_vars

\* Processes and timers go on; clients need not.  A migration that is tried
\* again and again fits into its deadline in the end: nothing else would let
\* the server start.
Fairness ==
    /\ \A r \in Replicas : WF_vars(Boot(r)) /\ SF_vars(Listen(r)) /\ WF_vars(Stop(r))
    /\ \A q \in Requests : WF_vars(Timed(q))
    /\ WF_vars(Tick)

FairSpec == Spec /\ Fairness

-----------------------------------------------------------------------------
(* Properties.                                                             *)

\* The pool is closed under no handler: main's deferred Close runs only after
\* a Shutdown for which every request was over.
PoolOutlivesHandlers ==
    \A r \in Replicas, q \in Requests : phase[r] = "closed" => ~At(q, r, Open)

\* A request that was at work a tick before the signal is answered, whatever
\* else the server still waits for: Shutdown waits for as long as such a
\* handler may take, and only a crash takes its answer away.
EarlyRequestsAreAnswered ==
    \A q \in early : conn[q].at # "cut"

\* A server that is down serves in the end, although one restart after a
\* crash in mid-migration lasts 15 s and the lease of the dead 60 s.
ServesAgain ==
    \A r \in Replicas : phase[r] = "down" ~> phase[r] = "serve"

\* No client keeps a connection for ever, however slowly it sends.
ConnectionsEnd ==
    \A q \in Requests : conn[q].at \in Open ~> conn[q].at \in Over
=============================================================================
