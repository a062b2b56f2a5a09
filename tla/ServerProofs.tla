---------------------------- MODULE ServerProofs ----------------------------
(***************************************************************************)
(* Proofs about Server, for any replicas, requests, timeouts and faults.   *)
(***************************************************************************)
EXTENDS Server, TLAPS

LEMMA AssumptionTypes ==
    /\ None \notin Replicas /\ Dead \notin Replicas /\ None # Dead
    /\ MigrateTimeout \in Nat /\ StaleAfter \in Nat /\ HeaderTimeout \in Nat
    /\ ReadTimeout \in Nat /\ RequestTimeout \in Nat /\ ShutdownTimeout \in Nat
    /\ MaxFaults \in Nat
  BY ServerAssumption

-----------------------------------------------------------------------------
(* Types.                                                                  *)

\* How long a process may have run in its phase.
Within(p, n) ==
    n <= IF p \in {"migrate", "apply"} THEN MigrateTimeout
         ELSE IF p = "drain" THEN ShutdownTimeout ELSE 0

ClockOK == \A r \in Replicas : Within(phase[r], clock[r])

PhaseTypes == phase \in [Replicas -> Phases] /\ clock \in [Replicas -> Nat] /\ ClockOK

Leases == [holder : Replicas \cup {None, Dead}, age : 0..StaleAfter]

LEMMA TypeOKParts ==
    TypeOK <=> /\ PhaseTypes
               /\ lease \in Leases
               /\ conn \in [Requests -> Conns]
               /\ early \subseteq Requests
               /\ faults \in 0..MaxFaults
  BY DEF TypeOK, PhaseTypes, ClockOK, Within, Leases

LEMMA TypeOKNext ==
    /\ PhaseTypes'
    /\ lease' \in Leases
    /\ conn' \in [Requests -> Conns]
    /\ early' \subseteq Requests
    /\ faults' \in 0..MaxFaults
    => TypeOK'
  BY DEF TypeOK, PhaseTypes, ClockOK, Within, Leases

LEMMA MoveTyped ==
    ASSUME PhaseTypes, NEW r \in Replicas, NEW to \in Phases, Move(r, to)
    PROVE  PhaseTypes'
<1>1. phase' \in [Replicas -> Phases] /\ clock' \in [Replicas -> Nat]
  BY DEF PhaseTypes, Move
<1>2. ASSUME NEW s \in Replicas PROVE Within(phase'[s], clock'[s])
  <2>1. CASE s = r
    <3>1. clock'[s] = 0
      BY <2>1 DEF PhaseTypes, Move
    <3>2. QED
      BY <3>1, AssumptionTypes DEF Within
  <2>2. CASE s # r
    BY <2>2 DEF PhaseTypes, ClockOK, Move
  <2>3. QED
    BY <2>1, <2>2
<1>3. QED
  BY <1>1, <1>2 DEF PhaseTypes, ClockOK

LEMMA FreshTyped == Fresh \in Conns /\ Free \in Leases
  BY AssumptionTypes DEF Fresh, Free, Conns, Leases, Open, Over

LEMMA FaultTyped == faults \in 0..MaxFaults /\ Fault => faults' \in 0..MaxFaults
  BY AssumptionTypes DEF Fault

LEMMA AbandonsTyped ==
    ASSUME TypeOK, NEW r \in Replicas, NEW fate \in Over, Abandons(r, fate)
    PROVE  PhaseTypes' /\ lease' \in Leases /\ conn' \in [Requests -> Conns]
<1>1. PhaseTypes'
  BY TypeOKParts, MoveTyped DEF Abandons, Phases
<1>2. lease' \in Leases
  BY TypeOKParts, AssumptionTypes DEF Abandons, Leases
<1>3. [Fresh EXCEPT !.at = fate] \in Conns
  BY FreshTyped DEF Conns
<1>4. conn' \in [Requests -> Conns]
  BY <1>3, TypeOKParts DEF Abandons
<1>5. QED
  BY <1>1, <1>2, <1>4

LEMMA ProcessTyped ==
    ASSUME TypeOK, NEW r \in Replicas, Process(r)
    PROVE  TypeOK'
<1>t. /\ PhaseTypes /\ lease \in Leases /\ conn \in [Requests -> Conns]
      /\ early \subseteq Requests /\ faults \in 0..MaxFaults
  BY TypeOKParts
<1>m. ASSUME NEW to \in Phases, Move(r, to) PROVE PhaseTypes'
  BY <1>t, <1>m, MoveTyped
<1>1. CASE Restart(r)
  BY <1>1, <1>t, <1>m, TypeOKNext DEF Restart, Phases
<1>2. CASE BootFails(r)
  BY <1>2, <1>t, <1>m, TypeOKNext, FaultTyped DEF BootFails, Phases
<1>3. CASE StartMigration(r)
  BY <1>3, <1>t, <1>m, TypeOKNext DEF StartMigration, Phases
<1>4. CASE AcquireLease(r)
  <2>1. PhaseTypes'
    BY <1>4, <1>t DEF AcquireLease, PhaseTypes, ClockOK, Within, Phases
  <2>2. lease' \in Leases
    BY <1>4, AssumptionTypes DEF AcquireLease, Leases
  <2>3. QED
    BY <1>4, <1>t, <2>1, <2>2, TypeOKNext DEF AcquireLease
<1>5. CASE MigrationExpires(r)
  <2>1. lease' \in Leases
    BY <1>5, <1>t, FreshTyped DEF MigrationExpires
  <2>2. QED
    BY <1>5, <1>t, <1>m, <2>1, TypeOKNext DEF MigrationExpires, Phases
<1>6. CASE MigrationFails(r)
  <2>1. [holder |-> Dead, age |-> 0] \in Leases
    BY AssumptionTypes DEF Leases
  <2>2. lease' \in Leases
    BY <1>6, <1>t, <2>1, FreshTyped DEF MigrationFails
  <2>3. QED
    BY <1>6, <1>t, <1>m, <2>2, TypeOKNext, FaultTyped DEF MigrationFails, Phases
<1>7. CASE Listen(r)
  BY <1>7, <1>t, <1>m, TypeOKNext, FreshTyped DEF Listen, Phases
<1>8. CASE Crash(r)
  BY <1>8, <1>t, AbandonsTyped, TypeOKNext, FaultTyped DEF Crash, Over, Abandons
<1>9. CASE Signal(r)
  BY <1>9, <1>t, <1>m, TypeOKNext, FaultTyped DEF Signal, Phases
<1>10. CASE Drained(r)
  BY <1>10, <1>t, <1>m, TypeOKNext DEF Drained, Phases
<1>11. CASE Exit(r)
  BY <1>11, <1>t, <1>m, TypeOKNext DEF Exit, Phases
<1>12. CASE DrainFails(r)
  BY <1>12, <1>t, AbandonsTyped, TypeOKNext DEF DrainFails, Over, Abandons
<1>13. QED
  BY <1>1, <1>2, <1>3, <1>4, <1>5, <1>6, <1>7, <1>8, <1>9, <1>10, <1>11, <1>12
     DEF Process, Boot, Stop

LEMMA WorkTyped ==
    ASSUME NEW c \in Conns
    PROVE  Received(c) \in Conns
<1>1. "work" \in {"none"} \cup Open \cup Over /\ 0 \in 0..ReadTimeout
  BY AssumptionTypes DEF Open
<1>2. QED
  BY <1>1 DEF Received, Conns

\* Older changes nothing but the timers.
LEMMA OlderKeeps ==
    ASSUME NEW c \in Conns
    PROVE  /\ Older(c).at = c.at /\ Older(c).on = c.on
           /\ c.at = "work" => Older(c).work = Count(c.work, RequestTimeout)
  BY DEF Older, Conns

\* A step of one request touches nothing but its connection.
LEMMA RequestLocal ==
    ASSUME NEW q, Request(q) \/ \E r \in Replicas : Connect(q, r)
    PROVE  /\ UNCHANGED <<phase, clock, lease, early, faults>>
           /\ \E c : conn' = [conn EXCEPT ![q] = c]
<1>1. CASE \E r \in Replicas : Connect(q, r)
  <2>1. PICK r \in Replicas : Connect(q, r)
    BY <1>1
  <2>2. QED
    BY <2>1 DEF Connect, Rest
<1>2. CASE HeaderIn(q)
  BY <1>2 DEF HeaderIn, Rest
<1>3. CASE BodyIn(q)
  BY <1>3 DEF BodyIn, Rest
<1>4. CASE HeaderLate(q)
  BY <1>4 DEF HeaderLate, Finish, Rest
<1>5. CASE BodyLate(q)
  BY <1>5 DEF BodyLate, Finish, Rest
<1>6. CASE Reply(q)
  BY <1>6 DEF Reply, Finish, Rest
<1>7. QED
  BY <1>1, <1>2, <1>3, <1>4, <1>5, <1>6 DEF Request

LEMMA RequestTyped ==
    ASSUME TypeOK, NEW q \in Requests,
           Request(q) \/ \E r \in Replicas : Connect(q, r)
    PROVE  TypeOK'
<1>t. /\ PhaseTypes /\ lease \in Leases /\ conn \in [Requests -> Conns]
      /\ early \subseteq Requests /\ faults \in 0..MaxFaults
  BY TypeOKParts
<1>1. [conn EXCEPT ![q] = [Fresh EXCEPT !.at = "over"]] \in [Requests -> Conns]
  BY <1>t, FreshTyped DEF Conns, Over
<1>2. ASSUME NEW r \in Replicas
      PROVE  [conn EXCEPT ![q] = Accepted(r)] \in [Requests -> Conns]
  BY <1>t, FreshTyped DEF Accepted, Conns, Open
<1>3. [conn EXCEPT ![q].at = "body"] \in [Requests -> Conns]
  BY <1>t DEF Conns, Open
<1>4. [conn EXCEPT ![q] = Received(conn[q])] \in [Requests -> Conns]
  <2>1. conn[q] \in Conns
    BY <1>t
  <2>2. Received(conn[q]) \in Conns
    BY <2>1, WorkTyped
  <2>3. QED
    BY <1>t, <2>2
<1>5. Rest /\ conn' \in [Requests -> Conns]
  <2>1. CASE \E r \in Replicas : Connect(q, r)
    <3>1. PICK r \in Replicas : Connect(q, r)
      BY <2>1
    <3>2. QED
      BY <3>1, <1>2 DEF Connect
  <2>2. CASE HeaderIn(q)
    BY <2>2, <1>3 DEF HeaderIn
  <2>3. CASE BodyIn(q)
    BY <2>3, <1>4 DEF BodyIn
  <2>4. CASE HeaderLate(q) \/ BodyLate(q) \/ Reply(q)
    BY <2>4, <1>1 DEF HeaderLate, BodyLate, Reply, Finish
  <2>5. QED
    BY <2>1, <2>2, <2>3, <2>4 DEF Request
<1>6. PhaseTypes'
  BY <1>5, <1>t DEF Rest, PhaseTypes, ClockOK, Within
<1>7. QED
  BY <1>5, <1>6, <1>t, TypeOKNext DEF Rest

LEMMA CountTyped ==
    ASSUME NEW t \in Nat, NEW n \in 0..t
    PROVE  Count(n, t) \in 0..t
  BY DEF Count

LEMMA TickTyped == TypeOK /\ Tick => TypeOK'
<1> SUFFICES ASSUME TypeOK, Tick PROVE TypeOK'
  OBVIOUS
<1>t. /\ PhaseTypes /\ lease \in Leases /\ conn \in [Requests -> Conns]
      /\ early \subseteq Requests /\ faults \in 0..MaxFaults
  BY TypeOKParts
<1>1. PhaseTypes'
  <2>1. phase' \in [Replicas -> Phases] /\ clock' \in [Replicas -> Nat]
    BY <1>t DEF PhaseTypes, Tick
  <2>2. ASSUME NEW r \in Replicas PROVE Within(phase'[r], clock'[r])
    <3>1. clock[r] \in Nat /\ phase'[r] = phase[r] /\ Within(phase[r], clock[r])
      BY <1>t DEF PhaseTypes, ClockOK, Tick
    <3>2. clock'[r] = IF phase[r] \in {"migrate", "apply", "drain"} THEN clock[r] + 1 ELSE 0
      BY DEF Tick
    <3>3. CASE phase[r] \in {"migrate", "apply"}
      BY <3>1, <3>2, <3>3, AssumptionTypes DEF Within, Tick, Overdue, Expires
    <3>4. CASE phase[r] = "drain"
      BY <3>1, <3>2, <3>4, AssumptionTypes DEF Within, Tick, Overdue, GivesUp
    <3>5. CASE phase[r] \notin {"migrate", "apply", "drain"}
      BY <3>1, <3>2, <3>5 DEF Within
    <3>6. QED
      BY <3>3, <3>4, <3>5
  <2>3. QED
    BY <2>1, <2>2 DEF PhaseTypes, ClockOK
<1>2. lease' \in Leases
  <2>1. Count(lease.age, StaleAfter) \in 0..StaleAfter
    BY <1>t, CountTyped, AssumptionTypes DEF Leases
  <2>2. QED
    BY <1>t, <2>1 DEF Tick, Leases
<1>3. conn' \in [Requests -> Conns]
  <2>1. ASSUME NEW q \in Requests PROVE Older(conn[q]) \in Conns
    <3>1. conn[q] \in Conns
      BY <1>t
    <3>2. Count(conn[q].age, ReadTimeout) \in 0..ReadTimeout
      BY <3>1, CountTyped, AssumptionTypes DEF Conns
    <3>3. Count(conn[q].work, RequestTimeout) \in 0..RequestTimeout
      BY <3>1, CountTyped, AssumptionTypes DEF Conns
    <3>4. QED
      BY <3>1, <3>2, <3>3 DEF Older, Conns
  <2>2. QED
    BY <2>1 DEF Tick
<1>4. QED
  BY <1>t, <1>1, <1>2, <1>3, TypeOKNext DEF Tick

\* The types of Server's state, under any faults and for any timeouts.
THEOREM TypeCorrect == Spec => []TypeOK
<1>1. Init => TypeOK
  <2> SUFFICES ASSUME Init PROVE TypeOK
    OBVIOUS
  <2>1. PhaseTypes
    BY DEF Init, PhaseTypes, ClockOK, Within, Phases
  <2>2. QED
    BY <2>1, FreshTyped, AssumptionTypes, TypeOKParts DEF Init
<1>2. TypeOK /\ [Next]_vars => TypeOK'
  <2> SUFFICES ASSUME TypeOK, [Next]_vars PROVE TypeOK'
    OBVIOUS
  <2>1. ASSUME NEW r \in Replicas, Process(r) PROVE TypeOK'
    BY <2>1, ProcessTyped
  <2>2. ASSUME NEW q \in Requests, Request(q) \/ \E r \in Replicas : Connect(q, r)
        PROVE  TypeOK'
    BY <2>2, RequestTyped
  <2>3. CASE Tick
    BY <2>3, TickTyped
  <2>4. CASE UNCHANGED vars
    BY <2>4 DEF vars, TypeOK
  <2>5. QED
    BY <2>1, <2>2, <2>3, <2>4 DEF Next
<1>3. QED
  BY <1>1, <1>2, PTL DEF Spec

-----------------------------------------------------------------------------
(* The pool and the handlers.                                              *)

\* A connection is open only at a process that serves or waits for it.
HandlersRun ==
    \A r \in Replicas, q \in Requests : At(q, r, Open) => phase[r] \in {"serve", "drain"}

\* What keeps HandlersRun: the phases move, and connections with them.
LEMMA HandlersRunOn ==
    ASSUME TypeOK, HandlersRun, [Next]_vars
    PROVE  HandlersRun'
<1>t. phase \in [Replicas -> Phases] /\ conn \in [Requests -> Conns]
  BY DEF TypeOK
<1>m. ASSUME NEW r \in Replicas, NEW to \in Phases, Move(r, to), UNCHANGED conn,
             \/ phase[r] \notin {"serve", "drain"}
             \/ to = "drain"
             \/ Quiet(r)
      PROVE  HandlersRun'
  BY <1>t, <1>m DEF HandlersRun, Move, At, Quiet
<1>a. ASSUME NEW r \in Replicas, NEW fate \in Over, Abandons(r, fate)
      PROVE  HandlersRun'
  <2>1. SUFFICES ASSUME NEW s \in Replicas, NEW q \in Requests, At(q, s, Open)'
                 PROVE  phase'[s] \in {"serve", "drain"}
    BY DEF HandlersRun
  <2>2. ~At(q, r, Open) /\ conn'[q] = conn[q]
    BY <1>a, <1>t, <2>1 DEF Abandons, At, Fresh, Open, Over
  <2>3. s # r /\ At(q, s, Open)
    BY <2>1, <2>2 DEF At
  <2>4. phase'[s] = phase[s]
    BY <1>a, <1>t, <2>3 DEF Abandons, Move
  <2>5. QED
    BY <2>3, <2>4 DEF HandlersRun
<1>1. ASSUME NEW r \in Replicas, Process(r) PROVE HandlersRun'
  <2>1. CASE Restart(r)
    BY <2>1, <1>m DEF Restart, Phases
  <2>2. CASE BootFails(r)
    BY <2>2, <1>m DEF BootFails, Phases
  <2>3. CASE StartMigration(r)
    BY <2>3, <1>m DEF StartMigration, Phases
  <2>4. CASE AcquireLease(r)
    BY <2>4, <1>t DEF AcquireLease, HandlersRun, At
  <2>5. CASE MigrationExpires(r)
    BY <2>5, <1>m DEF MigrationExpires, Phases
  <2>6. CASE MigrationFails(r)
    BY <2>6, <1>m DEF MigrationFails, Phases
  <2>7. CASE Listen(r)
    BY <2>7, <1>m DEF Listen, Phases
  <2>8. CASE Crash(r)
    BY <2>8, <1>a DEF Crash, Over
  <2>9. CASE Signal(r)
    BY <2>9, <1>m DEF Signal, Phases
  <2>10. CASE Drained(r)
    BY <2>10, <1>m DEF Drained, Phases
  <2>11. CASE Exit(r)
    BY <2>11, <1>m DEF Exit, Phases
  <2>12. CASE DrainFails(r)
    BY <2>12, <1>a DEF DrainFails, Over
  <2>13. QED
    BY <1>1, <2>1, <2>2, <2>3, <2>4, <2>5, <2>6, <2>7, <2>8, <2>9, <2>10, <2>11, <2>12
       DEF Process, Boot, Stop
<1>2. ASSUME NEW q \in Requests, Request(q) PROVE HandlersRun'
  <2>1. /\ phase' = phase
        /\ \A p \in Requests : conn'[p].at \in Open =>
              conn[p].at \in Open /\ conn'[p].on = conn[p].on
    <3>1. CASE HeaderIn(q)
      BY <3>1, <1>t DEF HeaderIn, Rest, Conns, Open
    <3>2. CASE BodyIn(q)
      BY <3>2, <1>t DEF BodyIn, Received, Rest, Conns, Open
    <3>3. CASE HeaderLate(q) \/ BodyLate(q) \/ Reply(q)
      BY <3>3, <1>t DEF HeaderLate, BodyLate, Reply, Finish, Rest, Fresh, Open
    <3>4. QED
      BY <1>2, <3>1, <3>2, <3>3 DEF Request
  <2>2. QED
    BY <2>1 DEF HandlersRun, At
<1>3. ASSUME NEW q \in Requests, NEW r \in Replicas, Connect(q, r) PROVE HandlersRun'
  BY <1>3, <1>t DEF Connect, Accepted, Rest, HandlersRun, At, Fresh
<1>4. CASE Tick
  <2>1. \A q \in Requests : conn'[q].at = conn[q].at /\ conn'[q].on = conn[q].on
    BY <1>4, <1>t, OlderKeeps DEF Tick
  <2>2. QED
    BY <1>4, <2>1 DEF Tick, HandlersRun, At
<1>5. CASE UNCHANGED vars
  BY <1>5 DEF vars, HandlersRun, At
<1>6. QED
  BY <1>1, <1>2, <1>3, <1>4, <1>5 DEF Next

\* The database is closed under no handler (main.go, the deferred Close), for
\* any number of connections and any timeouts.
THEOREM PoolStaysOpen == Spec => []PoolOutlivesHandlers
<1>1. Init => HandlersRun
  BY DEF Init, HandlersRun, At, Fresh, Open
<1>2. TypeOK /\ HandlersRun /\ [Next]_vars => HandlersRun'
  BY HandlersRunOn
<1>3. HandlersRun => PoolOutlivesHandlers
  BY DEF HandlersRun, PoolOutlivesHandlers
<1>4. QED
  BY <1>1, <1>2, <1>3, TypeCorrect, PTL DEF Spec

-----------------------------------------------------------------------------
(* Requests before a signal.                                               *)

\* Why an early request is answered: while Shutdown waits for it, its handler
\* is at least a tick ahead of Shutdown's own timer.
Ahead(q) ==
    /\ conn[q].at \in {"work", "over", "killed"}
    /\ conn[q].at = "work" =>
         /\ conn[q].on \in Replicas
         /\ phase[conn[q].on] = "drain"
         /\ clock[conn[q].on] + 1 <= conn[q].work

EarlyAhead == \A q \in early : Ahead(q)

\* A step that changes neither this request nor the phase it waits in.
LEMMA AheadKept ==
    ASSUME NEW q, Ahead(q), conn'[q] = conn[q],
           conn[q].at = "work" =>
             phase'[conn[q].on] = phase[conn[q].on] /\ clock'[conn[q].on] = clock[conn[q].on]
    PROVE  Ahead(q)'
  BY DEF Ahead

LEMMA EarlyAheadKept ==
    ASSUME RequestTimeout <= ShutdownTimeout, TypeOK, EarlyAhead, [Next]_vars
    PROVE  EarlyAhead'
<1>t. /\ phase \in [Replicas -> Phases] /\ clock \in [Replicas -> Nat]
      /\ conn \in [Requests -> Conns] /\ early \subseteq Requests
  BY DEF TypeOK
<1>m. ASSUME NEW r \in Replicas, NEW to \in Phases, Move(r, to), UNCHANGED <<conn, early>>,
             phase[r] # "drain" \/ Quiet(r)
      PROVE  EarlyAhead'
  <2>1. SUFFICES ASSUME NEW q \in early PROVE Ahead(q)'
    BY <1>m DEF EarlyAhead
  <2>2. Ahead(q) /\ q \in Requests
    BY <1>t DEF EarlyAhead
  <2>3. conn[q].at = "work" => conn[q].on # r
    BY <1>m, <2>2 DEF Ahead, Quiet, At, Open
  <2>4. QED
    BY <1>m, <1>t, <2>2, <2>3, AheadKept DEF Move, Ahead
<1>a. ASSUME NEW r \in Replicas, NEW fate \in Over, Abandons(r, fate),
             \/ fate = "killed"
             \/ \A q \in early : ~At(q, r, Open)
      PROVE  EarlyAhead'
  <2>1. SUFFICES ASSUME NEW q \in early PROVE Ahead(q)'
    BY <1>a DEF EarlyAhead, Abandons
  <2>2. Ahead(q) /\ q \in Requests
    BY <1>t DEF EarlyAhead
  <2>3. CASE At(q, r, Open)
    <3>1. conn'[q].at = "killed"
      BY <1>a, <2>1, <2>2, <2>3 DEF Abandons, Fresh
    <3>2. QED
      BY <3>1 DEF Ahead
  <2>4. CASE ~At(q, r, Open)
    <3>1. conn'[q] = conn[q]
      BY <1>a, <2>2, <2>4 DEF Abandons
    <3>2. conn[q].at = "work" => conn[q].on # r
      BY <2>4 DEF At, Open
    <3>3. QED
      BY <1>a, <1>t, <2>2, <3>1, <3>2, AheadKept DEF Abandons, Move, Ahead
  <2>5. QED
    BY <2>3, <2>4
<1>1. ASSUME NEW r \in Replicas, Process(r) PROVE EarlyAhead'
  <2>1. CASE Restart(r)
    BY <2>1, <1>m DEF Restart, Phases
  <2>2. CASE BootFails(r)
    BY <2>2, <1>m DEF BootFails, Phases
  <2>3. CASE StartMigration(r)
    BY <2>3, <1>m DEF StartMigration, Phases
  <2>4. CASE AcquireLease(r)
    BY <2>4, <1>t, AheadKept DEF AcquireLease, EarlyAhead, Ahead
  <2>5. CASE MigrationExpires(r)
    BY <2>5, <1>m DEF MigrationExpires, Phases
  <2>6. CASE MigrationFails(r)
    BY <2>6, <1>m DEF MigrationFails, Phases
  <2>7. CASE Listen(r)
    BY <2>7, <1>m DEF Listen, Phases
  <2>8. CASE Crash(r)
    BY <2>8, <1>a DEF Crash, Over
  <2>9. CASE Signal(r)
    <3>1. SUFFICES ASSUME NEW q \in early' PROVE Ahead(q)'
      BY DEF EarlyAhead
    <3>2. phase' = [phase EXCEPT ![r] = "drain"] /\ clock' = [clock EXCEPT ![r] = 0]
      BY <2>9 DEF Signal, Move
    <3>3. CASE q \in early
      <4>1. Ahead(q) /\ q \in Requests
        BY <1>t, <3>3 DEF EarlyAhead
      <4>2. conn[q].at = "work" => conn[q].on # r
        BY <2>9, <4>1 DEF Ahead, Signal
      <4>3. QED
        BY <2>9, <1>t, <3>2, <4>1, <4>2, AheadKept DEF Signal, Ahead
    <3>4. CASE q \notin early
      <4>1. q \in Requests /\ At(q, r, {"work"}) /\ conn[q].work > 0 /\ conn'[q] = conn[q]
        BY <2>9, <3>1, <3>4 DEF Signal
      <4>2. conn[q].work \in Nat
        BY <1>t, <4>1, AssumptionTypes DEF Conns
      <4>3. phase'[r] = "drain" /\ clock'[r] = 0
        BY <1>t, <3>2
      <4>4. QED
        BY <4>1, <4>2, <4>3 DEF Ahead, At
    <3>5. QED
      BY <3>3, <3>4
  <2>10. CASE Drained(r)
    BY <2>10, <1>m DEF Drained, Phases
  <2>11. CASE Exit(r)
    BY <2>11, <1>m DEF Exit, Phases
  <2>12. CASE DrainFails(r)
    <3>1. ASSUME NEW q \in early, At(q, r, Open) PROVE FALSE
      <4>1. conn[q].at = "work" /\ clock[r] + 1 <= conn[q].work
        BY <3>1 DEF EarlyAhead, Ahead, At, Open
      <4>2. conn[q].work \in 0..RequestTimeout
        BY <1>t, <3>1 DEF Conns
      <4>3. clock[r] >= ShutdownTimeout /\ clock[r] \in Nat
        BY <2>12, <1>t DEF DrainFails, GivesUp
      <4>4. QED
        BY <4>1, <4>2, <4>3, AssumptionTypes
    <3>2. QED
      BY <2>12, <1>a, <3>1 DEF DrainFails, Over
  <2>13. QED
    BY <1>1, <2>1, <2>2, <2>3, <2>4, <2>5, <2>6, <2>7, <2>8, <2>9, <2>10, <2>11, <2>12
       DEF Process, Boot, Stop
<1>2. ASSUME NEW q \in Requests, Request(q) \/ \E r \in Replicas : Connect(q, r)
      PROVE  EarlyAhead'
  <2>1. SUFFICES ASSUME NEW p \in early PROVE Ahead(p)'
    BY <1>2, RequestLocal DEF EarlyAhead
  <2>2. Ahead(p) /\ p \in Requests
    BY <1>t DEF EarlyAhead
  <2>3. phase' = phase /\ clock' = clock
    BY <1>2, RequestLocal
  <2>4. CASE p # q
    <3>1. conn'[p] = conn[p]
      <4>1. PICK c : conn' = [conn EXCEPT ![q] = c]
        BY <1>2, RequestLocal
      <4>2. QED
        BY <4>1, <1>t, <2>2, <2>4
    <3>2. QED
      BY <2>2, <2>3, <3>1, AheadKept
  <2>5. CASE p = q
    <3>1. Reply(q)
      <4>1. conn[q].at \notin {"none", "new", "body"}
        BY <2>2, <2>5 DEF Ahead
      <4>2. ASSUME NEW r \in Replicas PROVE ~Connect(q, r)
        BY <4>1 DEF Connect
      <4>3. ~HeaderIn(q) /\ ~BodyIn(q) /\ ~HeaderLate(q) /\ ~BodyLate(q)
        BY <4>1 DEF HeaderIn, BodyIn, HeaderLate, BodyLate
      <4>4. QED
        BY <1>2, <4>2, <4>3 DEF Request
    <3>2. conn'[q].at = "over"
      BY <1>t, <3>1 DEF Reply, Finish, Fresh
    <3>3. QED
      BY <2>5, <3>2 DEF Ahead
  <2>6. QED
    BY <2>4, <2>5
<1>3. CASE Tick
  <2>1. SUFFICES ASSUME NEW q \in early PROVE Ahead(q)'
    BY <1>3 DEF EarlyAhead, Tick
  <2>2. Ahead(q) /\ q \in Requests /\ conn[q] \in Conns
    BY <1>t DEF EarlyAhead
  <2>3. conn'[q].at = conn[q].at /\ conn'[q].on = conn[q].on
    BY <1>3, <2>2, OlderKeeps DEF Tick
  <2>4. CASE conn[q].at = "work"
    <3>1. conn[q].work \in Nat /\ conn[q].work < RequestTimeout
      BY <1>3, <2>2, <2>4, AssumptionTypes DEF Tick, Overdue, HandlerIsLate, Conns
    <3>2. conn'[q].work = conn[q].work + 1
      BY <1>3, <2>2, <2>4, <3>1, OlderKeeps DEF Tick, Count
    <3>3. /\ conn[q].on \in Replicas /\ phase[conn[q].on] = "drain"
          /\ clock[conn[q].on] + 1 <= conn[q].work
      BY <2>2, <2>4 DEF Ahead
    <3>4. clock'[conn[q].on] = clock[conn[q].on] + 1 /\ phase' = phase
      BY <1>3, <3>3 DEF Tick
    <3>5. clock[conn[q].on] \in Nat
      BY <1>t, <3>3
    <3>6. QED
      BY <2>3, <2>4, <3>1, <3>2, <3>3, <3>4, <3>5 DEF Ahead
  <2>5. CASE conn[q].at # "work"
    BY <2>2, <2>3, <2>5 DEF Ahead
  <2>6. QED
    BY <2>4, <2>5
<1>4. CASE UNCHANGED vars
  BY <1>4, AheadKept DEF vars, EarlyAhead
<1>5. QED
  BY <1>1, <1>2, <1>3, <1>4 DEF Next

\* Shutdown cuts no request that was at work a tick before the signal, as long
\* as it waits for as long as a handler may take: 10 s each, in main.go and in
\* server.go.
THEOREM EarlyRequestsFinish ==
    ASSUME RequestTimeout <= ShutdownTimeout
    PROVE  Spec => []EarlyRequestsAreAnswered
<1>1. Init => EarlyAhead
  BY DEF Init, EarlyAhead
<1>2. TypeOK /\ EarlyAhead /\ [Next]_vars => EarlyAhead'
  BY EarlyAheadKept
<1>3. EarlyAhead => EarlyRequestsAreAnswered
  BY DEF EarlyAhead, Ahead, EarlyRequestsAreAnswered
<1>4. QED
  BY <1>1, <1>2, <1>3, TypeCorrect, PTL DEF Spec
=============================================================================
