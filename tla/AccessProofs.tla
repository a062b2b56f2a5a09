---------------------------- MODULE AccessProofs ----------------------------
(***************************************************************************)
(* What a bearer token opens and for how long, for every number of users,  *)
(* logins and ticks: proofs checked by TLAPS.                              *)
(***************************************************************************)
EXTENDS Access, UserStoreProofs

Tokens == [sub : Requests, issued : Nat, exp : Nat]
Asks   == [id : Requests, age : Nat]

AccessTypeOK ==
    /\ now \in Nat
    /\ token \in [Logins -> Tokens \cup {None}]
    /\ ask \in [Logins -> Asks \cup {None}]
    /\ DOMAIN reply = Logins

\* A token names the user whose password was given, and a login gets one.
TokensAreOwn ==
    \A l \in Logins : token[l] # None =>
        /\ token[l].sub = CredsOf[l]
        /\ token[l].issued <= now
        /\ token[l].exp = (token[l].issued + Ttl) \div Second
        /\ answer[l] = "granted"

\* A request that got as far as the database was its owner's, and came when
\* the token was good.
AsksAreOwn ==
    \A l \in Logins : ask[l] # None =>
        /\ token[l] # None
        /\ ask[l].id = CredsOf[l]
        /\ ask[l].age <= RequestTimeout
        /\ now - ask[l].age < token[l].issued + Ttl

AccessInv ==
    /\ Inv
    /\ AccessTypeOK
    /\ TokensAreOwn
    /\ AsksAreOwn
    /\ OwnProfileOnly
    /\ TokenLastsItsTime

-----------------------------------------------------------------------------
(* Whole seconds.                                                          *)

\* Rounding down loses less than a second.
LEMMA DivBounds ==
    ASSUME NEW a \in Nat, NEW s \in Nat \ {0}
    PROVE  (a \div s) \in Nat /\ s * (a \div s) <= a /\ a < s * (a \div s) + s
  OBVIOUS

LEMMA TimesLess ==
    ASSUME NEW s \in Nat \ {0}, NEW x \in Nat, NEW y \in Nat, x < y
    PROVE  s * x + s <= s * y
  OBVIOUS

LEMMA TimesAtMost ==
    ASSUME NEW s \in Nat \ {0}, NEW x \in Nat, NEW y \in Nat, x <= y
    PROVE  s * x <= s * y
  OBVIOUS

\* An earlier second is an earlier time.
LEMMA EarlierSecond ==
    ASSUME NEW a \in Nat, NEW b \in Nat, NEW s \in Nat \ {0}, a \div s < b \div s
    PROVE  a < b
<1> DEFINE x == a \div s
           y == b \div s
<1>1. x \in Nat /\ a < s * x + s
    BY DivBounds
<1>2. y \in Nat /\ s * y <= b
    BY DivBounds
<1>3. s * x + s <= s * y
    BY <1>1, <1>2, TimesLess
<1>4. s * x \in Nat /\ s * y \in Nat
    BY <1>1, <1>2
<1> HIDE DEF x, y
<1> QED
    BY <1>1, <1>2, <1>3, <1>4

\* The same second or a later one is at most a second earlier.
LEMMA LaterSecond ==
    ASSUME NEW a \in Nat, NEW b \in Nat, NEW s \in Nat \ {0}, b \div s <= a \div s
    PROVE  b - s < a
<1> DEFINE x == a \div s
           y == b \div s
<1>1. x \in Nat /\ s * x <= a
    BY DivBounds
<1>2. y \in Nat /\ b < s * y + s
    BY DivBounds
<1>3. s * y <= s * x
    BY <1>1, <1>2, TimesAtMost
<1>4. s * x \in Nat /\ s * y \in Nat
    BY <1>1, <1>2
<1> HIDE DEF x, y
<1> QED
    BY <1>1, <1>2, <1>3, <1>4

\* What was asked at most wait ago, before the end, is not long after it.
LEMMA AskedInTime ==
    ASSUME NEW time \in Nat, NEW age \in Nat, NEW issued \in Nat, NEW ttl \in Nat, NEW wait \in Nat,
           age <= wait, time - age < issued + ttl
    PROVE  time - issued < ttl + wait
  OBVIOUS

-----------------------------------------------------------------------------
(* The user store's steps.                                                 *)

\* A call that is answered anything but "granted" grants nobody.
LEMMA OtherAnswer ==
    ASSUME TypeOK, NEW c \in Calls, NEW what, what # "granted", Answer(c, what),
           NEW l \in Logins, answer'[l] = "granted"
    PROVE  answer[l] = "granted"
  BY DEF Answer, TypeOK, Calls

\* A login is granted at its last step, when it has found its user, and stays
\* granted.
LEMMA GrantedOnce ==
    ASSUME Inv, Next, NEW l \in Logins
    PROVE  /\ answer[l] = "granted" => answer'[l] = "granted"
           /\ answer'[l] = "granted" /\ answer[l] # "granted" => found[l] = CredsOf[l]
<1> DEFINE Kept == (answer[l] = "granted" <=> answer'[l] = "granted")
           Goal == /\ answer[l] = "granted" => answer'[l] = "granted"
                   /\ answer'[l] = "granted" /\ answer[l] # "granted" => found[l] = CredsOf[l]
<1> SUFFICES Goal
    OBVIOUS
<1> USE DEF Calls, TxOpen
<1>1. ASSUME NEW c \in Calls, pc[c] \notin {"done", "doubt"},
             NEW what \in {"created", "taken", "error", "denied"}, Answer(c, what)
      PROVE  Goal
  <2>1. answer[c] = "none"
    BY <1>1 DEF Inv, UnderWay
  <2> QED
    BY <1>1, <2>1 DEF Answer, Inv, TypeOK
<1>2. ASSUME NEW r \in Requests, CreateUser(r) \/ BeginTx(r) \/ Settle(r) \/ EndBackoff(r)
      PROVE  Goal
    BY <1>2 DEF CreateUser, BeginTx, Settle, EndBackoff
<1>3. ASSUME NEW r \in Requests, InsertProfile(r) PROVE Goal
    BY <1>1, <1>3 DEF InsertProfile
<1>4. ASSUME NEW r \in Requests, InsertCredential(r) PROVE Goal
    BY <1>1, <1>4 DEF InsertCredential
<1>5. ASSUME NEW r \in Requests, Commit(r) PROVE Goal
    BY <1>1, <1>5 DEF Commit
<1>6. ASSUME NEW r \in Requests, CommitUnknown(r) PROVE Goal
  <2>1. r # l
    BY UserStoreAssumption
  <2> QED
    BY <1>6, <2>1 DEF CommitUnknown, Inv, TypeOK
<1>7. ASSUME NEW r \in Requests, pc[r] \in TxOpen, Retry(r) PROVE Goal
    BY <1>1, <1>7 DEF Retry
<1>8. ASSUME NEW r \in Requests, Conflict(r) PROVE Goal
    BY <1>7, <1>8 DEF Conflict
<1>9. ASSUME NEW r \in Requests, BreakDeadlock(r) PROVE Goal
    BY <1>7, <1>9 DEF BreakDeadlock, Deadlocked, AbortDrop
<1>10. ASSUME NEW k \in Logins, Login(k) PROVE Goal
    BY <1>10 DEF Login
<1>11. ASSUME NEW k \in Logins, GetCredential(k) PROVE Goal
    BY <1>1, <1>11 DEF GetCredential
<1>12. ASSUME NEW k \in Logins, GetProfile(k) PROVE Goal
  <2>1. pc[k] = "check" /\ found[k] = CredsOf[k] /\ answer[k] = "none"
    BY <1>12 DEF GetProfile, Inv, UnderWay
  <2>2. PICK what \in {"error", "granted", "denied"} : Answer(k, what)
    BY <1>12 DEF GetProfile
  <2> QED
    BY <2>1, <2>2 DEF Answer, Inv, TypeOK
<1>13. ASSUME NEW c \in Calls, Fail(c) PROVE Goal
    BY <1>1, <1>13 DEF Fail
<1>14. ASSUME Drop PROVE Goal
    BY <1>14 DEF Drop, DropCredential, DropProfile, CommitDrop, AbortDrop, CreateTables
<1> QED
    BY <1>2, <1>3, <1>4, <1>5, <1>6, <1>8, <1>9, <1>10, <1>11, <1>12, <1>13, <1>14
    DEF Next, Statement, EndTx

\* Where nothing is said nothing is wrong.
LEMMA SilenceIsFine ==
    reply' = Silence => OwnProfileOnly' /\ TokenLastsItsTime'
  BY DEF Silence, OwnProfileOnly, TokenLastsItsTime

LEMMA MeanwhileKeeps ==
    ASSUME AccessInv, Meanwhile
    PROVE  AccessInv'
<1> USE UserStoreAssumption, AccessAssumption
<1>1. Inv'
    BY NextInv DEF AccessInv, Meanwhile
<1>2. ASSUME NEW l \in Logins, answer[l] # "granted", answer'[l] = "granted"
      PROVE  /\ token'[l] = Signed(CredsOf[l]) /\ Signed(CredsOf[l]) \in Tokens
             /\ token[l] = None /\ ask[l] = None
  <2>1. found[l] = CredsOf[l] /\ CredsOf[l] \in Requests
    BY <1>2, GrantedOnce DEF AccessInv, Meanwhile
  <2>2. token'[l] = Signed(CredsOf[l])
    BY <1>2, <2>1 DEF Meanwhile
  <2>3. now + Ttl \in Nat
    BY DEF AccessInv, AccessTypeOK
  <2>4. (now + Ttl) \div Second \in Nat
    BY <2>3, DivBounds
  <2>5. Signed(CredsOf[l]) \in Tokens
    BY <2>1, <2>4 DEF Signed, Tokens, AccessInv, AccessTypeOK
  <2> QED
    BY <1>2, <2>2, <2>5 DEF AccessInv, TokensAreOwn, AsksAreOwn
<1>3. ASSUME NEW l \in Logins, ~(answer[l] # "granted" /\ answer'[l] = "granted")
      PROVE  token'[l] = token[l]
    BY <1>3 DEF Meanwhile
<1>4. token' \in [Logins -> Tokens \cup {None}]
  <2>1. token' = [l \in Logins |-> token'[l]]
    BY DEF Meanwhile
  <2>2. \A l \in Logins : token'[l] \in Tokens \cup {None}
    BY <1>2, <1>3 DEF AccessInv, AccessTypeOK
  <2> QED
    BY <2>1, <2>2
<1>5. AccessTypeOK'
    BY <1>4 DEF Meanwhile, Silence, AccessInv, AccessTypeOK
<1>6. TokensAreOwn'
  <2> SUFFICES ASSUME NEW l \in Logins, token'[l] # None
               PROVE  /\ token'[l].sub = CredsOf[l]
                      /\ token'[l].issued <= now
                      /\ token'[l].exp = (token'[l].issued + Ttl) \div Second
                      /\ answer'[l] = "granted"
    BY DEF TokensAreOwn, Meanwhile
  <2>1. CASE answer[l] # "granted" /\ answer'[l] = "granted"
    <3>1. now \in Nat
      BY DEF AccessInv, AccessTypeOK
    <3>2. token'[l] = [sub |-> CredsOf[l], issued |-> now, exp |-> (now + Ttl) \div Second]
      BY <1>2, <2>1 DEF Signed
    <3>3. /\ token'[l].sub = CredsOf[l] /\ token'[l].issued = now
          /\ token'[l].exp = (now + Ttl) \div Second
      BY <3>2
    <3> QED
      BY <2>1, <3>1, <3>3
  <2>2. CASE ~(answer[l] # "granted" /\ answer'[l] = "granted")
    <3>1. answer[l] = "granted" => answer'[l] = "granted"
      BY GrantedOnce DEF AccessInv, Meanwhile
    <3> QED
      BY <1>3, <2>2, <3>1 DEF AccessInv, TokensAreOwn
  <2> QED
    BY <2>1, <2>2
<1>7. AsksAreOwn'
  <2> SUFFICES ASSUME NEW l \in Logins, ask[l] # None PROVE token'[l] = token[l]
    BY DEF Meanwhile, AccessInv, AsksAreOwn
  <2> QED
    BY <1>2, <1>3
<1>8. OwnProfileOnly' /\ TokenLastsItsTime'
    BY SilenceIsFine DEF Meanwhile
<1> QED
    BY <1>1, <1>5, <1>6, <1>7, <1>8 DEF AccessInv

-----------------------------------------------------------------------------
(* A request with a token.                                                 *)

\* The user store looks the same to everybody.
LEMMA StoreKept ==
    Inv /\ UNCHANGED vars => Inv'
  BY NextInv

LEMMA AskKeeps ==
    ASSUME AccessInv, NEW l \in Logins, NEW id \in Requests, AskProfile(l, id)
    PROVE  AccessInv'
<1> USE UserStoreAssumption, AccessAssumption
<1> DEFINE t == token[l]
<1>1. Inv' /\ token' = token /\ now' = now /\ answer' = answer
    BY StoreKept DEF AskProfile, AccessInv, vars
<1>2. t \in Tokens /\ t.sub = CredsOf[l] /\ t.issued <= now
      /\ t.exp = (t.issued + Ttl) \div Second
    BY DEF AskProfile, AccessInv, AccessTypeOK, TokensAreOwn
<1>3. now \in Nat /\ t.issued \in Nat /\ t.issued + Ttl \in Nat
    BY <1>2 DEF Tokens, AccessInv, AccessTypeOK
<1>4. TokensAreOwn'
    BY <1>1 DEF AccessInv, TokensAreOwn
<1>5. Verifies(t) => now < t.issued + Ttl
    BY <1>2, <1>3, EarlierSecond DEF Verifies
<1>6. ~Verifies(t) => t.issued + Ttl - Second < now
  <2>1. ~Verifies(t) => (t.issued + Ttl) \div Second <= now \div Second
    BY <1>2, <1>3, DivBounds DEF Verifies
  <2> QED
    BY <1>3, <2>1, LaterSecond
<1>7. CASE ~Verifies(t) /\ Reply(l, id, "unauthorized") /\ UNCHANGED ask
  <2>1. AccessTypeOK' /\ AsksAreOwn'
    BY <1>1, <1>7 DEF Reply, Silence, AccessInv, AccessTypeOK, AsksAreOwn
  <2>2. OwnProfileOnly'
    BY <1>7 DEF Reply, Silence, AccessInv, AccessTypeOK, OwnProfileOnly
  <2>3. now - t.issued > Ttl - Second
    BY <1>3, <1>6, <1>7
  <2>4. TokenLastsItsTime'
    BY <1>7, <2>3 DEF Reply, Silence, AccessInv, AccessTypeOK, TokenLastsItsTime
  <2> QED
    BY <1>1, <1>4, <2>1, <2>2, <2>4 DEF AccessInv
<1>8. CASE Verifies(t) /\ Reply(l, id, "forbidden") /\ UNCHANGED ask
  <2>1. AccessTypeOK' /\ AsksAreOwn'
    BY <1>1, <1>8 DEF Reply, Silence, AccessInv, AccessTypeOK, AsksAreOwn
  <2>2. OwnProfileOnly'
    BY <1>8 DEF Reply, Silence, AccessInv, AccessTypeOK, OwnProfileOnly
  <2>3. now - t.issued < Ttl /\ now - t.issued < Ttl + RequestTimeout
    BY <1>3, <1>5, <1>8
  <2>4. TokenLastsItsTime'
    BY <1>8, <2>3 DEF Reply, Silence, AccessInv, AccessTypeOK, TokenLastsItsTime
  <2> QED
    BY <1>1, <1>4, <2>1, <2>2, <2>4 DEF AccessInv
<1>9. CASE /\ Verifies(t) /\ Owns(t, id)
           /\ ask' = [ask EXCEPT ![l] = [id |-> id, age |-> 0]] /\ reply' = Silence
  <2>1. AccessTypeOK'
    BY <1>1, <1>9 DEF Asks, Silence, AccessInv, AccessTypeOK
  <2>2. id = CredsOf[l]
    BY <1>2, <1>9 DEF Owns
  <2>3. now - 0 < t.issued + Ttl /\ 0 <= RequestTimeout
    BY <1>3, <1>5, <1>9
  <2>4. AsksAreOwn'
    BY <1>1, <1>9, <2>2, <2>3 DEF AskProfile, AccessInv, AccessTypeOK, AsksAreOwn
  <2>5. OwnProfileOnly' /\ TokenLastsItsTime'
    BY <1>9, SilenceIsFine
  <2> QED
    BY <1>1, <1>4, <2>1, <2>4, <2>5 DEF AccessInv
<1> QED
    BY <1>7, <1>8, <1>9 DEF AskProfile

\* The answer to a read ends the request.
LEMMA ReadKeeps ==
    ASSUME AccessInv, NEW l \in Logins, ask[l] # None,
           NEW status \in {"ok", "not found", "error"},
           Reply(l, ask[l].id, status), Answered(l)
    PROVE  AccessInv'
<1> USE UserStoreAssumption, AccessAssumption
<1>1. Inv' /\ token' = token /\ now' = now /\ answer' = answer
    BY StoreKept DEF Answered, AccessInv, vars
<1>2. TokensAreOwn'
    BY <1>1 DEF AccessInv, TokensAreOwn
<1>3. AccessTypeOK' /\ AsksAreOwn'
    BY <1>1 DEF Reply, Silence, Answered, AccessInv, AccessTypeOK, AsksAreOwn
<1>4. OwnProfileOnly'
    BY DEF Reply, Silence, AccessInv, AccessTypeOK, AsksAreOwn, OwnProfileOnly
<1>5. now - token[l].issued < Ttl + RequestTimeout
  <2>1. /\ token[l] \in Tokens /\ ask[l] \in Asks
        /\ ask[l].age <= RequestTimeout
        /\ now - ask[l].age < token[l].issued + Ttl
    BY DEF AccessInv, AccessTypeOK, AsksAreOwn
  <2>2. now \in Nat /\ token[l].issued \in Nat /\ ask[l].age \in Nat
    BY <2>1 DEF Tokens, Asks, AccessInv, AccessTypeOK
  <2>3. Ttl \in Nat /\ RequestTimeout \in Nat
    OBVIOUS
  <2> QED
    BY <2>1, <2>2, <2>3, AskedInTime
<1>6. TokenLastsItsTime'
    BY <1>5 DEF Reply, Silence, AccessInv, AccessTypeOK, TokenLastsItsTime
<1> QED
    BY <1>1, <1>2, <1>3, <1>4, <1>6 DEF AccessInv

LEMMA TickKeeps ==
    ASSUME AccessInv, Tick
    PROVE  AccessInv'
<1> USE UserStoreAssumption, AccessAssumption
<1>1. Inv' /\ token' = token /\ answer' = answer /\ reply' = Silence
    BY StoreKept DEF Tick, AccessInv, vars
<1>2. now' = now + 1 /\ now \in Nat
    BY DEF Tick, AccessInv, AccessTypeOK
<1>3. ASSUME NEW l \in Logins, ask[l] # None
      PROVE  /\ ask'[l] \in Asks
             /\ ask'[l].id = ask[l].id /\ ask'[l].age = ask[l].age + 1
             /\ ask'[l].age <= RequestTimeout
    BY <1>3 DEF Tick, Asks, AccessInv, AccessTypeOK
<1>4. ASSUME NEW l \in Logins, ask[l] = None PROVE ask'[l] = None
    BY <1>4 DEF Tick
<1>5. AccessTypeOK'
  <2>1. ask' = [l \in Logins |-> ask'[l]]
    BY DEF Tick
  <2>2. \A l \in Logins : ask'[l] \in Asks \cup {None}
    BY <1>3, <1>4
  <2>3. ask' \in [Logins -> Asks \cup {None}]
    BY <2>1, <2>2
  <2> QED
    BY <1>1, <1>2, <2>3 DEF Silence, AccessInv, AccessTypeOK
<1>6. TokensAreOwn'
    BY <1>1, <1>2 DEF Tokens, AccessInv, AccessTypeOK, TokensAreOwn
<1>7. AsksAreOwn'
  <2> SUFFICES ASSUME NEW l \in Logins, ask'[l] # None
               PROVE  /\ token[l] # None
                      /\ ask'[l].id = CredsOf[l]
                      /\ ask'[l].age <= RequestTimeout
                      /\ now' - ask'[l].age < token[l].issued + Ttl
    BY <1>1 DEF AsksAreOwn
  <2>1. ask[l] # None
    BY <1>4
  <2>2. ask[l] \in Asks /\ ask[l].id = CredsOf[l] /\ token[l] # None
        /\ now - ask[l].age < token[l].issued + Ttl
    BY <2>1 DEF AccessInv, AccessTypeOK, AsksAreOwn
  <2>3. ask[l].age \in Nat
    BY <2>2 DEF Asks
  <2>4. now' - ask'[l].age = now - ask[l].age
    BY <1>2, <1>3, <2>1, <2>3
  <2> QED
    BY <1>3, <2>1, <2>2, <2>4
<1>8. OwnProfileOnly' /\ TokenLastsItsTime'
    BY <1>1, SilenceIsFine
<1> QED
    BY <1>1, <1>5, <1>6, <1>7, <1>8 DEF AccessInv

-----------------------------------------------------------------------------
LEMMA AccessInitInv == AccessInit => AccessInv
  BY InitInv, AccessAssumption
  DEF AccessInit, Silence, AccessInv, AccessTypeOK, TokensAreOwn, AsksAreOwn,
      OwnProfileOnly, TokenLastsItsTime

LEMMA AccessNextInv == AccessInv /\ [AccessNext]_accessVars => AccessInv'
<1> SUFFICES ASSUME AccessInv, [AccessNext]_accessVars PROVE AccessInv'
    OBVIOUS
<1>1. ASSUME NEW l \in Logins, ReadProfile(l) PROVE AccessInv'
  <2>1. PICK status \in {"ok", "not found", "error"} : Reply(l, ask[l].id, status)
    BY <1>1 DEF ReadProfile
  <2> QED
    BY <1>1, <2>1, ReadKeeps DEF ReadProfile
<1>2. ASSUME NEW l \in Logins, ReadFails(l) PROVE AccessInv'
    BY <1>2, ReadKeeps DEF ReadFails
<1>3. CASE UNCHANGED accessVars
  <2>1. Inv'
    BY <1>3, StoreKept DEF AccessInv, accessVars
  <2>2. AccessTypeOK' /\ TokensAreOwn' /\ AsksAreOwn' /\ OwnProfileOnly' /\ TokenLastsItsTime'
    BY <1>3 DEF accessVars, vars, AccessInv, AccessTypeOK, TokensAreOwn, AsksAreOwn,
        OwnProfileOnly, TokenLastsItsTime
  <2> QED
    BY <2>1, <2>2 DEF AccessInv
<1> QED
    BY <1>1, <1>2, <1>3, MeanwhileKeeps, AskKeeps, TickKeeps DEF AccessNext

LEMMA AccessInvariance == AccessSpec => []AccessInv
<1>1. AccessInit => AccessInv
    BY AccessInitInv
<1>2. AccessInv /\ [AccessNext]_accessVars => AccessInv'
    BY AccessNextInv
<1> QED
    BY <1>1, <1>2, PTL DEF AccessSpec

\* WithAuth and handleGetProfile: a token opens its owner's profile and no
\* other, whatever became of the owner and of the name since the login.
THEOREM OwnProfileOnlyHolds == AccessSpec => []OwnProfileOnly
<1>1. AccessInv => OwnProfileOnly
    BY DEF AccessInv
<1> QED
    BY <1>1, AccessInvariance, PTL

\* GenerateUserToken and VerifyUserToken: a token is refused only in the last
\* second of its 24 hours or later, and nothing is answered to its bearer
\* later than one request's time after them.
THEOREM TokenLastsItsTimeHolds == AccessSpec => []TokenLastsItsTime
<1>1. AccessInv => TokenLastsItsTime
    BY DEF AccessInv
<1> QED
    BY <1>1, AccessInvariance, PTL
=============================================================================
