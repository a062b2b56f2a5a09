-------------------------- MODULE ConnectorProofs ---------------------------
(***************************************************************************)
(* What holds of the connector for any number of callers and tokens and    *)
(* whatever the vendor answers.                                            *)
(***************************************************************************)
EXTENDS Connector, TLAPS

\* A token that is in an answer under way and nowhere else.
Unknown(t) ==
    /\ t # None
    /\ cached # t
    /\ \A c \in Callers : token[c] # t

\* Nobody holds a token that has not been issued ...
IssuedInv ==
    /\ cached # None => cached <= issued
    /\ flight.tok # None => flight.tok <= issued
    /\ \A d \in Directs : direct[d].tok # None => direct[d].tok <= issued
    /\ \A c \in Callers : token[c] # None => token[c] <= issued

\* ... and those the vendor has just answered with are not known to anyone else.
AnswersInv ==
    /\ flight.at = "returned" => flight.tok # None
    /\ flight.at = "answered" => Unknown(flight.tok)
    /\ \A d \in Directs : direct[d].at = "answered" =>
         /\ Unknown(direct[d].tok)
         /\ direct[d].tok # flight.tok
         /\ askedBy[direct[d].tok] = d

CallersInv ==
    /\ \A c \in Callers : pc[c] \in {"call", "rejected"} => token[c] # None
    /\ \A c \in Callers : pc[c] = "idle" => ~retried[c]
    /\ \A c \in Callers : pc[c] = "lookup" /\ retried[c] => token[c] # None

TokensInv == IssuedInv /\ AnswersInv /\ CallersInv

\* What a caller was told with a 401: its token is of no use any more.
RejectedInv ==
    \A c \in Callers :
        /\ pc[c] = "rejected" => life[token[c]] <= 0
        /\ pc[c] = "lookup" /\ retried[c] => cached # token[c]

Inv == TypeOK /\ StampedeCollapses /\ TokensInv /\ RejectedInv

-----------------------------------------------------------------------------
LEMMA TtlIsInt == ASSUME NEW a \in Answers PROVE Ttl(a) \in Int
BY ConnectorAssumption DEF Ttl

LEMMA MarginIsSmall ==
    ASSUME NEW ttl \in Nat
    PROVE  Margin(ttl) \in Nat /\ ttl - Margin(ttl) \in Nat
<1>1. FullMargin \in Nat
  BY ConnectorAssumption
<1> QED BY <1>1 DEF Margin

LEMMA InitInv == Init => Inv
<1> SUFFICES ASSUME Init PROVE Inv
  OBVIOUS
<1>1. TypeOK
  BY ConnectorAssumption DEF Init, TypeOK, NoFlight, Background, Requests, Tokens
<1> QED BY <1>1 DEF Init, Inv, StampedeCollapses, TokensInv, IssuedInv, AnswersInv, CallersInv,
              RejectedInv, NoFlight, Underway

VendorTypeOK ==
    /\ issued \in 0..MaxIssued
    /\ life \in [Tokens -> Nat \cup {Revoked}]
    /\ promised \in [Tokens -> Nat]
    /\ askedBy \in [Tokens -> Directs \cup {None}]

\* The token an answer brings is a new one; all others are left alone.
LEMMA GrantIsNew ==
    ASSUME VendorTypeOK, NEW a \in Answers, NEW asker \in Directs \cup {None},
           Grant(a, asker)
    PROVE  /\ VendorTypeOK'
           /\ issued + 1 \in Tokens /\ issued' = issued + 1
           /\ life'[issued + 1] = a.life
           /\ promised'[issued + 1] = IF Ttl(a) > 0 THEN Ttl(a) ELSE 0
           /\ askedBy'[issued + 1] = asker
           /\ \A t \in Tokens : t <= issued => /\ life'[t] = life[t]
                                             /\ promised'[t] = promised[t]
                                             /\ askedBy'[t] = askedBy[t]
<1> USE ConnectorAssumption DEF VendorTypeOK, Tokens, Grant
<1>1. issued + 1 \in Tokens /\ issued + 1 \in 0..MaxIssued
  OBVIOUS
<1>2. a.life \in Nat /\ (IF Ttl(a) > 0 THEN Ttl(a) ELSE 0) \in Nat
  BY TtlIsInt
<1>3. /\ life' \in [Tokens -> Nat \cup {Revoked}] /\ life'[issued + 1] = a.life
      /\ promised' \in [Tokens -> Nat]
      /\ promised'[issued + 1] = IF Ttl(a) > 0 THEN Ttl(a) ELSE 0
      /\ askedBy' \in [Tokens -> Directs \cup {None}] /\ askedBy'[issued + 1] = asker
  BY <1>1, <1>2
<1>4. ASSUME NEW t \in Tokens, t <= issued
      PROVE  life'[t] = life[t] /\ promised'[t] = promised[t] /\ askedBy'[t] = askedBy[t]
  BY <1>4
<1> QED BY <1>1, <1>3, <1>4

FlightLabels == {"none", "recheck", "asking", "answered", "returned"}
DirectLabels == {"none", "asking", "answered"}
PcLabels     == {"idle", "lookup", "miss", "wait", "call", "rejected"}
Outcomes     == {"none", "done", "cancelled", "expired"}
Contexts     == [from : Callers \cup {None}, err : {"none", "cancelled", "expired"}]

\* The two ways in which a flight's Authenticate returns an error.
LEMMA FlightsFail ==
    ASSUME TypeOK, FlightFails \/ FlightStops
    PROVE  \E error \in Outcomes : Fail(error)
<1>1. authCtx.err \in Outcomes /\ "done" \in Outcomes
  BY DEF TypeOK, Outcomes
<1> QED BY <1>1 DEF FlightFails, FlightStops

LEMMA RequestsAge ==
    ASSUME NEW labels, NEW f \in Requests(labels)
    PROVE  /\ (Underway(f) => f.age < AuthTimeout) => Older(f) \in Requests(labels)
           /\ Older(f).at = f.at /\ Older(f).tok = f.tok
           /\ Older(f).age = IF Underway(f) THEN f.age + 1 ELSE f.age
<1>1. f \in [at : labels, tok : Tokens \cup {None}, age : 0..AuthTimeout]
  BY DEF Requests
<1>2. CASE Underway(f)
  <2>1. Older(f) = [f EXCEPT !.age = f.age + 1]
    BY <1>2 DEF Older
  <2>2. f.age < AuthTimeout => f.age + 1 \in 0..AuthTimeout
    BY <1>1, ConnectorAssumption
  <2>3. f.age < AuthTimeout =>
          Older(f) \in [at : labels, tok : Tokens \cup {None}, age : 0..AuthTimeout]
    BY <1>1, <2>1, <2>2
  <2>4. Older(f).at = f.at /\ Older(f).tok = f.tok /\ Older(f).age = f.age + 1
    BY <1>1, <2>1
  <2> QED BY <1>2, <2>3, <2>4 DEF Requests
<1>3. CASE ~Underway(f)
  BY <1>3 DEF Older
<1> QED BY <1>2, <1>3

LEMMA NoFlightIsARequest ==
    ASSUME NEW labels, "none" \in labels PROVE NoFlight \in Requests(labels)
BY ConnectorAssumption DEF NoFlight, Requests

LEMMA NextTypeOK == TypeOK /\ TokensInv /\ [Next]_vars => TypeOK'
<1> SUFFICES ASSUME TypeOK, TokensInv, [Next]_vars PROVE TypeOK'
  OBVIOUS
<1>t. /\ cached \in Tokens \cup {None} /\ left \in Nat
      /\ flight \in Requests(FlightLabels)
      /\ direct \in [Directs -> Requests(DirectLabels)]
      /\ pc \in [Callers -> PcLabels]
      /\ token \in [Callers -> Tokens \cup {None}]
      /\ retried \in [Callers -> BOOLEAN] /\ cancelled \in [Callers -> BOOLEAN]
      /\ outcome \in [Callers -> Outcomes]
      /\ authCtx \in Contexts
  BY DEF TypeOK, FlightLabels, DirectLabels, PcLabels, Outcomes, Contexts
<1>v. VendorTypeOK
  BY DEF TypeOK, VendorTypeOK
<1>f. flight.tok \in Tokens \cup {None} /\ flight.at \in FlightLabels
  BY <1>t DEF Requests
<1>d. \A d \in Directs : direct[d].tok \in Tokens \cup {None} /\ direct[d].at \in DirectLabels
  BY <1>t DEF Requests
<1> SUFFICES /\ cached' \in Tokens \cup {None} /\ left' \in Nat
             /\ VendorTypeOK'
             /\ flight' \in Requests(FlightLabels)
             /\ direct' \in [Directs -> Requests(DirectLabels)]
             /\ pc' \in [Callers -> PcLabels]
             /\ token' \in [Callers -> Tokens \cup {None}]
             /\ retried' \in [Callers -> BOOLEAN] /\ cancelled' \in [Callers -> BOOLEAN]
             /\ outcome' \in [Callers -> Outcomes]
             /\ authCtx' \in Contexts
  BY DEF TypeOK, VendorTypeOK, FlightLabels, DirectLabels, PcLabels, Outcomes, Contexts
<1>b. Background \in Contexts
  BY DEF Background, Contexts
<1>c. UNCHANGED cache => cached' \in Tokens \cup {None} /\ left' \in Nat
  BY <1>t DEF cache
<1>u. UNCHANGED vendor => VendorTypeOK'
  BY <1>v DEF vendor, VendorTypeOK
<1>w. UNCHANGED caller =>
        /\ pc' \in [Callers -> PcLabels]
        /\ token' \in [Callers -> Tokens \cup {None}]
        /\ retried' \in [Callers -> BOOLEAN] /\ cancelled' \in [Callers -> BOOLEAN]
        /\ outcome' \in [Callers -> Outcomes]
  BY <1>t DEF caller
<1>s. ASSUME NEW t \in Tokens, Store(t) PROVE cached' \in Tokens \cup {None} /\ left' \in Nat
  <2>1. promised[t] \in Nat
    BY <1>v DEF VendorTypeOK
  <2> QED BY <1>s, <2>1, MarginIsSmall DEF Store
<1>1. CASE UNCHANGED vars
  BY <1>1, <1>t, <1>c, <1>u, <1>w DEF vars
<1>2. CASE Tick
  <2>1. left' \in Nat
    BY <1>2, <1>t DEF Tick, Less
  <2>2. \A t \in Tokens : Less(life[t]) \in Nat \cup {Revoked}
    BY <1>v DEF VendorTypeOK, Less, Revoked
  <2>3. VendorTypeOK'
    BY <1>2, <1>v, <2>2 DEF Tick, VendorTypeOK
  <2>4. Older(flight) \in Requests(FlightLabels)
    BY <1>2, <1>t, RequestsAge DEF Tick
  <2>5. \A d \in Directs : Older(direct[d]) \in Requests(DirectLabels)
    BY <1>2, <1>t, RequestsAge DEF Tick
  <2> QED BY <1>2, <1>t, <1>w, <2>1, <2>3, <2>4, <2>5 DEF Tick
<1>3. ASSUME NEW t \in Tokens, Revoke(t) PROVE VendorTypeOK' /\ UNCHANGED <<cache, flight, authCtx, direct, caller>>
  BY <1>3, <1>v DEF Revoke, VendorTypeOK, cache, caller
<1>4. CASE Recheck
  <2>1. flight' \in Requests(FlightLabels)
    <3>1. "asking" \in FlightLabels /\ "returned" \in FlightLabels
      BY DEF FlightLabels
    <3>2. flight \in [at : FlightLabels, tok : Tokens \cup {None}, age : 0..AuthTimeout]
      BY <1>t DEF Requests
    <3>3. [flight EXCEPT !.at = "asking"] \in Requests(FlightLabels)
      BY <3>1, <3>2 DEF Requests
    <3>4. [flight EXCEPT !.at = "returned", !.tok = cached] \in Requests(FlightLabels)
      BY <1>t, <3>1, <3>2 DEF Requests
    <3> QED BY <1>4, <3>3, <3>4 DEF Recheck
  <2> QED BY <1>4, <1>t, <1>c, <1>u, <1>w, <2>1 DEF Recheck
<1>5. CASE Issue
  <2>1. PICK a \in Answers : Grant(a, None)
    BY <1>5 DEF Issue
  <2>2. VendorTypeOK' /\ issued + 1 \in Tokens
    BY <1>v, <2>1, GrantIsNew
  <2>3. flight' \in Requests(FlightLabels)
    <3>1. "answered" \in FlightLabels
      BY DEF FlightLabels
    <3>2. flight \in [at : FlightLabels, tok : Tokens \cup {None}, age : 0..AuthTimeout]
      BY <1>t DEF Requests
    <3> QED BY <1>5, <1>f, <2>2, <3>1, <3>2, ConnectorAssumption DEF Issue, Requests
  <2> QED BY <1>5, <1>t, <1>c, <1>w, <2>2, <2>3 DEF Issue
<1>6. CASE StoreToken
  <2>1. flight.tok \in Tokens
    BY <1>6, <1>f DEF StoreToken, TokensInv, AnswersInv, Unknown
  <2>2. flight' \in Requests(FlightLabels)
    <3>1. "returned" \in FlightLabels
      BY DEF FlightLabels
    <3>2. flight \in [at : FlightLabels, tok : Tokens \cup {None}, age : 0..AuthTimeout]
      BY <1>t DEF Requests
    <3>3. 0 \in 0..AuthTimeout
      BY ConnectorAssumption
    <3>4. [flight EXCEPT !.at = "returned", !.age = 0] \in Requests(FlightLabels)
      BY <3>1, <3>2, <3>3 DEF Requests
    <3> QED BY <1>6, <3>4 DEF StoreToken
  <2> QED BY <1>6, <1>t, <1>s, <1>u, <1>w, <2>1, <2>2, <1>b DEF StoreToken
<1>7. CASE Deliver
  <2>1. flight' \in Requests(FlightLabels)
    BY <1>7, NoFlightIsARequest DEF Deliver, FlightLabels
  <2>2. pc' \in [Callers -> PcLabels] /\ token' \in [Callers -> Tokens \cup {None}]
    BY <1>7, <1>t, <1>f DEF Deliver, PcLabels
  <2> QED BY <1>7, <1>t, <1>c, <1>u, <2>1, <2>2, <1>b DEF Deliver
<1>8. CASE FlightFails \/ FlightStops
  <2>1. PICK error \in Outcomes : Fail(error)
    BY <1>8, FlightsFail
  <2>2. flight' \in Requests(FlightLabels)
    BY <2>1, NoFlightIsARequest DEF Fail, FlightLabels
  <2>3. /\ outcome' \in [Callers -> Outcomes]
        /\ pc' \in [Callers -> PcLabels] /\ token' \in [Callers -> Tokens \cup {None}]
    BY <1>t, <2>1 DEF Fail, PcLabels
  <2>4. retried' \in [Callers -> BOOLEAN] /\ cancelled' \in [Callers -> BOOLEAN]
    BY <1>t, <2>1 DEF Fail
  <2> QED BY <1>t, <1>b, <1>c, <1>u, <2>1, <2>2, <2>3, <2>4 DEF Fail
<1>14. CASE AuthCtxExpires
  <2>1. authCtx' \in Contexts
    BY <1>14, <1>t DEF AuthCtxExpires, Contexts
  <2> QED BY <1>14, <1>t, <1>c, <1>u, <1>w, <2>1 DEF AuthCtxExpires
<1>9. ASSUME NEW c \in Callers, Begin(c) \/ Cancel(c) \/ Call(c)
      PROVE  /\ UNCHANGED <<vendor, direct>>
             /\ cached' \in Tokens \cup {None} /\ left' \in Nat
             /\ flight' \in Requests(FlightLabels)
             /\ pc' \in [Callers -> PcLabels]
             /\ token' \in [Callers -> Tokens \cup {None}]
             /\ retried' \in [Callers -> BOOLEAN] /\ cancelled' \in [Callers -> BOOLEAN]
             /\ outcome' \in [Callers -> Outcomes]
             /\ authCtx' \in Contexts
  <2>p. \A l \in PcLabels : Goto(c, l) => pc' \in [Callers -> PcLabels]
    BY <1>t DEF Goto
  <2>l. PcLabels = {"idle", "lookup", "miss", "wait", "call", "rejected"}
    BY DEF PcLabels
  <2>1. CASE Begin(c) \/ Cancel(c)
    <3>1. outcome' \in [Callers -> Outcomes]
          /\ cancelled' \in [Callers -> BOOLEAN]
      BY <1>t, <2>1 DEF Begin, Cancel, Outcomes
    <3>3. authCtx' \in Contexts
      BY <1>t, <2>1 DEF Begin, Cancel, Contexts
    <3>2. pc' \in [Callers -> PcLabels]
      BY <1>t, <2>1, <2>p, <2>l DEF Begin, Cancel
    <3> QED BY <1>t, <1>c, <2>1, <3>1, <3>2, <3>3 DEF Begin, Cancel
  <2>2. CASE Lookup(c)
    <3>1. pc' \in [Callers -> PcLabels]
      BY <2>2, <2>p, <2>l DEF Lookup
    <3>2. token' = [token EXCEPT ![c] = cached] \/ token' = token
      BY <2>2 DEF Lookup
    <3>3. token' \in [Callers -> Tokens \cup {None}]
      BY <1>t, <3>2
    <3> QED BY <1>t, <1>c, <2>2, <3>1, <3>3 DEF Lookup
  <2>3. CASE Join(c)
    <3>1. pc' \in [Callers -> PcLabels]
      BY <2>3, <2>p, <2>l DEF Join
    <3>2. flight' \in Requests(FlightLabels)
      <4>1. [NoFlight EXCEPT !.at = "recheck"] \in Requests(FlightLabels)
        BY ConnectorAssumption DEF NoFlight, Requests, FlightLabels
      <4> QED BY <1>t, <2>3, <4>1 DEF Join
    <3>3. authCtx' \in Contexts
      BY <1>t, <1>b, <2>3 DEF Join, AuthContext
    <3> QED BY <1>t, <1>c, <2>3, <3>1, <3>2, <3>3 DEF Join
  <2>4. ASSUME NEW result \in {"done", "cancelled"}, Return(c, result)
        PROVE  /\ pc' \in [Callers -> PcLabels]
               /\ token' \in [Callers -> Tokens \cup {None}]
               /\ retried' \in [Callers -> BOOLEAN] /\ cancelled' \in [Callers -> BOOLEAN]
               /\ outcome' \in [Callers -> Outcomes]
    <3>1. pc' \in [Callers -> PcLabels]
      BY <2>4, <2>p, <2>l DEF Return
    <3>2. token' \in [Callers -> Tokens \cup {None}]
      BY <1>t, <2>4 DEF Return
    <3>3. retried' \in [Callers -> BOOLEAN] /\ cancelled' \in [Callers -> BOOLEAN]
      BY <1>t, <2>4 DEF Return
    <3>4. outcome' \in [Callers -> Outcomes]
      BY <1>t, <2>4 DEF Return, Outcomes
    <3> QED BY <3>1, <3>2, <3>3, <3>4
  <2>5. CASE Abandon(c) \/ Unanswered(c)
    BY <1>t, <1>c, <2>4, <2>5 DEF Abandon, Unanswered
  <2>6. CASE Answered(c)
    <3>1. CASE Return(c, "done")
      BY <1>t, <1>c, <2>4, <2>6, <3>1 DEF Answered
    <3>2. CASE Goto(c, "rejected") /\ UNCHANGED <<token, retried, cancelled, outcome>>
      BY <1>t, <1>c, <2>6, <2>p, <2>l, <3>2 DEF Answered
    <3> QED BY <2>6, <3>1, <3>2 DEF Answered
  <2>7. CASE Invalidate(c)
    <3>1. cached' \in Tokens \cup {None} /\ left' \in Nat
      BY <1>c, <2>7 DEF Invalidate
    <3>2. pc' \in [Callers -> PcLabels]
      BY <2>7, <2>p, <2>l DEF Invalidate
    <3>3. retried' \in [Callers -> BOOLEAN]
      BY <1>t, <2>7 DEF Invalidate
    <3> QED BY <1>t, <2>7, <3>1, <3>2, <3>3 DEF Invalidate
  <2> QED BY <1>9, <2>1, <2>2, <2>3, <2>5, <2>6, <2>7 DEF Call
<1>10. ASSUME NEW d \in Directs, Auth(d)
       PROVE  /\ UNCHANGED <<flight, authCtx, caller>>
              /\ cached' \in Tokens \cup {None} /\ left' \in Nat
              /\ VendorTypeOK'
              /\ direct' \in [Directs -> Requests(DirectLabels)]
  <2>l. DirectLabels = {"none", "asking", "answered"}
    BY DEF DirectLabels
  <2>r. direct[d] \in [at : DirectLabels, tok : Tokens \cup {None}, age : 0..AuthTimeout]
    BY <1>t DEF Requests
  <2>n. NoFlight \in Requests(DirectLabels)
    BY <2>l, NoFlightIsARequest
  <2>1. CASE AuthBegin(d)
    <3>1. direct' = [direct EXCEPT ![d] = [direct[d] EXCEPT !.at = "asking"]]
      BY <1>t, <2>1 DEF AuthBegin
    <3>2. [direct[d] EXCEPT !.at = "asking"] \in Requests(DirectLabels)
      BY <2>l, <2>r DEF Requests
    <3>3. direct' \in [Directs -> Requests(DirectLabels)]
      BY <1>t, <3>1, <3>2
    <3> QED BY <1>c, <1>u, <2>1, <3>3 DEF AuthBegin
  <2>2. CASE AuthFails(d) \/ AuthTimesOut(d)
    BY <1>t, <1>c, <1>u, <2>2, <2>n DEF AuthFails, AuthTimesOut
  <2>3. CASE AuthIssue(d)
    <3>1. PICK a \in Answers : Grant(a, d)
      BY <2>3 DEF AuthIssue
    <3>2. VendorTypeOK' /\ issued + 1 \in Tokens
      BY <1>v, <3>1, GrantIsNew
    <3>3. direct' = [direct EXCEPT ![d] = [direct[d] EXCEPT !.at = "answered",
                                                            !.tok = issued + 1]]
      BY <1>t, <2>3 DEF AuthIssue
    <3>4. [direct[d] EXCEPT !.at = "answered", !.tok = issued + 1] \in Requests(DirectLabels)
      BY <2>l, <2>r, <3>2 DEF Requests
    <3>5. direct' \in [Directs -> Requests(DirectLabels)]
      BY <1>t, <3>3, <3>4
    <3> QED BY <1>c, <2>3, <3>2, <3>5 DEF AuthIssue
  <2>4. CASE AuthStore(d)
    <3>1. direct[d].tok \in Tokens
      BY <1>d, <2>4 DEF AuthStore, TokensInv, AnswersInv, Unknown
    <3>2. direct' \in [Directs -> Requests(DirectLabels)]
      BY <1>t, <2>4, <2>n DEF AuthStore
    <3> QED BY <1>s, <1>u, <2>4, <3>1, <3>2 DEF AuthStore
  <2> QED BY <1>10, <2>1, <2>2, <2>3, <2>4 DEF Auth
<1>11. CASE \E t \in Tokens : Revoke(t)
  BY <1>t, <1>c, <1>w, <1>3, <1>11
<1>12. CASE \E c \in Callers : Begin(c) \/ Cancel(c) \/ Call(c)
  BY <1>t, <1>u, <1>9, <1>12
<1>13. CASE \E d \in Directs : Auth(d)
  BY <1>t, <1>w, <1>10, <1>13
<1> QED BY <1>1, <1>2, <1>4, <1>5, <1>6, <1>7, <1>8, <1>11, <1>12, <1>13, <1>14 DEF Next, Flight

\* What all the lemmas below need of the types.
LEMMA Types ==
    TypeOK =>
      /\ cached \in Tokens \cup {None} /\ issued \in 0..MaxIssued /\ left \in Nat
      /\ life \in [Tokens -> Nat \cup {Revoked}]
      /\ promised \in [Tokens -> Nat]
      /\ askedBy \in [Tokens -> Directs \cup {None}]
      /\ token \in [Callers -> Tokens \cup {None}] /\ retried \in [Callers -> BOOLEAN]
      /\ pc \in [Callers -> PcLabels]
      /\ flight \in [at : FlightLabels, tok : Tokens \cup {None}, age : 0..AuthTimeout]
      /\ direct \in [Directs -> [at : DirectLabels, tok : Tokens \cup {None},
                                 age : 0..AuthTimeout]]
      /\ flight \in Requests(FlightLabels)
      /\ \A d \in Directs : direct[d] \in Requests(DirectLabels)
BY DEF TypeOK, Requests, FlightLabels, DirectLabels, PcLabels

\* While the vendor is asked no valid token appears but a direct call's.
LEMMA NextStampede ==
    TypeOK /\ TokensInv /\ StampedeCollapses /\ [Next]_vars => StampedeCollapses'
<1> SUFFICES ASSUME TypeOK, TokensInv, StampedeCollapses, [Next]_vars,
                    Underway(flight)', CacheValid'
             PROVE  askedBy'[cached'] # None
  BY DEF StampedeCollapses
<1>t. /\ cached \in Tokens \cup {None} /\ issued \in 0..MaxIssued /\ left \in Nat
      /\ askedBy \in [Tokens -> Directs \cup {None}]
      /\ flight \in [at : FlightLabels, tok : Tokens \cup {None}, age : 0..AuthTimeout]
      /\ direct \in [Directs -> [at : DirectLabels, tok : Tokens \cup {None},
                                 age : 0..AuthTimeout]]
  BY Types
<1>s. Underway(flight) /\ CacheValid => askedBy[cached] # None
  BY DEF StampedeCollapses
<1>0. ASSUME UNCHANGED <<cached, left, askedBy>>, Underway(flight)' => Underway(flight)
      PROVE  askedBy'[cached'] # None
  BY <1>0, <1>s DEF CacheValid
<1>1. CASE UNCHANGED vars
  BY <1>1, <1>0 DEF vars, cache, vendor, Underway
<1>2. CASE Tick
  <2>1. flight'.at = flight.at
    BY <1>2, RequestsAge, Types DEF Tick
  <2>2. cached' = cached /\ askedBy' = askedBy /\ left > 0
    BY <1>2, <1>t DEF Tick, Less, CacheValid
  <2> QED BY <1>s, <2>1, <2>2 DEF Underway, CacheValid
<1>3. ASSUME NEW t \in Tokens, Revoke(t) PROVE askedBy'[cached'] # None
  BY <1>0, <1>3 DEF Revoke, cache, Underway
<1>4. CASE Recheck
  <2>1. flight'.at = "asking" => ~CacheValid
    BY <1>4, <1>t DEF Recheck, Served
  <2>2. flight'.at # "answered"
    BY <1>4, <1>t DEF Recheck
  <2> QED BY <1>4, <2>1, <2>2 DEF Recheck, cache, Underway, CacheValid
<1>5. CASE Issue
  <2>1. PICK a \in Answers : Grant(a, None)
    BY <1>5 DEF Issue
  <2>2. \A t \in Tokens : t <= issued => askedBy'[t] = askedBy[t]
    BY <2>1, GrantIsNew DEF TypeOK, VendorTypeOK
  <2>3. Underway(flight) /\ cached' = cached /\ left' = left
    BY <1>5 DEF Issue, cache, Underway
  <2>4. cached \in Tokens /\ cached <= issued
    BY <1>t, <2>3 DEF CacheValid, TokensInv, IssuedInv
  <2> QED BY <1>s, <2>2, <2>3, <2>4 DEF CacheValid
<1>6. CASE StoreToken
  BY <1>6, <1>t DEF StoreToken, Underway
<1>7. CASE Deliver \/ FlightFails \/ FlightStops
  BY <1>7 DEF Deliver, FlightFails, FlightStops, Fail, NoFlight, Underway
<1>10. CASE AuthCtxExpires
  BY <1>0, <1>10 DEF AuthCtxExpires, cache, vendor
<1>8. ASSUME NEW c \in Callers, Begin(c) \/ Cancel(c) \/ Call(c)
      PROVE  askedBy'[cached'] # None
  <2>1. CASE Join(c)
    BY <1>0, <2>1 DEF Join, NoFlight, Underway, cache, vendor
  <2>2. CASE Invalidate(c)
    BY <1>0, <2>2 DEF Invalidate, CacheValid, cache, vendor
  <2>3. CASE ~Join(c) /\ ~Invalidate(c)
    <3>1. UNCHANGED <<cached, left, askedBy, flight>>
      BY <1>8, <2>3 DEF Begin, Cancel, Call, Lookup, Abandon, Answered, Unanswered,
                        cache, vendor
    <3> QED BY <1>0, <3>1 DEF Underway
  <2> QED BY <2>1, <2>2, <2>3
<1>9. ASSUME NEW d \in Directs, Auth(d) PROVE askedBy'[cached'] # None
  <2>1. CASE AuthBegin(d) \/ AuthFails(d) \/ AuthTimesOut(d)
    BY <1>0, <2>1 DEF AuthBegin, AuthFails, AuthTimesOut, cache, vendor, Underway
  <2>2. CASE AuthIssue(d)
    <3>1. PICK a \in Answers : Grant(a, d)
      BY <2>2 DEF AuthIssue
    <3>2. \A t \in Tokens : t <= issued => askedBy'[t] = askedBy[t]
      BY <3>1, GrantIsNew DEF TypeOK, VendorTypeOK
    <3>3. flight' = flight /\ cached' = cached /\ left' = left
      BY <2>2 DEF AuthIssue, cache
    <3>4. cached \in Tokens /\ cached <= issued
      BY <1>t, <3>3 DEF CacheValid, TokensInv, IssuedInv
    <3> QED BY <1>s, <3>2, <3>3, <3>4 DEF CacheValid, Underway
  <2>3. CASE AuthStore(d)
    <3>1. askedBy[direct[d].tok] = d /\ d # None
      BY <2>3, ConnectorAssumption DEF AuthStore, TokensInv, AnswersInv
    <3>2. cached' = direct[d].tok /\ askedBy' = askedBy
      BY <2>3 DEF AuthStore, Store, CacheValid, vendor
    <3> QED BY <3>1, <3>2
  <2> QED BY <1>9, <2>1, <2>2, <2>3 DEF Auth
<1> QED BY <1>1, <1>2, <1>3, <1>4, <1>5, <1>6, <1>7, <1>8, <1>9, <1>10 DEF Next, Flight

\* The callers' labels agree with what they hold.
LEMMA NextCallers ==
    TypeOK /\ TokensInv /\ [Next]_vars => CallersInv'
<1> SUFFICES ASSUME TypeOK, TokensInv, [Next]_vars, NEW e \in Callers
             PROVE  /\ pc'[e] \in {"call", "rejected"} => token'[e] # None
                    /\ pc'[e] = "idle" => ~retried'[e]
                    /\ pc'[e] = "lookup" /\ retried'[e] => token'[e] # None
  BY DEF CallersInv
<1>t. /\ token \in [Callers -> Tokens \cup {None}] /\ retried \in [Callers -> BOOLEAN]
      /\ pc \in [Callers -> PcLabels]
  BY Types
<1>i. /\ pc[e] \in {"call", "rejected"} => token[e] # None
      /\ pc[e] = "idle" => ~retried[e]
      /\ pc[e] = "lookup" /\ retried[e] => token[e] # None
  BY DEF TokensInv, CallersInv
<1>1. CASE UNCHANGED <<pc, token, retried>>
  BY <1>1, <1>i
<1>2. UNCHANGED vars \/ Recheck \/ Issue \/ StoreToken \/ AuthCtxExpires \/ Tick
      \/ (\E t \in Tokens : Revoke(t)) \/ (\E d \in Directs : Auth(d))
        => UNCHANGED <<pc, token, retried>>
  BY DEF vars, caller, Recheck, Issue, StoreToken, AuthCtxExpires, Tick, Revoke, Auth, AuthBegin,
         AuthIssue, AuthStore, AuthFails, AuthTimesOut
<1>3. CASE Deliver
  <2>1. flight.tok # None
    BY <1>3 DEF Deliver, TokensInv, AnswersInv
  <2> QED BY <1>3, <1>t, <1>i, <2>1 DEF Deliver
<1>4. CASE FlightFails \/ FlightStops
  <2>1. PICK error \in Outcomes : Fail(error)
    BY <1>4, FlightsFail
  <2>2. /\ pc'[e] = IF pc[e] = "wait" THEN "idle" ELSE pc[e]
        /\ token'[e] = IF pc[e] = "wait" THEN None ELSE token[e]
        /\ retried'[e] = (retried[e] /\ pc[e] # "wait")
    BY <2>1 DEF Fail
  <2> QED BY <1>i, <2>2
<1>5. ASSUME NEW c \in Callers, Begin(c) \/ Cancel(c) \/ Call(c)
      PROVE  /\ pc'[e] \in {"call", "rejected"} => token'[e] # None
             /\ pc'[e] = "idle" => ~retried'[e]
             /\ pc'[e] = "lookup" /\ retried'[e] => token'[e] # None
  <2> USE DEF Goto, Return
  <2>1. CASE Begin(c) \/ Cancel(c)
    BY <1>t, <1>i, <2>1 DEF Begin, Cancel
  <2>2. CASE Lookup(c)
    BY <1>t, <1>i, <2>2 DEF Lookup, CacheValid
  <2>3. CASE Join(c)
    BY <1>t, <1>i, <2>3 DEF Join
  <2>4. CASE Abandon(c) \/ Answered(c) \/ Unanswered(c)
    BY <1>t, <1>i, <2>4 DEF Abandon, Answered, Unanswered
  <2>5. CASE Invalidate(c)
    BY <1>t, <1>i, <2>5 DEF Invalidate, TokensInv, CallersInv
  <2> QED BY <1>5, <2>1, <2>2, <2>3, <2>4, <2>5 DEF Call
<1> QED BY <1>1, <1>2, <1>3, <1>4, <1>5 DEF Next, Flight

\* What nobody knows yet stays unknown until it is stored or handed over.
LEMMA NextTokens ==
    TypeOK /\ TokensInv /\ [Next]_vars => TokensInv'
<1> SUFFICES ASSUME TypeOK, TokensInv, [Next]_vars PROVE IssuedInv' /\ AnswersInv'
  BY NextCallers DEF TokensInv
<1>t. /\ cached \in Tokens \cup {None} /\ issued \in Nat /\ Tokens \subseteq Nat
      /\ None \notin Tokens \cup Directs
      /\ askedBy \in [Tokens -> Directs \cup {None}]
      /\ token \in [Callers -> Tokens \cup {None}]
      /\ pc \in [Callers -> PcLabels]
      /\ flight \in [at : FlightLabels, tok : Tokens \cup {None}, age : 0..AuthTimeout]
      /\ direct \in [Directs -> [at : DirectLabels, tok : Tokens \cup {None},
                                 age : 0..AuthTimeout]]
  BY Types, ConnectorAssumption DEF Tokens
<1>i. IssuedInv /\ AnswersInv
  BY DEF TokensInv
<1>0. ASSUME issued' = issued, askedBy' = askedBy, cached' \in {cached, None},
             flight'.tok \in {flight.tok, None},
             flight'.at \in {"answered", "returned"} =>
               flight'.at = flight.at /\ flight'.tok = flight.tok,
             \A d \in Directs : direct'[d].tok \in {direct[d].tok, None},
             \A d \in Directs : direct'[d].at = "answered" =>
               direct'[d].at = direct[d].at /\ direct'[d].tok = direct[d].tok,
             \A c \in Callers : token'[c] \in {token[c], cached, None}
      PROVE  IssuedInv' /\ AnswersInv'
  <2>1. /\ cached' # None => cached' <= issued'
        /\ flight'.tok # None => flight'.tok <= issued'
    BY <1>0, <1>i DEF IssuedInv
  <2>2. \A d \in Directs : direct'[d].tok # None => direct'[d].tok <= issued'
    BY <1>0, <1>i DEF IssuedInv
  <2>3. \A c \in Callers : token'[c] # None => token'[c] <= issued'
    BY <1>0, <1>i DEF IssuedInv
  <2>4. \A t : Unknown(t) => t # None /\ cached' # t /\ \A c \in Callers : token'[c] # t
    BY <1>0 DEF Unknown
  <2>5. /\ flight'.at = "returned" => flight'.tok # None
        /\ flight'.at = "answered" => Unknown(flight.tok) /\ flight'.tok = flight.tok
    BY <1>0, <1>i DEF AnswersInv
  <2>6. ASSUME NEW d \in Directs, direct'[d].at = "answered"
        PROVE  /\ Unknown(direct[d].tok) /\ direct'[d].tok = direct[d].tok
               /\ direct'[d].tok # flight'.tok
               /\ askedBy'[direct'[d].tok] = d
    <3>1. /\ Unknown(direct[d].tok) /\ direct'[d].tok = direct[d].tok
          /\ direct[d].tok # flight.tok /\ askedBy[direct[d].tok] = d
      BY <1>0, <1>i, <2>6 DEF AnswersInv
    <3> QED BY <1>0, <3>1 DEF Unknown
  <2>7. AnswersInv'
    <3>1. flight'.at = "answered" => Unknown(flight.tok) /\ flight'.tok = flight.tok
      BY <2>5
    <3>2. flight'.at = "answered" => Unknown(flight.tok)'
      BY <2>4, <3>1 DEF Unknown
    <3>3. \A d \in Directs : direct'[d].at = "answered" => Unknown(direct[d].tok)'
      BY <2>4, <2>6 DEF Unknown
    <3> QED BY <2>5, <2>6, <3>2, <3>3 DEF AnswersInv
  <2> QED BY <2>1, <2>2, <2>3, <2>7 DEF IssuedInv
<1>1. CASE UNCHANGED vars
  BY <1>0, <1>1 DEF vars, cache, vendor, caller
<1>2. CASE Tick
  <2>1. flight'.at = flight.at /\ flight'.tok = flight.tok
    BY <1>2, RequestsAge, Types DEF Tick
  <2>2. \A d \in Directs : direct'[d].at = direct[d].at /\ direct'[d].tok = direct[d].tok
    BY <1>2, RequestsAge, Types DEF Tick
  <2> QED BY <1>0, <1>2, <2>1, <2>2 DEF Tick, caller
<1>3. ASSUME NEW t \in Tokens, Revoke(t) PROVE IssuedInv' /\ AnswersInv'
  BY <1>0, <1>3 DEF Revoke, cache, caller
<1>4. CASE Recheck
  <2>1. UNCHANGED <<cached, issued, askedBy, direct, token>>
    BY <1>4 DEF Recheck, cache, vendor, caller
  <2>2. flight'.at \in {"asking", "returned"} /\ flight'.tok \in {flight.tok, cached}
        /\ (flight'.at = "returned" => flight'.tok = cached /\ cached # None)
    BY <1>4, <1>t DEF Recheck, Served, CacheValid
  <2>3. IssuedInv'
    BY <1>i, <2>1, <2>2 DEF IssuedInv
  <2>4. AnswersInv'
    BY <1>i, <2>1, <2>2 DEF AnswersInv, Unknown
  <2> QED BY <2>3, <2>4
<1>5. ASSUME NEW asker \in Directs \cup {None}, NEW a \in Answers, Grant(a, asker),
             UNCHANGED <<cached, token>>
      PROVE  /\ issued' = issued + 1 /\ issued + 1 \in Tokens
             /\ askedBy'[issued + 1] = asker
             /\ \A t \in Tokens : t <= issued => askedBy'[t] = askedBy[t]
             /\ Unknown(issued + 1)
             /\ \A x \in Tokens \cup {None} : x # None /\ x <= issued =>
                    x <= issued' /\ x # issued + 1
  <2>1. /\ issued' = issued + 1 /\ issued + 1 \in Tokens
        /\ askedBy'[issued + 1] = asker
        /\ \A t \in Tokens : t <= issued => askedBy'[t] = askedBy[t]
    BY <1>5, GrantIsNew DEF TypeOK, VendorTypeOK
  <2>2. \A x \in Tokens \cup {None} : x # None /\ x <= issued =>
                    x <= issued' /\ x # issued + 1
    BY <1>t, <2>1
  <2>3. issued + 1 # None
    BY <1>t, <2>1
  <2>4. \A x \in Tokens \cup {None} : (x # None => x <= issued) => x # issued + 1
    BY <2>2, <2>3
  <2>5. cached # issued + 1 /\ \A c \in Callers : token[c] # issued + 1
    BY <1>i, <1>t, <2>4 DEF IssuedInv
  <2> QED BY <1>5, <2>1, <2>2, <2>3, <2>5 DEF Unknown
<1>6. CASE Issue
  <2>1. UNCHANGED <<cached, token, direct>>
    BY <1>6 DEF Issue, cache, caller
  <2>2. /\ issued' = issued + 1 /\ issued + 1 \in Tokens
        /\ \A t \in Tokens : t <= issued => askedBy'[t] = askedBy[t]
        /\ Unknown(issued + 1)
        /\ \A x \in Tokens \cup {None} : x # None /\ x <= issued =>
                    x <= issued' /\ x # issued + 1
    BY <1>5, <1>6, <2>1 DEF Issue
  <2>3. flight'.at = "answered" /\ flight'.tok = issued + 1
    BY <1>6, <1>t DEF Issue
  <2>4. IssuedInv'
    <3>1. issued + 1 <= issued'
      BY <1>t, <2>2
    <3> QED BY <1>i, <1>t, <2>1, <2>2, <2>3, <3>1 DEF IssuedInv
  <2>5. ASSUME NEW d \in Directs, direct[d].at = "answered"
        PROVE  /\ Unknown(direct[d].tok) /\ direct[d].tok # issued + 1
               /\ askedBy'[direct[d].tok] = d
    <3>1. direct[d].tok \in Tokens /\ direct[d].tok <= issued
      BY <1>i, <1>t, <2>5 DEF IssuedInv, AnswersInv, Unknown
    <3> QED BY <1>i, <2>1, <2>2, <2>5, <3>1 DEF AnswersInv, Unknown
  <2>6. AnswersInv'
    <3>1. \A t : Unknown(t) => t # None /\ cached' # t /\ \A c \in Callers : token'[c] # t
      BY <2>1 DEF Unknown
    <3> QED BY <2>1, <2>2, <2>3, <2>5, <3>1 DEF AnswersInv, Unknown
  <2> QED BY <2>4, <2>6
<1>7. CASE StoreToken
  <2>1. /\ flight'.tok = flight.tok /\ flight'.at = "returned" /\ flight.tok # None
        /\ cached' \in {flight.tok, None} /\ UNCHANGED <<issued, askedBy, token, direct>>
    BY <1>i, <1>7, <1>t DEF StoreToken, Store, vendor, caller, AnswersInv, Unknown
  <2>2. IssuedInv'
    BY <1>i, <2>1 DEF IssuedInv
  <2>3. AnswersInv'
    BY <1>i, <2>1 DEF AnswersInv, Unknown
  <2> QED BY <2>2, <2>3
<1>8. CASE Deliver
  <2>1. /\ UNCHANGED <<cached, issued, askedBy, direct>>
        /\ flight'.at = "none" /\ flight'.tok = None
        /\ \A c \in Callers : token'[c] \in {token[c], flight.tok}
    BY <1>8 DEF Deliver, NoFlight, cache, vendor
  <2>2. IssuedInv'
    BY <1>i, <2>1 DEF IssuedInv
  <2>3. AnswersInv'
    BY <1>i, <2>1 DEF AnswersInv, Unknown
  <2> QED BY <2>2, <2>3
<1>9. CASE FlightFails \/ FlightStops
  <2>1. PICK error \in Outcomes : Fail(error)
    BY <1>9, FlightsFail
  <2>2. /\ UNCHANGED <<cached, issued, askedBy, direct>>
        /\ flight'.at = "none" /\ flight'.tok = None
        /\ \A c \in Callers : token'[c] \in {token[c], None}
    BY <2>1 DEF Fail, NoFlight, cache, vendor
  <2> QED BY <1>0, <2>2
<1>12. CASE AuthCtxExpires
  BY <1>0, <1>12 DEF AuthCtxExpires, cache, vendor, caller
<1>10. ASSUME NEW c \in Callers, Begin(c) \/ Cancel(c) \/ Call(c)
       PROVE  IssuedInv' /\ AnswersInv'
  <2>1. UNCHANGED <<issued, askedBy, direct>> /\ cached' \in {cached, None}
    BY <1>10 DEF Begin, Cancel, Call, Lookup, Join, Abandon, Answered, Unanswered, Invalidate,
                 cache, vendor
  <2>2. \A e \in Callers : token'[e] \in {token[e], cached, None}
    BY <1>t, <1>10 DEF Begin, Cancel, Call, Lookup, Join, Abandon, Answered, Unanswered,
                       Invalidate, Return
  <2>3. flight' = flight \/ flight' = [NoFlight EXCEPT !.at = "recheck"]
    BY <1>10 DEF Begin, Cancel, Call, Lookup, Join, Abandon, Answered, Unanswered, Invalidate
  <2>4. [NoFlight EXCEPT !.at = "recheck"] = [at |-> "recheck", tok |-> None, age |-> 0]
    BY DEF NoFlight
  <2> QED BY <1>0, <2>1, <2>2, <2>3, <2>4
<1>11. ASSUME NEW d \in Directs, Auth(d) PROVE IssuedInv' /\ AnswersInv'
  <2>1. CASE AuthBegin(d) \/ AuthFails(d) \/ AuthTimesOut(d)
    <3>1. UNCHANGED <<cached, issued, askedBy, flight, token>>
      BY <2>1 DEF AuthBegin, AuthFails, AuthTimesOut, cache, vendor, caller
    <3>2. ASSUME NEW e \in Directs
          PROVE  \/ direct'[e] = direct[e]
                 \/ direct'[e].at \in {"none", "asking"} /\ direct'[e].tok \in {direct[e].tok, None}
      BY <1>t, <2>1 DEF AuthBegin, AuthFails, AuthTimesOut, NoFlight
    <3> QED BY <1>0, <3>1, <3>2
  <2>2. CASE AuthIssue(d)
    <3>1. UNCHANGED <<cached, token, flight>>
      BY <2>2 DEF AuthIssue, cache, caller
    <3>2. /\ issued' = issued + 1 /\ issued + 1 \in Tokens
          /\ askedBy'[issued + 1] = d
          /\ \A t \in Tokens : t <= issued => askedBy'[t] = askedBy[t]
          /\ Unknown(issued + 1)
          /\ \A x \in Tokens \cup {None} : x # None /\ x <= issued =>
                      x <= issued' /\ x # issued + 1
      BY <1>5, <2>2, <3>1 DEF AuthIssue
    <3>3. /\ direct'[d].tok = issued + 1
          /\ \A e \in Directs : e # d => direct'[e] = direct[e]
      BY <2>2, <1>t DEF AuthIssue
    <3>4. flight.tok # issued + 1
      BY <1>i, <1>t, <3>2 DEF IssuedInv
    <3>5. IssuedInv'
      <4>1. issued + 1 <= issued'
        BY <1>t, <3>2
      <4> QED BY <1>i, <1>t, <3>1, <3>2, <3>3, <4>1 DEF IssuedInv
    <3>6. ASSUME NEW e \in Directs, e # d, direct[e].at = "answered"
          PROVE  /\ Unknown(direct[e].tok) /\ direct[e].tok # flight.tok
                 /\ askedBy'[direct[e].tok] = e
      <4>1. direct[e].tok \in Tokens /\ direct[e].tok <= issued
        BY <1>i, <1>t, <3>6 DEF IssuedInv, AnswersInv, Unknown
      <4> QED BY <1>i, <3>1, <3>2, <3>6, <4>1 DEF AnswersInv, Unknown
    <3>7. flight.at = "answered" => Unknown(flight.tok)
      BY <1>i, <3>1 DEF AnswersInv, Unknown
    <3>8. AnswersInv'
      <4>1. flight'.at = "returned" => flight'.tok # None
        BY <1>i, <3>1 DEF AnswersInv
      <4>2. ASSUME NEW e \in Directs, direct'[e].at = "answered"
            PROVE  /\ \E t : Unknown(t) /\ direct'[e].tok = t
                   /\ direct'[e].tok # flight'.tok
                   /\ askedBy'[direct'[e].tok] = e
        <5>1. CASE e = d
          BY <3>1, <3>2, <3>3, <3>4, <5>1
        <5>2. CASE e # d
          BY <3>1, <3>3, <3>6, <4>2, <5>2
        <5> QED BY <5>1, <5>2
      <4>3. \A t : Unknown(t) => t # None /\ cached' # t /\ \A c \in Callers : token'[c] # t
        BY <3>1 DEF Unknown
      <4> QED BY <3>1, <3>7, <4>1, <4>2, <4>3 DEF AnswersInv, Unknown
    <3> QED BY <3>5, <3>8
  <2>3. CASE AuthStore(d)
    <3>1. /\ cached' \in {direct[d].tok, None} /\ UNCHANGED <<issued, askedBy, flight, token>>
          /\ direct'[d] = NoFlight /\ \A e \in Directs : e # d => direct'[e] = direct[e]
      BY <1>t, <2>3 DEF AuthStore, Store, vendor, caller
    <3>2. NoFlight.at = "none" /\ NoFlight.tok = None
      BY DEF NoFlight
    <3>3. IssuedInv'
      BY <1>i, <3>1, <3>2 DEF IssuedInv
    <3>4. /\ direct[d].tok # flight.tok /\ direct[d].at = "answered"
          /\ \A e \in Directs : e # d /\ direct[e].at = "answered" =>
                direct[e].tok # direct[d].tok
      BY <1>i, <2>3 DEF AuthStore, AnswersInv
    <3>5. AnswersInv'
      BY <1>i, <3>1, <3>2, <3>4 DEF AnswersInv, Unknown
    <3> QED BY <3>3, <3>5
  <2> QED BY <1>11, <2>1, <2>2, <2>3 DEF Auth
<1> QED BY <1>1, <1>2, <1>3, <1>4, <1>6, <1>7, <1>8, <1>9, <1>10, <1>11, <1>12 DEF Next, Flight

\* A token that was rejected stays rejected, and never comes back to the
\* cache from which it was dropped.
LEMMA NextRejected ==
    Inv /\ [Next]_vars => RejectedInv'
<1> SUFFICES ASSUME Inv, [Next]_vars, NEW c \in Callers
             PROVE  /\ pc'[c] = "rejected" => life'[token'[c]] <= 0
                    /\ pc'[c] = "lookup" /\ retried'[c] => cached' # token'[c]
  BY DEF RejectedInv
<1>0. /\ cached \in Tokens \cup {None}
      /\ token \in [Callers -> Tokens \cup {None}] /\ issued \in Nat
      /\ life \in [Tokens -> Nat \cup {Revoked}]
      /\ retried \in [Callers -> BOOLEAN]
      /\ pc \in [Callers -> PcLabels]
      /\ Tokens \subseteq Nat /\ Revoked <= 0
  BY Types, ConnectorAssumption DEF Inv, Tokens, Revoked
<1>r. /\ pc[c] = "rejected" => /\ life[token[c]] <= 0
                              /\ token[c] \in Tokens /\ token[c] <= issued
      /\ pc[c] = "lookup" /\ retried[c] => cached # token[c] /\ token[c] # None
      /\ pc[c] = "idle" => ~retried[c]
      /\ pc[c] = "call" => token[c] \in Tokens
  BY <1>0 DEF Inv, RejectedInv, TokensInv, IssuedInv, CallersInv
<1>u. ASSUME UNCHANGED <<token, pc, retried>>, cached' \in {cached, None}
             \/ cached' # token[c],
             \A t \in Tokens : t <= issued /\ life[t] <= 0 => life'[t] <= 0
      PROVE  /\ pc'[c] = "rejected" => life'[token'[c]] <= 0
             /\ pc'[c] = "lookup" /\ retried'[c] => cached' # token'[c]
  BY <1>u, <1>r
<1>1. CASE UNCHANGED vars
  BY <1>1, <1>u DEF vars, cache, vendor, caller
<1>2. CASE Tick
  <2>1. ASSUME NEW t \in Tokens, life[t] <= 0 PROVE life'[t] <= 0
    <3>1. life'[t] = Less(life[t]) /\ life[t] \in Int
      BY <1>0, <1>2 DEF Tick, Revoked
    <3> QED BY <2>1, <3>1 DEF Less
  <2> QED BY <1>2, <1>u, <2>1 DEF Tick, caller
<1>3. ASSUME NEW t \in Tokens, Revoke(t)
      PROVE  /\ pc'[c] = "rejected" => life'[token'[c]] <= 0
             /\ pc'[c] = "lookup" /\ retried'[c] => cached' # token'[c]
  <2>1. \A x \in Tokens : life[x] <= 0 => life'[x] <= 0
    BY <1>0, <1>3 DEF Revoke
  <2> QED BY <1>3, <1>u, <2>1 DEF Revoke, cache, caller
<1>4. CASE Issue \/ \E d \in Directs : AuthIssue(d)
  <2>1. PICK asker \in Directs \cup {None}, a \in Answers : Grant(a, asker)
    BY <1>4 DEF Issue, AuthIssue
  <2>2. \A t \in Tokens : t <= issued => life'[t] = life[t]
    BY <2>1, GrantIsNew DEF Inv, TypeOK, VendorTypeOK
  <2>3. UNCHANGED <<token, pc, retried, cached>>
    BY <1>4 DEF Issue, AuthIssue, cache, caller
  <2> QED BY <1>u, <2>2, <2>3
<1>5. CASE StoreToken \/ \E d \in Directs : AuthStore(d)
  <2>1. cached' = None \/ cached' # token[c]
    BY <1>5 DEF StoreToken, AuthStore, Store, Inv, TokensInv, AnswersInv, Unknown
  <2>2. UNCHANGED <<token, pc, retried, life>>
    BY <1>5 DEF StoreToken, AuthStore, vendor, caller
  <2> QED BY <1>u, <2>1, <2>2
<1>6. CASE Recheck \/ AuthCtxExpires \/ \E d \in Directs : AuthBegin(d) \/ AuthFails(d) \/ AuthTimesOut(d)
  <2>1. UNCHANGED <<token, pc, retried, cached, life>>
    BY <1>6 DEF Recheck, AuthCtxExpires, AuthBegin, AuthFails, AuthTimesOut, cache, vendor,
               caller
  <2> QED BY <1>u, <2>1
<1>7. CASE Deliver \/ FlightFails \/ FlightStops
  <2>1. /\ UNCHANGED <<cached, life>>
        /\ pc'[c] \in {"rejected", "lookup"} =>
             pc'[c] = pc[c] /\ token'[c] = token[c] /\ (retried'[c] => retried[c])
    BY <1>0, <1>7 DEF Deliver, FlightFails, FlightStops, Fail, cache, vendor
  <2> QED BY <1>r, <2>1
<1>8. ASSUME NEW d \in Callers, Begin(d) \/ Cancel(d) \/ Call(d)
      PROVE  /\ pc'[c] = "rejected" => life'[token'[c]] <= 0
             /\ pc'[c] = "lookup" /\ retried'[c] => cached' # token'[c]
  <2> USE DEF Goto, Return, cache, vendor
  <2>1. CASE d # c
    <3>1. pc'[c] = pc[c] /\ token'[c] = token[c] /\ retried'[c] = retried[c] /\ life' = life
      BY <1>0, <1>8, <2>1
      DEF Begin, Cancel, Call, Lookup, Join, Abandon, Answered, Unanswered, Invalidate
    <3>2. cached' = cached \/ cached' = None
      BY <1>8
      DEF Begin, Cancel, Call, Lookup, Join, Abandon, Answered, Unanswered, Invalidate
    <3> QED BY <1>r, <3>1, <3>2
  <2>2. CASE d = c
    <3>1. CASE Begin(c) \/ Cancel(c)
      BY <1>0, <1>r, <3>1 DEF Begin, Cancel
    <3>2. CASE Answered(c)
      <4>1. token[c] \in Tokens
        BY <1>r, <3>2 DEF Answered
      <4>2. life[token[c]] \in Int
        <5>1. life[token[c]] \in Nat \cup {Revoked}
          BY <1>0, <4>1
        <5> QED BY <5>1 DEF Revoked
      <4>3. CASE pc'[c] = "rejected"
        <5>1. ~(life[token[c]] > 0) /\ token' = token /\ life' = life
          BY <1>0, <3>2, <4>3 DEF Answered
        <5> QED BY <4>2, <4>3, <5>1
      <4>4. pc'[c] # "lookup"
        BY <1>0, <3>2 DEF Answered
      <4> QED BY <4>3, <4>4
    <3>3. CASE Lookup(c) \/ Join(c) \/ Abandon(c) \/ Unanswered(c)
      BY <1>0, <3>3 DEF Lookup, Join, Abandon, Unanswered
    <3>4. CASE Invalidate(c)
      <4>1. pc'[c] = "lookup" /\ token'[c] = token[c] /\ token[c] # None
        BY <1>0, <3>4 DEF Invalidate, Inv, TokensInv, CallersInv
      <4>2. cached' # token[c]
        BY <3>4, <4>1 DEF Invalidate, Invalidates
      <4> QED BY <4>1, <4>2
    <3> QED BY <1>8, <2>2, <3>1, <3>2, <3>3, <3>4 DEF Call
  <2> QED BY <2>1, <2>2
<1> QED BY <1>1, <1>2, <1>3, <1>4, <1>5, <1>6, <1>7, <1>8 DEF Next, Flight, Auth

LEMMA NextInv == Inv /\ [Next]_vars => Inv'
BY NextTypeOK, NextStampede, NextTokens, NextRejected DEF Inv

\* The variables have the types TypeOK gives them, for all constants.
THEOREM TypeCorrect == Spec => []TypeOK
<1>1. Inv => TypeOK
  BY DEF Inv
<1> QED BY <1>1, InitInv, NextInv, PTL DEF Spec

\* The vendor is only asked for a token while the cache holds no valid one,
\* however many callers miss the cache at once and however late they join.
THEOREM NoNeedlessAuthentication == Spec => []StampedeCollapses
<1>1. Inv => StampedeCollapses
  BY DEF Inv
<1> QED BY <1>1, InitInv, NextInv, PTL DEF Spec

\* After a 401 the second attempt never finds the rejected token in the cache.
THEOREM RejectedTokenIsGone == Spec => []RejectedIsDropped
<1>1. Inv => RejectedIsDropped
  BY DEF Inv, RejectedInv, RejectedIsDropped
<1> QED BY <1>1, InitInv, NextInv, PTL DEF Spec

\* A valid cached token is only dropped once the vendor has stopped to
\* accept it, unless a direct call's answer replaces it or is replaced.
THEOREM UsableTokenStays == Spec => UsableTokenIsKept
<1>1. Inv /\ [Next]_vars =>
        [CacheValid /\ cached' # cached =>
           life[cached] <= 0 \/ askedBy[cached] # None \/ \E d \in Directs : Wrote(d)]_vars
  <2> SUFFICES ASSUME Inv, Next, CacheValid, cached' # cached, askedBy[cached] = None,
                      \A d \in Directs : ~Wrote(d)
               PROVE  life[cached] <= 0
    OBVIOUS
  <2>1. ~Tick /\ \A t \in Tokens : ~Revoke(t)
    BY DEF Tick, Revoke, cache
  <2>2. ~Flight
    BY DEF Flight, Recheck, Issue, StoreToken, Deliver, FlightFails, FlightStops, AuthCtxExpires, Fail,
           Inv, StampedeCollapses, Underway, cache
  <2>3. ASSUME NEW d \in Directs, Auth(d) PROVE FALSE
    <3>1. AuthStore(d)
      BY <2>3 DEF Auth, AuthBegin, AuthIssue, AuthFails, AuthTimesOut, cache
    <3>2. direct'[d] = NoFlight
      BY <3>1, Types DEF AuthStore, Inv
    <3> QED BY <3>1, <3>2 DEF AuthStore, NoFlight, Wrote
  <2>4. PICK c \in Callers : Begin(c) \/ Cancel(c) \/ Call(c)
    BY <2>1, <2>2, <2>3 DEF Next
  <2>5. pc[c] = "rejected" /\ cached = token[c]
    BY <2>4 DEF Begin, Cancel, Call, Lookup, Join, Abandon, Answered, Unanswered,
                Invalidate, Invalidates, cache
  <2> QED BY <2>5 DEF Inv, RejectedInv
<1> QED BY <1>1, InitInv, NextInv, PTL DEF Spec, UsableTokenIsKept

\* The context of a flight's request derives from no call's: nobody cancels
\* it, and it ends only when the request has had all of its time.
ContextInv ==
    /\ authCtx.from = None
    /\ authCtx.err \in {"none", "expired"}
    /\ authCtx.err = "expired" => Underway(flight) /\ flight.age >= AuthTimeout

LEMMA NextContext == TypeOK /\ ContextInv /\ [Next]_vars => ContextInv'
<1> SUFFICES ASSUME TypeOK, ContextInv, [Next]_vars PROVE ContextInv'
  OBVIOUS
<1>t. /\ flight \in [at : FlightLabels, tok : Tokens \cup {None}, age : 0..AuthTimeout]
      /\ authCtx \in Contexts
      /\ None \notin Callers
  BY Types, ConnectorAssumption DEF TypeOK, Contexts
<1>b. authCtx' = Background => ContextInv'
  BY DEF Background, ContextInv
<1>0. CASE UNCHANGED <<flight, authCtx>>
  BY <1>0 DEF ContextInv, Underway
<1>1. UNCHANGED vars \/ (\E t \in Tokens : Revoke(t)) \/ (\E d \in Directs : Auth(d))
        => UNCHANGED <<flight, authCtx>>
  BY DEF vars, Revoke, Auth, AuthBegin, AuthIssue, AuthStore, AuthFails, AuthTimesOut
<1>2. CASE Tick
  <2>1. authCtx.err # "expired" /\ authCtx' = authCtx
    BY <1>2, <1>t, ConnectorAssumption DEF Tick, ContextInv
  <2> QED BY <2>1 DEF ContextInv
<1>3. CASE Recheck
  <2>1. authCtx.err # "expired" /\ authCtx' = authCtx
    BY <1>3 DEF Recheck, ContextInv, Underway
  <2> QED BY <2>1 DEF ContextInv
<1>4. CASE Issue
  <2>1. flight'.at = "answered" /\ flight'.age = flight.age /\ authCtx' = authCtx
    BY <1>4, <1>t DEF Issue
  <2> QED BY <2>1 DEF ContextInv, Underway
<1>5. CASE StoreToken \/ Deliver \/ FlightFails \/ FlightStops
  BY <1>5, <1>b DEF StoreToken, Deliver, FlightFails, FlightStops, Fail
<1>6. CASE AuthCtxExpires
  <2>1. /\ Underway(flight) /\ flight.age >= AuthTimeout /\ flight' = flight
        /\ authCtx'.from = authCtx.from /\ authCtx'.err = "expired"
    BY <1>6, <1>t DEF AuthCtxExpires, TimerStops, Contexts
  <2> QED BY <2>1 DEF ContextInv, Underway
<1>7. ASSUME NEW c \in Callers, Begin(c) \/ Cancel(c) \/ Call(c) PROVE ContextInv'
  <2>1. CASE Join(c)
    BY <1>0, <1>b, <2>1 DEF Join, AuthContext
  <2>2. CASE Cancel(c)
    BY <1>0, <1>t, <2>2 DEF Cancel, ContextInv
  <2> QED BY <1>0, <1>7, <2>1, <2>2 DEF Begin, Call, Lookup, Abandon, Answered, Unanswered,
                                        Invalidate
<1> QED BY <1>0, <1>1, <1>2, <1>3, <1>4, <1>5, <1>6, <1>7 DEF Next, Flight

\* Whatever a call's context does, only that call ends with its error; and a
\* call that shares a flight ends with the error of the flight's context only
\* after the whole timeout.
THEOREM CancellationStaysOwn == Spec => CancellationIsOwn
<1>1. Inv /\ ContextInv /\ [Next]_vars =>
        [\A c \in Callers : outcome'[c] # outcome[c] =>
           /\ outcome'[c] = "cancelled" => cancelled[c]
           /\ outcome'[c] = "expired" => Underway(flight) /\ flight.age >= AuthTimeout]_vars
  <2> SUFFICES ASSUME Inv, ContextInv, Next, NEW c \in Callers, outcome'[c] # outcome[c]
               PROVE  /\ outcome'[c] = "cancelled" => cancelled[c]
                      /\ outcome'[c] = "expired" => Underway(flight) /\ flight.age >= AuthTimeout
    OBVIOUS
  <2>t. outcome \in [Callers -> Outcomes]
    BY DEF Inv, TypeOK, Outcomes
  <2>2. ~Tick /\ (\A t \in Tokens : ~Revoke(t)) /\ (\A d \in Directs : ~Auth(d))
    BY DEF Tick, Revoke, Auth, AuthBegin, AuthIssue, AuthStore, AuthFails, AuthTimesOut,
                caller
  <2>3. CASE Flight
    <3>1. FlightFails \/ FlightStops \/ Deliver
      BY <2>3 DEF Flight, Recheck, Issue, StoreToken, AuthCtxExpires, caller
    <3>2. CASE FlightFails
      BY <2>t, <3>2 DEF FlightFails, Fail
    <3>3. CASE FlightStops
      <4>1. outcome'[c] = "expired" /\ authCtx.err = "expired"
        BY <2>t, <3>3 DEF FlightStops, Fail, ContextInv
      <4> QED BY <4>1 DEF ContextInv
    <3> QED BY <3>1, <3>2, <3>3 DEF Deliver
  <2>4. ASSUME NEW e \in Callers, Begin(e) \/ Cancel(e) \/ Call(e)
        PROVE  /\ outcome'[c] = "cancelled" => cancelled[c]
               /\ outcome'[c] # "expired"
    <3>1. CASE Abandon(e)
      BY <2>t, <3>1 DEF Abandon, Return
    <3>2. CASE ~Abandon(e)
      <4>1. outcome'[c] \in {"none", "done"}
        BY <2>t, <2>4, <3>2 DEF Begin, Cancel, Call, Lookup, Join, Answered, Unanswered,
                                Invalidate, Return
      <4> QED BY <4>1
    <3> QED BY <3>1, <3>2
  <2> QED BY <2>2, <2>3, <2>4 DEF Next
<1>2. Init => ContextInv
  BY DEF Init, ContextInv, Background
<1>3. Inv => TypeOK
  BY DEF Inv
<1> QED BY <1>1, <1>2, <1>3, NextContext, InitInv, NextInv, PTL DEF Spec, CancellationIsOwn

-----------------------------------------------------------------------------
(* The safety margin, when the vendor keeps its word.                      *)

\* No token is accepted for a shorter time than Authenticate reckons with.
VendorKeepsItsWord == \A a \in Answers : Ttl(a) <= a.life

\* While an answer is under way its token has lost no more than its age.
AgeCovers(f) ==
    f.at = "answered" =>
        life[f.tok] = Revoked \/ promised[f.tok] <= life[f.tok] + f.age

MarginInv ==
    /\ MarginCovers
    /\ AgeCovers(flight)
    /\ \A d \in Directs : AgeCovers(direct[d])

LEMMA MarginIsCovered == ASSUME NEW ttl \in Nat PROVE Margin(ttl) = Covered(ttl)
<1>1. FullMargin \in Nat
  BY ConnectorAssumption
<1> QED BY <1>1 DEF Margin, Covered

\* A token that is stored has its margin.
LEMMA StoredIsCovered ==
    ASSUME TypeOK, NEW t \in Tokens, NEW age \in 0..AuthTimeout, Store(t),
           life[t] = Revoked \/ promised[t] <= life[t] + age,
           life' = life, promised' = promised
    PROVE  MarginCovers'
<1>1. promised[t] \in Nat /\ life[t] \in Nat \cup {Revoked} /\ AuthTimeout \in Nat
  BY ConnectorAssumption DEF TypeOK
<1>2. CASE promised[t] > 0
  <2>1. cached' = t /\ left' = promised[t] - Covered(promised[t])
    BY <1>1, <1>2, MarginIsCovered DEF Store
  <2>2. Covered(promised[t]) \in Nat
    BY <1>1, MarginIsCovered, MarginIsSmall
  <2>3. life[t] # Revoked => left' <= life[t] + AuthTimeout - Covered(promised[t])
    BY <1>1, <2>1, <2>2 DEF Revoked
  <2> QED BY <2>1, <2>3 DEF MarginCovers
<1>3. CASE ~(promised[t] > 0)
  BY <1>3 DEF Store, MarginCovers, CacheValid
<1> QED BY <1>2, <1>3

LEMMA NextMargin ==
    ASSUME VendorKeepsItsWord, Inv, MarginInv, [Next]_vars
    PROVE  MarginInv'
<1>t. /\ cached \in Tokens \cup {None} /\ issued \in 0..MaxIssued /\ left \in Nat
      /\ life \in [Tokens -> Nat \cup {Revoked}]
      /\ promised \in [Tokens -> Nat] /\ AuthTimeout \in Nat
      /\ flight \in [at : FlightLabels, tok : Tokens \cup {None}, age : 0..AuthTimeout]
      /\ direct \in [Directs -> [at : DirectLabels, tok : Tokens \cup {None},
                                 age : 0..AuthTimeout]]
      /\ TypeOK
  BY Types, ConnectorAssumption DEF Inv
<1>i. /\ flight.at = "answered" => flight.tok \in Tokens /\ flight.tok <= issued
      /\ \A d \in Directs : direct[d].at = "answered" =>
            direct[d].tok \in Tokens /\ direct[d].tok <= issued
      /\ cached # None => cached \in Tokens /\ cached <= issued
  BY <1>t DEF Inv, TokensInv, IssuedInv, AnswersInv, Unknown
<1>a. ASSUME NEW f, NEW g, g.at = "answered" => f.at = "answered" /\ g.tok = f.tok /\ g.age = f.age,
             f.at = "answered" => f.tok \in Tokens /\ f.tok <= issued,
             AgeCovers(f),
             \A t \in Tokens : t <= issued => life'[t] \in {life[t], Revoked} /\ promised'[t] = promised[t]
      PROVE  g.at = "answered" =>
               life'[g.tok] = Revoked \/ promised'[g.tok] <= life'[g.tok] + g.age
  BY <1>a DEF AgeCovers
<1>m. MarginCovers /\ AgeCovers(flight) /\ \A d \in Directs : AgeCovers(direct[d])
  BY DEF MarginInv
<1>g. ASSUME flight' = flight \/ flight'.at # "answered",
             \A d \in Directs : direct'[d] = direct[d] \/ direct'[d].at # "answered",
             \A t \in Tokens : t <= issued => life'[t] \in {life[t], Revoked} /\ promised'[t] = promised[t]
      PROVE  AgeCovers(flight)' /\ \A d \in Directs : AgeCovers(direct[d])'
  <2>1. AgeCovers(flight)'
    BY <1>g, <1>a, <1>i, <1>m DEF AgeCovers
  <2>2. ASSUME NEW d \in Directs PROVE AgeCovers(direct[d])'
    BY <1>g, <1>a, <1>i, <1>m DEF AgeCovers
  <2> QED BY <2>1, <2>2
<1>k. ASSUME (cached' = cached /\ left' = left) \/ cached' = None,
             \A t \in Tokens : t <= issued => life'[t] \in {life[t], Revoked} /\ promised'[t] = promised[t]
      PROVE  MarginCovers'
  BY <1>k, <1>i, <1>m DEF MarginCovers, CacheValid
<1>1. CASE UNCHANGED vars
  BY <1>1, <1>g, <1>k DEF vars, cache, vendor, MarginInv
<1>2. CASE Tick
  <2>1. \A t \in Tokens : /\ promised'[t] = promised[t]
                          /\ life[t] = Revoked => life'[t] = Revoked
                          /\ life[t] # Revoked => /\ life[t] \in Nat /\ life'[t] \in Nat
                                                  /\ life[t] <= life'[t] + 1
                                                  /\ life[t] = 0 => life'[t] = 0
    BY <1>2, <1>t DEF Tick, Less, Revoked
  <2>2. MarginCovers'
    <3>1. SUFFICES ASSUME CacheValid' PROVE life'[cached] = Revoked
               \/ left' <= life'[cached] + AuthTimeout - Covered(promised[cached])
      BY <1>2, <1>i, <2>1 DEF MarginCovers, Tick, CacheValid
    <3>2. cached \in Tokens /\ left' = left - 1 /\ CacheValid
      BY <1>2, <1>t, <1>i, <3>1 DEF CacheValid, Tick, Less
    <3>3. Covered(promised[cached]) \in Nat
      BY <1>t, <3>2, MarginIsCovered, MarginIsSmall
    <3> QED BY <1>m, <1>t, <2>1, <3>2, <3>3 DEF MarginCovers
  <2>3. ASSUME NEW labels, NEW f \in Requests(labels), AgeCovers(f),
               f.at = "answered" => f.tok \in Tokens
        PROVE  Older(f).at = "answered" =>
                 \/ life'[Older(f).tok] = Revoked
                 \/ promised'[Older(f).tok] <= life'[Older(f).tok] + Older(f).age
    <3>1. Older(f).at = f.at /\ Older(f).tok = f.tok
          /\ Older(f).age = IF Underway(f) THEN f.age + 1 ELSE f.age
      BY <2>3, RequestsAge
    <3>2. f.age \in Nat
      BY <1>t DEF Requests
    <3>3. \A t \in Tokens : promised[t] \in Nat
      BY <1>t
    <3> QED BY <2>1, <2>3, <3>1, <3>2, <3>3 DEF AgeCovers, Underway
  <2>4. AgeCovers(flight)'
    BY <1>2, <1>i, <1>m, <1>t, <2>3, Types DEF Tick, AgeCovers
  <2>5. ASSUME NEW d \in Directs PROVE AgeCovers(direct[d])'
    BY <1>2, <1>i, <1>m, <1>t, <2>3, Types DEF Tick, AgeCovers
  <2> QED BY <2>2, <2>4, <2>5 DEF MarginInv
<1>3. ASSUME NEW t \in Tokens, Revoke(t) PROVE MarginInv'
  <2>1. \A x \in Tokens : life'[x] \in {life[x], Revoked} /\ promised'[x] = promised[x]
    BY <1>3, <1>t DEF Revoke
  <2> QED BY <1>3, <1>g, <1>k, <2>1 DEF Revoke, cache, MarginInv
<1>4. ASSUME NEW asker \in Directs \cup {None}, NEW a \in Answers, Grant(a, asker)
      PROVE  /\ issued + 1 \in Tokens
             /\ promised'[issued + 1] <= life'[issued + 1]
             /\ \A t \in Tokens : t <= issued => life'[t] = life[t] /\ promised'[t] = promised[t]
  <2>1. /\ issued + 1 \in Tokens /\ life'[issued + 1] = a.life
        /\ promised'[issued + 1] = IF Ttl(a) > 0 THEN Ttl(a) ELSE 0
        /\ \A t \in Tokens : t <= issued => life'[t] = life[t] /\ promised'[t] = promised[t]
    BY <1>t, <1>4, GrantIsNew DEF TypeOK, VendorTypeOK
  <2>2. Ttl(a) <= a.life /\ a.life >= 0
    BY ConnectorAssumption DEF VendorKeepsItsWord
  <2> QED BY <2>1, <2>2
<1>5. CASE Issue
  <2>1. /\ issued + 1 \in Tokens
        /\ promised'[issued + 1] <= life'[issued + 1]
        /\ \A t \in Tokens : t <= issued => life'[t] = life[t] /\ promised'[t] = promised[t]
    BY <1>4, <1>5 DEF Issue
  <2>2. flight'.at = "answered" /\ flight'.tok = issued + 1 /\ flight'.age \in Nat
        /\ UNCHANGED <<cached, left, direct>>
    BY <1>5, <1>t DEF Issue, cache
  <2>3. promised'[issued + 1] \in Nat /\ life'[issued + 1] \in Nat \cup {Revoked}
    BY <2>1, NextTypeOK DEF Inv, TypeOK
  <2>4. AgeCovers(flight)'
    BY <2>1, <2>2, <2>3 DEF AgeCovers, Revoked
  <2>5. ASSUME NEW d \in Directs PROVE AgeCovers(direct[d])'
    BY <1>a, <1>i, <1>m, <2>1, <2>2 DEF AgeCovers
  <2> QED BY <1>k, <2>1, <2>2, <2>4, <2>5 DEF MarginInv
<1>6. CASE StoreToken
  <2>1. MarginCovers'
    BY <1>6, <1>i, <1>m, <1>t, StoredIsCovered DEF StoreToken, AgeCovers, vendor
  <2>2. flight'.at # "answered" /\ UNCHANGED <<direct, life, promised>>
    BY <1>6, <1>t DEF StoreToken, vendor
  <2> QED BY <1>g, <2>1, <2>2 DEF MarginInv
<1>7. CASE Recheck \/ Deliver \/ FlightFails \/ FlightStops
  <2>1. UNCHANGED <<cached, left, life, promised, direct>>
    BY <1>7 DEF Recheck, Deliver, FlightFails, FlightStops, Fail, cache, vendor
  <2>2. flight'.at # "answered"
    <3>1. CASE Recheck
      BY <1>t, <3>1 DEF Recheck
    <3>2. CASE Deliver \/ FlightFails \/ FlightStops
      BY <3>2 DEF Deliver, FlightFails, FlightStops, Fail, NoFlight
    <3> QED BY <1>7, <3>1, <3>2
  <2> QED BY <1>g, <1>k, <2>1, <2>2 DEF MarginInv
<1>8. ASSUME NEW c \in Callers, Begin(c) \/ Cancel(c) \/ Call(c) PROVE MarginInv'
  <2>1. UNCHANGED <<life, promised, direct>> /\ ((cached' = cached /\ left' = left) \/ cached' = None)
    BY <1>8 DEF Begin, Cancel, Call, Lookup, Join, Abandon, Answered, Unanswered, Invalidate,
                cache, vendor
  <2>2. flight' = flight \/ flight' = [NoFlight EXCEPT !.at = "recheck"]
    BY <1>8 DEF Begin, Cancel, Call, Lookup, Join, Abandon, Answered, Unanswered, Invalidate
  <2>3. flight' = flight \/ flight'.at # "answered"
    BY <2>2 DEF NoFlight
  <2> QED BY <1>g, <1>k, <2>1, <2>3 DEF MarginInv
<1>9. ASSUME NEW d \in Directs, Auth(d) PROVE MarginInv'
  <2>1. CASE AuthBegin(d) \/ AuthFails(d) \/ AuthTimesOut(d)
    <3>1. UNCHANGED <<cached, left, life, promised, flight>>
      BY <2>1 DEF AuthBegin, AuthFails, AuthTimesOut, cache, vendor
    <3>2. \A e \in Directs : direct'[e] = direct[e] \/ direct'[e].at # "answered"
      BY <2>1, <1>t DEF AuthBegin, AuthFails, AuthTimesOut, NoFlight
    <3> QED BY <1>g, <1>k, <3>1, <3>2 DEF MarginInv
  <2>2. CASE AuthIssue(d)
    <3>1. /\ issued + 1 \in Tokens
          /\ promised'[issued + 1] <= life'[issued + 1]
          /\ \A t \in Tokens : t <= issued => life'[t] = life[t] /\ promised'[t] = promised[t]
      BY <1>4, <2>2 DEF AuthIssue
    <3>2. /\ direct'[d].tok = issued + 1 /\ direct'[d].age \in Nat
          /\ UNCHANGED <<cached, left, flight>>
          /\ \A e \in Directs : e # d => direct'[e] = direct[e]
      BY <2>2, <1>t DEF AuthIssue, cache
    <3>3. promised'[issued + 1] \in Nat /\ life'[issued + 1] \in Nat \cup {Revoked}
      BY <3>1, NextTypeOK DEF Inv, TypeOK
    <3>4. AgeCovers(flight)'
      BY <1>a, <1>i, <1>m, <3>1, <3>2 DEF AgeCovers
    <3>5. ASSUME NEW e \in Directs PROVE AgeCovers(direct[e])'
      <4>1. CASE e = d
        BY <3>1, <3>2, <3>3, <4>1 DEF AgeCovers, Revoked
      <4>2. CASE e # d
        BY <1>a, <1>i, <1>m, <3>1, <3>2, <4>2 DEF AgeCovers
      <4> QED BY <4>1, <4>2
    <3> QED BY <1>k, <3>1, <3>2, <3>4, <3>5 DEF MarginInv
  <2>3. CASE AuthStore(d)
    <3>1. MarginCovers'
      BY <2>3, <1>i, <1>m, <1>t, StoredIsCovered DEF AuthStore, AgeCovers, vendor
    <3>2. /\ UNCHANGED <<flight, life, promised>>
          /\ \A e \in Directs : direct'[e] = direct[e] \/ direct'[e].at # "answered"
      BY <2>3, <1>t DEF AuthStore, NoFlight, vendor
    <3> QED BY <1>g, <3>1, <3>2 DEF MarginInv
  <2> QED BY <1>9, <2>1, <2>2, <2>3 DEF Auth
<1>10. CASE AuthCtxExpires
  BY <1>10, <1>g, <1>k DEF AuthCtxExpires, cache, vendor, MarginInv
<1> QED BY <1>1, <1>2, <1>3, <1>5, <1>6, <1>7, <1>8, <1>9, <1>10 DEF Next, Flight

\* When the vendor keeps its word the cache serves no token past its lifetime
\* but for what the timeout exceeds the margin by, however many direct calls
\* store their answers in whatever order.
THEOREM MarginHolds ==
    ASSUME VendorKeepsItsWord
    PROVE  Spec => []MarginCovers
<1>1. Init => MarginInv
  BY DEF Init, MarginInv, MarginCovers, CacheValid, AgeCovers, NoFlight
<1>2. Inv /\ MarginInv /\ [Next]_vars => MarginInv'
  BY NextMargin
<1>3. MarginInv => MarginCovers
  BY DEF MarginInv
<1> QED BY <1>1, <1>2, <1>3, InitInv, NextInv, PTL DEF Spec
=============================================================================
