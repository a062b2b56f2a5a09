------------------------- MODULE ProfileScanProofs --------------------------
(***************************************************************************)
(* A scan of the profiles misses nobody, for any number of users, clocks,  *)
(* page sizes and registrations on the way, and its filters find the texts *)
(* that hold the term, for terms and texts of any length: proofs checked   *)
(* by TLAPS.                                                               *)
(***************************************************************************)
EXTENDS ProfileScan, UserStoreProofs, FiniteSetTheorems, FunctionTheorems,
        SequenceTheorems

\* The profiles a database lists before p.
AheadOf(p) == {q \in profiles : Before(q, p)}

\* The scan has asked for no row beyond those before a profile it has yet to
\* show: rows registered meanwhile only push such a profile further back.
ScanInv ==
    /\ TypeOK
    /\ ScanTypeOK
    /\ \A p \in owed : scan.offset <= Cardinality(AheadOf(p))
    /\ ScanMissesNobody

-----------------------------------------------------------------------------
(* The order of the rows.                                                  *)

\* created_at and id together leave no ties.
LEMMA BeforeIsTotal ==
    ASSUME NEW p \in Requests, NEW q \in Requests
    PROVE  /\ p # q => Before(p, q) \/ Before(q, p)
           /\ ~(Before(p, q) /\ Before(q, p))
<1>1. CreatedAt[p] \in Nat /\ CreatedAt[q] \in Nat /\ IdRank[p] \in Nat /\ IdRank[q] \in Nat
  BY ProfileScanAssumption
<1>2. IdRank[p] = IdRank[q] => p = q
  BY ProfileScanAssumption
<1>3. QED
  BY <1>1, <1>2 DEF Before

\* A listing holds every row once, in that order.
LEMMA Listing ==
    ASSUME NEW rs, rs \subseteq Requests, NEW s \in Orders(rs)
    PROVE  /\ Cardinality(rs) \in Nat
           /\ s \in [1..Cardinality(rs) -> rs]
           /\ \A i, j \in 1..Cardinality(rs) : i < j => s[i] # s[j] /\ Before(s[i], s[j])
           /\ \A i, j \in 1..Cardinality(rs) : s[i] = s[j] => i = j
           /\ \A p \in rs : \E k \in 1..Cardinality(rs) : p = s[k]
<1> DEFINE n == Cardinality(rs)
<1>1. IsFiniteSet(rs)
  BY FS_Subset, ProfileScanAssumption
<1>2. n \in Nat
  BY <1>1, FS_CardinalityType
<1>3. /\ s \in [1..n -> rs]
      /\ \A i, j \in 1..n : i < j => s[i] # s[j] /\ ~Before(s[j], s[i])
  BY DEF Orders
<1> HIDE DEF n
<1>4. \A i, j \in 1..n : i < j => s[i] # s[j] /\ Before(s[i], s[j])
  <2>1. SUFFICES ASSUME NEW i \in 1..n, NEW j \in 1..n, i < j
                 PROVE  s[i] # s[j] /\ Before(s[i], s[j])
    OBVIOUS
  <2>2. s[i] \in Requests /\ s[j] \in Requests
    BY <1>3
  <2>3. QED
    BY <1>3, <2>1, <2>2, BeforeIsTotal
<1>5. \A i, j \in 1..n : s[i] = s[j] => i = j
  BY <1>2, <1>4
<1>6. s \in Injection(1..n, rs)
  BY <1>3, <1>5, Fun_IsInj
<1>7. Cardinality(1..n) = n
  BY <1>2, FS_Interval
<1>8. s \in Surjection(1..n, rs)
  BY <1>1, <1>6, <1>7, FS_Injection DEF n
<1>9. \A p \in rs : \E k \in 1..n : p = s[k]
  <2>1. \A p \in rs : \E k \in 1..n : s[k] = p
    BY <1>8 DEF Surjection
  <2>2. QED
    BY <2>1
<1>10. QED
  BY <1>2, <1>3, <1>4, <1>5, <1>9 DEF n

\* As many rows come before the k-th as there are places before k.
LEMMA PlacesBefore ==
    ASSUME profiles \subseteq Requests, NEW s \in Orders(profiles),
           NEW k \in 1..Cardinality(profiles)
    PROVE  Cardinality(AheadOf(s[k])) = k - 1
<1> DEFINE n == Cardinality(profiles)
           f == [i \in 1..(k - 1) |-> s[i]]
<1>1. /\ n \in Nat /\ s \in [1..n -> profiles]
      /\ \A i, j \in 1..n : i < j => s[i] # s[j] /\ Before(s[i], s[j])
      /\ \A i, j \in 1..n : s[i] = s[j] => i = j
      /\ \A p \in profiles : \E i \in 1..n : p = s[i]
  BY Listing
<1>2. k \in 1..n
  OBVIOUS
<1> HIDE DEF n
<1>3. \A i \in 1..(k - 1) : i \in 1..n /\ i < k
  BY <1>1, <1>2
<1>4. f \in [1..(k - 1) -> AheadOf(s[k])]
  BY <1>1, <1>2, <1>3 DEF AheadOf
<1>5. \A i, j \in 1..(k - 1) : f[i] = f[j] => i = j
  BY <1>1, <1>3
<1>6. \A q \in AheadOf(s[k]) : \E i \in 1..(k - 1) : f[i] = q
  <2>1. SUFFICES ASSUME NEW q \in AheadOf(s[k]) PROVE \E i \in 1..(k - 1) : f[i] = q
    OBVIOUS
  <2>2. PICK i \in 1..n : q = s[i]
    BY <1>1 DEF AheadOf
  <2>3. Before(s[i], s[k]) /\ s[i] \in Requests /\ s[k] \in Requests
    BY <1>1, <1>2, <2>2 DEF AheadOf
  <2>4. ~(k < i) /\ i # k
    BY <1>1, <1>2, <2>3, BeforeIsTotal
  <2>5. i \in 1..(k - 1)
    BY <1>1, <1>2, <2>4
  <2>6. QED
    BY <2>2, <2>5
<1>7. f \in Bijection(1..(k - 1), AheadOf(s[k]))
  BY <1>4, <1>5, <1>6, Fun_IsBij
<1>8. ExistsBijection(1..(k - 1), AheadOf(s[k]))
  BY <1>7, Fun_ExistsBij
<1>9. k - 1 \in Nat
  BY <1>1, <1>2
<1>10. QED
  BY <1>8, <1>9, FS_CountingElements

\* A page holds at most as many rows as asked for, and fewer only at the end.
LEMMA PageIsFull ==
    ASSUME NEW rs, rs \subseteq Requests, NEW s \in Orders(rs), NEW limit \in Nat, NEW offset \in Nat
    PROVE  /\ Cardinality(Page(s, limit, offset)) \in 0..limit
           /\ offset + limit <= Cardinality(rs) => Cardinality(Page(s, limit, offset)) = limit
<1> DEFINE n == Cardinality(rs)
           places == {k \in DOMAIN s : k > offset /\ k <= offset + limit}
           f == [k \in places |-> s[k]]
<1>1. /\ n \in Nat /\ s \in [1..n -> rs]
      /\ \A i, j \in 1..n : s[i] = s[j] => i = j
  BY Listing
<1> HIDE DEF n
<1>2. places \subseteq (offset + 1)..(offset + limit)
  BY <1>1
<1>3. /\ IsFiniteSet((offset + 1)..(offset + limit))
      /\ Cardinality((offset + 1)..(offset + limit)) = limit
  BY FS_Interval
<1>4. IsFiniteSet(places) /\ Cardinality(places) \in Nat /\ Cardinality(places) <= limit
  BY <1>2, <1>3, FS_Subset, FS_CardinalityType
<1>5. f \in Bijection(places, Page(s, limit, offset))
  <2>1. f \in [places -> Page(s, limit, offset)]
    BY DEF Page
  <2>2. \A i, j \in places : f[i] = f[j] => i = j
    BY <1>1
  <2>3. \A p \in Page(s, limit, offset) : \E k \in places : f[k] = p
    BY DEF Page
  <2>4. QED
    BY <2>1, <2>2, <2>3, Fun_IsBij
<1>6. Cardinality(Page(s, limit, offset)) = Cardinality(places)
  <2>1. ExistsBijection(places, Page(s, limit, offset))
    BY <1>5, Fun_ExistsBij
  <2>2. QED
    BY <1>4, <2>1, FS_Bijection
<1>7. offset + limit <= n => places = (offset + 1)..(offset + limit)
  BY <1>1
<1> HIDE DEF places
<1>8. QED
  BY <1>3, <1>4, <1>6, <1>7 DEF n

-----------------------------------------------------------------------------
(* The invariant.                                                          *)

LEMMA ClampsTyped ==
    /\ \A ask \in Asked : ClampedLimit(ask) \in 1..MaxLimit
    /\ \A ask \in Nat : ClampedOffset(ask) \in 0..MaxOffset /\ ClampedOffset(ask) <= ask
  BY ProfileScanAssumption DEF ClampedLimit, AskedLimit, QueryLimit, ClampedOffset

LEMMA ScanTyped ==
    ASSUME ScanTypeOK
    PROVE  /\ scan \in [at : {"off", "on", "done"}, offset : 0..MaxOffset, limit : 1..MaxLimit]
           /\ scan.offset \in Nat /\ scan.limit \in Nat \ {0}
           /\ MaxOffset \in Nat \ {0} /\ MaxLimit \in Nat \ {0}
           /\ owed \subseteq profiles
  BY ProfileScanAssumption DEF ScanTypeOK

LEMMA InitScan == ScanInit => ScanInv
<1> SUFFICES ASSUME ScanInit PROVE ScanInv
  OBVIOUS
<1>1. TypeOK
  BY InitInv DEF ScanInit, Inv
<1>2. ScanTypeOK
  BY ProfileScanAssumption DEF ScanInit, Off, ScanTypeOK
<1>3. QED
  BY <1>1, <1>2 DEF ScanInit, ScanInv, ScanMissesNobody

\* A page takes nothing away from before those it has not come to.
LEMMA SearchKeeps ==
    ASSUME ScanInv, SearchProfiles
    PROVE  ScanInv'
<1>1. PICK s \in Orders(profiles) :
        LET page == Page(s, scan.limit, ClampedOffset(scan.offset))
        IN  /\ owed' = owed \ page
            /\ scan' = IF Cardinality(page) < scan.limit
                       THEN [scan EXCEPT !.at = "done", !.offset = 0]
                       ELSE [scan EXCEPT !.offset = ClampedOffset(@ + Cardinality(page))]
  BY DEF SearchProfiles
<1> DEFINE page == Page(s, scan.limit, scan.offset)
           n    == Cardinality(profiles)
<1>t. /\ scan \in [at : {"off", "on", "done"}, offset : 0..MaxOffset, limit : 1..MaxLimit]
      /\ scan.offset \in Nat /\ scan.limit \in Nat \ {0}
      /\ MaxOffset \in Nat \ {0} /\ MaxLimit \in Nat \ {0}
      /\ owed \subseteq profiles
  BY ScanTyped DEF ScanInv
<1>u. UNCHANGED vars /\ scan.at = "on"
  BY DEF SearchProfiles
<1>p. profiles \subseteq Requests
  BY DEF ScanInv, TypeOK
<1>2. ClampedOffset(scan.offset) = scan.offset
  BY <1>t DEF ClampedOffset
<1>3. /\ owed' = owed \ page
      /\ scan' = IF Cardinality(page) < scan.limit
                 THEN [scan EXCEPT !.at = "done", !.offset = 0]
                 ELSE [scan EXCEPT !.offset = ClampedOffset(scan.offset + Cardinality(page))]
  BY <1>1, <1>2
<1>4. /\ Cardinality(page) \in 0..scan.limit
      /\ scan.offset + scan.limit <= n => Cardinality(page) = scan.limit
  BY <1>t, <1>p, PageIsFull
<1>5. ASSUME NEW p \in owed'
      PROVE  /\ Cardinality(AheadOf(p)) \in Nat
             /\ scan.offset + scan.limit <= Cardinality(AheadOf(p))
             /\ Cardinality(AheadOf(p)) < n /\ n \in Nat
  <2>1. p \in owed /\ p \notin page
    BY <1>3
  <2>2. n \in Nat /\ s \in [1..n -> profiles]
    BY <1>p, Listing
  <2>3. PICK k \in 1..n : p = s[k]
    BY <1>p, <1>t, <2>1, Listing
  <2>4. Cardinality(AheadOf(p)) = k - 1
    BY <1>p, <2>3, PlacesBefore
  <2>5. scan.offset <= k - 1
    BY <2>1, <2>4 DEF ScanInv
  <2>6. ~(k > scan.offset /\ k <= scan.offset + scan.limit)
    BY <2>1, <2>2, <2>3 DEF Page
  <2> HIDE DEF n, page
  <2>7. QED
    BY <1>t, <2>2, <2>3, <2>4, <2>5, <2>6
<1> HIDE DEF page, n
<1>6. CASE Cardinality(page) < scan.limit
  <2>1. scan' = [scan EXCEPT !.at = "done", !.offset = 0]
    BY <1>3, <1>6
  <2>2. owed' = {}
    <3>1. SUFFICES ASSUME NEW p \in owed' PROVE FALSE
      OBVIOUS
    <3>2. QED
      BY <1>t, <1>4, <1>5, <1>6
  <2>3. TypeOK'
    BY <1>u DEF ScanInv, TypeOK, vars, rows, tables
  <2>4. ScanTypeOK'
    <3>1. scan' = [at |-> "done", offset |-> 0, limit |-> scan.limit]
      BY <1>t, <2>1
    <3>2. scan.limit \in 1..MaxLimit /\ 0 \in 0..MaxOffset
      BY <1>t
    <3>3. scan' \in [at : {"off", "on", "done"}, offset : 0..MaxOffset, limit : 1..MaxLimit]
      BY <3>1, <3>2
    <3>4. QED
      BY <2>2, <3>3 DEF ScanTypeOK
  <2>5. QED
    BY <2>2, <2>3, <2>4 DEF ScanInv, ScanMissesNobody
<1>7. CASE ~(Cardinality(page) < scan.limit)
  <2>1. Cardinality(page) = scan.limit
    BY <1>t, <1>4, <1>7
  <2>2. scan' = [scan EXCEPT !.offset = ClampedOffset(scan.offset + scan.limit)]
    BY <1>3, <1>7, <2>1
  <2>3. /\ ClampedOffset(scan.offset + scan.limit) \in 0..MaxOffset
        /\ ClampedOffset(scan.offset + scan.limit) <= scan.offset + scan.limit
    BY <1>t, ClampsTyped
  <2>4. scan' \in [at : {"off", "on", "done"}, offset : 0..MaxOffset, limit : 1..MaxLimit]
    BY <1>t, <2>2, <2>3
  <2>5. /\ scan'.at = "on"
        /\ scan'.offset = ClampedOffset(scan.offset + scan.limit)
    BY <1>t, <1>u, <2>2
  <2>6. ASSUME NEW p \in owed' PROVE scan'.offset <= Cardinality(AheadOf(p)')
    <3>1. AheadOf(p)' = AheadOf(p)
      BY <1>u DEF AheadOf, vars, rows
    <3>2. QED
      BY <1>t, <1>5, <2>3, <2>5, <3>1
  <2>7. owed' \subseteq profiles' /\ TypeOK'
    BY <1>t, <1>3, <1>u DEF ScanInv, TypeOK, vars, rows, tables
  <2>8. QED
    BY <2>4, <2>5, <2>6, <2>7 DEF ScanInv, ScanTypeOK, ScanMissesNobody
<1>8. QED
  BY <1>6, <1>7

\* Whatever others do: rows are added, or all are gone.
LEMMA MeanwhileKeeps ==
    ASSUME ScanInv, [Next]_vars, owed' = owed \cap profiles', UNCHANGED scan
    PROVE  ScanInv'
<1>1. TypeOK'
  BY NextTypeOK DEF ScanInv
<1>2. profiles \subseteq profiles' \/ profiles' = {}
  BY RowsChange DEF Publish, CommitDrop, rows
<1>3. ScanTypeOK'
  BY DEF ScanInv, ScanTypeOK
<1>4. ASSUME NEW p \in owed' PROVE scan'.offset <= Cardinality(AheadOf(p)')
  <2>1. p \in owed /\ profiles \subseteq profiles'
    BY <1>2, <1>4
  <2>2. AheadOf(p) \in SUBSET (AheadOf(p)')
    BY <2>1 DEF AheadOf
  <2>3. IsFiniteSet(AheadOf(p)')
    <3>1. AheadOf(p)' \in SUBSET Requests
      BY <1>1 DEF TypeOK, AheadOf
    <3>2. QED
      BY <3>1, FS_Subset, ProfileScanAssumption
  <2>4. /\ Cardinality(AheadOf(p)') \in Nat /\ Cardinality(AheadOf(p)) \in Nat
        /\ Cardinality(AheadOf(p)) <= Cardinality(AheadOf(p)')
    BY <2>2, <2>3, FS_Subset, FS_CardinalityType
  <2>5. scan.offset <= Cardinality(AheadOf(p)) /\ scan.offset \in Nat
    BY <2>1, ScanTyped DEF ScanInv
  <2>6. QED
    BY <2>4, <2>5
<1>5. ScanMissesNobody'
  BY DEF ScanInv, ScanMissesNobody
<1>6. QED
  BY <1>1, <1>3, <1>4, <1>5 DEF ScanInv

LEMMA ScanStep == ScanInv /\ [ScanNext]_scanVars => ScanInv'
<1> SUFFICES ASSUME ScanInv, [ScanNext]_scanVars PROVE ScanInv'
  OBVIOUS
<1>t. /\ scan \in [at : {"off", "on", "done"}, offset : 0..MaxOffset, limit : 1..MaxLimit]
      /\ MaxOffset \in Nat \ {0} /\ MaxLimit \in Nat \ {0}
      /\ owed \subseteq profiles /\ profiles \subseteq Requests
  BY ScanTyped DEF ScanInv, TypeOK
<1>1. CASE Meanwhile
  BY <1>1, MeanwhileKeeps DEF Meanwhile
<1>2. CASE BeginScan
  <2>1. PICK ask \in Asked : scan' = [at |-> "on", offset |-> 0, limit |-> ClampedLimit(ask)]
    BY <1>2 DEF BeginScan
  <2>2. ScanTypeOK'
    BY <1>2, <1>t, <2>1, ClampsTyped DEF BeginScan, ScanTypeOK, vars, rows
  <2>3. ASSUME NEW p \in owed' PROVE 0 <= Cardinality(AheadOf(p)')
    <3>1. AheadOf(p)' \in SUBSET Requests
      BY <1>2, <1>t DEF BeginScan, AheadOf, vars, rows
    <3>2. QED
      BY <3>1, FS_Subset, FS_CardinalityType, ProfileScanAssumption
  <2>4. TypeOK'
    BY <1>2 DEF BeginScan, ScanInv, TypeOK, vars, rows, tables
  <2>5. QED
    BY <2>1, <2>2, <2>3, <2>4 DEF ScanInv, ScanMissesNobody
<1>3. CASE SearchProfiles
  BY <1>3, SearchKeeps
<1>4. CASE SearchFails
  <2>1. ScanTypeOK' /\ TypeOK'
    BY <1>4, <1>t DEF SearchFails, Off, ScanInv, ScanTypeOK, TypeOK, vars, rows, tables
  <2>2. QED
    BY <1>4, <2>1 DEF SearchFails, Off, ScanInv, ScanMissesNobody
<1>5. CASE UNCHANGED scanVars
  <2>1. UNCHANGED vars /\ owed' = owed \cap profiles' /\ UNCHANGED scan
    BY <1>5, <1>t DEF scanVars, vars, rows
  <2>2. QED
    BY <2>1, MeanwhileKeeps
<1>6. QED
  BY <1>1, <1>2, <1>3, <1>4, <1>5 DEF ScanNext

LEMMA ScanInvariance == ScanSpec => []ScanInv
  BY InitScan, ScanStep, PTL DEF ScanSpec

\* The page an administrator asks for is one the server serves, whatever the
\* limit in the query string (handlers.go, the clamps of limit and offset).
THEOREM ScanTypeCorrect == ScanSpec => []ScanTypeOK
<1>1. ScanInv => ScanTypeOK
  BY DEF ScanInv
<1>2. QED
  BY <1>1, ScanInvariance, PTL

\* A scan that has come to its end has shown everybody who was there when it
\* began and is still there: ORDER BY created_at DESC, id DESC leaves no ties,
\* and registrations only push rows to later pages.
THEOREM NobodyIsMissed == ScanSpec => []ScanMissesNobody
<1>1. ScanInv => ScanMissesNobody
  BY DEF ScanInv
<1>2. QED
  BY <1>1, ScanInvariance, PTL

-----------------------------------------------------------------------------
(* The filters of the search, by induction on terms and patterns.          *)

LEMMA LeastNat ==
    ASSUME NEW T \in SUBSET Nat, T # {}
    PROVE  \E n \in T : \A m \in T : n <= m
<1> DEFINE R == OpToRel(<, Nat)
<1>1. IsWellFoundedOn(R, Nat)
    BY NatLessThanWellFounded
<1>2. \E n \in T : \A m \in T : <<m, n>> \notin R
    BY <1>1, WFMin
<1>3. \A n, m \in Nat : m < n => <<m, n>> \in R
    BY DEF OpToRel
<1> HIDE DEF R
<1>4. PICK n \in T : \A m \in T : <<m, n>> \notin R
    BY <1>2
<1>5. \A m \in T : ~(m < n)
    BY <1>3, <1>4
<1>6. \A m \in T : n <= m
    BY <1>5
<1> QED
    BY <1>6

-----------------------------------------------------------------------------
(* Escaping.                                                               *)

Texts == Seq(Chars)

\* The recursive function of FlattenSeq: f[i] joins the first i pieces.
Joins(f, s, n) == f = [i \in 1..n |-> IF i = 1 THEN s[i] ELSE f[i - 1] \o s[i]]

LEMMA JoinsExist ==
    ASSUME NEW s, NEW n \in Nat
    PROVE  \E f : Joins(f, s, n)
<1> DEFINE Bad == {k \in Nat : ~ \E f : Joins(f, s, k)}
<1>1. ASSUME Bad # {} PROVE FALSE
  <2>1. PICK k \in Bad : \A m \in Bad : k <= m
    BY <1>1, LeastNat
  <2>2. k \in Nat /\ ~ \E f : Joins(f, s, k)
    BY <2>1
  <2>3. CASE k = 0
    <3> DEFINE g == [i \in 1..0 |-> s[i]]
    <3>1. Joins(g, s, 0)
      BY DEF Joins
    <3> QED
      BY <2>2, <2>3, <3>1
  <2>4. CASE k # 0
    <3>1. k - 1 \in Nat /\ k - 1 \notin Bad
      <4>1. k - 1 \in Nat
        BY <2>2, <2>4
      <4>2. k - 1 \in Bad => k <= k - 1
        <5> HIDE DEF Bad
        <5> QED
          BY <2>1
      <4> QED
        BY <2>2, <4>1, <4>2
    <3>2. PICK f : Joins(f, s, k - 1)
      BY <3>1
    <3> DEFINE g == [i \in 1..k |-> IF i = 1 THEN s[i] ELSE f[i - 1] \o s[i]]
    <3>3. \A i \in 1..(k - 1) : f[i] = IF i = 1 THEN s[i] ELSE f[i - 1] \o s[i]
      BY <3>2 DEF Joins
    <3>4. \A i \in 1..k : g[i] = IF i = 1 THEN s[i] ELSE f[i - 1] \o s[i]
      OBVIOUS
    <3> HIDE DEF g
    <3>5. \A i \in 1..(k - 1) : g[i] = f[i]
      BY <2>2, <3>3, <3>4
    <3>6. \A i \in 1..k : i # 1 => g[i - 1] = f[i - 1]
      BY <2>2, <3>5
    <3>7. g = [i \in 1..k |-> IF i = 1 THEN s[i] ELSE g[i - 1] \o s[i]]
      <4> DEFINE h == [i \in 1..k |-> IF i = 1 THEN s[i] ELSE g[i - 1] \o s[i]]
      <4>1. \A i \in 1..k : g[i] = h[i]
        BY <3>4, <3>6
      <4> QED
        BY <4>1 DEF g
    <3> QED
      BY <2>2, <3>7 DEF Joins
  <2> QED
    BY <2>3, <2>4
<1> QED
    BY <1>1

\* piece stands in q behind the first o characters.
Holds(q, o, piece) ==
    \A j \in 1..Len(piece) : o + j <= Len(q) /\ q[o + j] = piece[j]

Starts(f, i) == IF i = 1 THEN 0 ELSE Len(f[i - 1])

\* Each piece stands behind those before it.
LEMMA JoinsHold ==
    ASSUME NEW s \in Seq(Texts), NEW f, Joins(f, s, Len(s)), NEW k \in 1..Len(s)
    PROVE  /\ f[k] \in Texts
           /\ Len(f[k]) = Starts(f, k) + Len(s[k])
           /\ \A i \in 1..k : Starts(f, i) \in Nat /\ Holds(f[k], Starts(f, i), s[i])
<1> DEFINE Good(m) == /\ f[m] \in Texts
                      /\ Len(f[m]) = Starts(f, m) + Len(s[m])
                      /\ \A i \in 1..m : Starts(f, i) \in Nat /\ Holds(f[m], Starts(f, i), s[i])
           Bad == {m \in 1..Len(s) : ~Good(m)}
<1>1. Len(s) \in Nat /\ \A i \in 1..Len(s) : s[i] \in Texts /\ Len(s[i]) \in Nat
  <2>1. \A i \in 1..Len(s) : s[i] \in Texts
    OBVIOUS
  <2> QED
    BY <2>1 DEF Texts
<1>2. \A i \in 1..Len(s) : f[i] = IF i = 1 THEN s[i] ELSE f[i - 1] \o s[i]
    BY DEF Joins
<1>3. ASSUME Bad # {} PROVE FALSE
  <2>1. Bad \in SUBSET Nat
    BY <1>1
  <2>2. PICK m \in Bad : \A j \in Bad : m <= j
    <3> HIDE DEF Bad
    <3> QED
      BY <1>3, <2>1, LeastNat
  <2>3. m \in 1..Len(s) /\ ~Good(m)
    BY <2>2
  <2>4. CASE m = 1
    <3>1. f[1] = s[1] /\ Starts(f, 1) = 0
      BY <1>2, <2>3, <2>4 DEF Starts
    <3>2. Holds(f[1], 0, s[1])
      BY <1>1, <2>3, <2>4, <3>1 DEF Holds
    <3>3. Good(1)
      <4>1. \A i \in 1..1 : i = 1
        OBVIOUS
      <4> QED
        BY <1>1, <2>3, <2>4, <3>1, <3>2, <4>1
    <3> QED
      BY <2>3, <2>4, <3>3
  <2>5. CASE m # 1
    <3> DEFINE l == m - 1
    <3>1. l \in 1..Len(s) /\ l < m /\ m \in Nat
      BY <1>1, <2>3, <2>5
    <3>2. l \notin Bad
      <4> HIDE DEF Bad, l
      <4>1. l \in Bad => m <= l
        BY <2>2
      <4> QED
        BY <1>1, <2>3, <3>1, <4>1
    <3>3. Good(l)
      <4> HIDE DEF Good, l
      <4> QED
        BY <3>1, <3>2
    <3>4. f[m] = f[l] \o s[m] /\ Starts(f, m) = Len(f[l])
      BY <1>2, <2>3, <2>5 DEF Starts
    <3> DEFINE a == f[l]
               b == s[m]
    <3>5. a \in Texts /\ b \in Texts /\ Len(a) \in Nat /\ Len(b) \in Nat
      BY <1>1, <2>3, <3>3 DEF Texts
    <3> HIDE DEF a, b, Good
    <3>6. /\ a \o b \in Texts /\ Len(a \o b) = Len(a) + Len(b)
          /\ \A i \in 1..(Len(a) + Len(b)) :
               (a \o b)[i] = IF i <= Len(a) THEN a[i] ELSE b[i - Len(a)]
      BY <3>5, ConcatProperties DEF Texts
    <3>7. ASSUME NEW i \in 1..m
          PROVE  Starts(f, i) \in Nat /\ Holds(a \o b, Starts(f, i), s[i])
      <4>1. CASE i = m
        <5>1. Starts(f, i) = Len(a) /\ s[i] = b
          BY <3>4, <4>1 DEF a, b
        <5>2. Holds(a \o b, Len(a), b)
          BY <3>5, <3>6 DEF Holds
        <5> QED
          BY <3>5, <5>1, <5>2
      <4>2. CASE i # m
        <5>1. i \in 1..l
          BY <3>1, <4>2
        <5>2. Starts(f, i) \in Nat /\ Holds(a, Starts(f, i), s[i]) /\ Len(s[i]) \in Nat
          BY <1>1, <3>1, <3>3, <5>1 DEF Good, a
        <5>3. ASSUME NEW j \in 1..Len(s[i])
              PROVE  /\ Starts(f, i) + j <= Len(a \o b)
                     /\ (a \o b)[Starts(f, i) + j] = s[i][j]
          <6> DEFINE q == Starts(f, i) + j
          <6>1. q \in 1..Len(a) /\ a[q] = s[i][j]
            BY <3>5, <5>2 DEF Holds
          <6> HIDE DEF q
          <6>2. q <= Len(a \o b) /\ (a \o b)[q] = a[q]
            BY <3>5, <3>6, <6>1
          <6> QED
            BY <6>1, <6>2 DEF q
        <5> QED
          BY <5>2, <5>3 DEF Holds
      <4> QED
        BY <4>1, <4>2
    <3>8. Good(m)
      BY <3>4, <3>6, <3>7 DEF Good, a, b
    <3> QED
      BY <2>3, <3>8
  <2> QED
    BY <2>4, <2>5
<1>4. Good(k)
  <2> HIDE DEF Good
  <2> QED
    BY <1>3
<1> QED
    BY <1>4

\* The pieces of an escaped term.
Piece(c) == IF c \in Special THEN <<"\\", c>> ELSE <<c>>

LEMMA PieceIs ==
    ASSUME NEW c \in Chars
    PROVE  /\ Piece(c) \in Texts
           /\ c \in Special => Len(Piece(c)) = 2 /\ Piece(c)[1] = "\\" /\ Piece(c)[2] = c
           /\ c \notin Special => Len(Piece(c)) = 1 /\ Piece(c)[1] = c
<1>1. "\\" \in Chars
    BY DEF Chars
<1>2. CASE c \in Special
  <2>1. Piece(c) = <<"\\", c>>
    BY <1>2 DEF Piece
  <2>2. <<"\\", c>> \in Seq(Chars)
    BY <1>1
  <2> QED
    BY <1>2, <2>1, <2>2 DEF Texts
<1>3. CASE c \notin Special
  <2>1. Piece(c) = <<c>>
    BY <1>3 DEF Piece
  <2> QED
    BY <1>3, <2>1 DEF Texts
<1> QED
    BY <1>2, <1>3

\* q spells the term w from its a[1]-th character to before its a[n + 1]-th,
\* with \ before what is special.
Spells(q, a, w) ==
    \A i \in 1..Len(w) :
        /\ a[i] \in 1..Len(q) /\ a[i + 1] = a[i] + Len(Piece(w[i]))
        /\ a[i + 1] <= Len(q)
        /\ \A j \in 1..Len(Piece(w[i])) : q[a[i] + j - 1] = Piece(w[i])[j]

LEMMA EscapeIs ==
    ASSUME NEW w \in Texts
    PROVE  /\ escapeLike(w) \in Texts
           /\ \E o : /\ o[1] = 0 /\ o[Len(w) + 1] = Len(escapeLike(w))
                     /\ \A i \in 1..Len(w) :
                          /\ o[i] \in Nat /\ o[i + 1] = o[i] + Len(Piece(w[i]))
                          /\ Holds(escapeLike(w), o[i], Piece(w[i]))
<1> DEFINE n == Len(w)
           s == [i \in DOMAIN w |-> Piece(w[i])]
           e == escapeLike(w)
<1>1. n \in Nat /\ DOMAIN w = 1..n /\ \A i \in 1..n : w[i] \in Chars
    BY DEF Texts
<1>2. s \in Seq(Texts) /\ Len(s) = n /\ \A i \in 1..n : s[i] = Piece(w[i])
  <2>1. \A i \in 1..n : Piece(w[i]) \in Texts
    BY <1>1, PieceIs
  <2> QED
    BY <1>1, <2>1
<1>3. e = FlattenSeq(s)
    BY DEF escapeLike, Piece
<1>4. CASE n = 0
  <2>1. s = <<>>
    BY <1>2, <1>4, EmptySeq
  <2>2. e = <<>>
    BY <1>2, <1>3, <1>4, <2>1 DEF FlattenSeq
  <2> DEFINE o == [i \in {1} |-> 0]
  <2>3. o[1] = 0
    OBVIOUS
  <2>4. Len(e) = 0 /\ e \in Texts
    BY <2>2 DEF Texts
  <2> HIDE DEF e, o
  <2>5. \A i \in 1..n : FALSE
    BY <1>4
  <2> QED
    BY <1>4, <2>3, <2>4, <2>5 DEF e
<1>5. CASE n # 0
  <2> DEFINE f == CHOOSE f : Joins(f, s, n)
  <2>1. Joins(f, s, n)
    BY <1>1, JoinsExist
  <2>2. e = f[n]
    <3>1. FlattenSeq(s) = LET g == CHOOSE g : g = [i \in 1..Len(s) |-> IF i = 1 THEN s[i] ELSE g[i - 1] \o s[i]]
                          IN  g[Len(s)]
      <4>1. Len(s) # 0
        BY <1>2, <1>5
      <4> HIDE DEF s
      <4> QED
        BY <4>1 DEF FlattenSeq
    <3> HIDE DEF s
    <3> QED
      BY <1>2, <1>3, <3>1 DEF Joins
  <2> DEFINE o == [i \in 1..(n + 1) |-> Starts(f, i)]
  <2> HIDE DEF f, s, e
  <2>3. \A k \in 1..n : /\ f[k] \in Texts
                        /\ Len(f[k]) = Starts(f, k) + Len(s[k])
                        /\ \A i \in 1..k : Starts(f, i) \in Nat /\ Holds(f[k], Starts(f, i), s[i])
    BY <1>1, <1>2, <2>1, JoinsHold
  <2>4. n \in 1..n
    BY <1>1, <1>5
  <2>5. e \in Texts
    BY <2>2, <2>3, <2>4
  <2>6. o[1] = 0 /\ o[n + 1] = Len(e)
    BY <1>1, <1>5, <2>2 DEF Starts
  <2>7. ASSUME NEW i \in 1..n
        PROVE  /\ o[i] \in Nat /\ o[i + 1] = o[i] + Len(Piece(w[i]))
               /\ Holds(e, o[i], Piece(w[i]))
    <3>1. o[i] = Starts(f, i) /\ o[i + 1] = Starts(f, i + 1)
      BY <1>1
    <3>2. Starts(f, i + 1) = Len(f[i])
      BY <1>1 DEF Starts
    <3>3. s[i] = Piece(w[i])
      BY <1>2
    <3> HIDE DEF o
    <3> QED
      BY <2>2, <2>3, <2>4, <3>1, <3>2, <3>3
  <2> HIDE DEF o
  <2> QED
    BY <2>5, <2>6, <2>7 DEF e
<1> QED
    BY <1>4, <1>5

\* What LIKE is given: the term with \ before what is special, between two %.
LEMMA PatternIs ==
    ASSUME NEW w \in Texts
    PROVE  LET p == Pattern(w)
               L == Len(p)
           IN  /\ p \in Texts /\ L \in Nat /\ L >= 2 /\ p[1] = "%" /\ p[L] = "%"
               /\ \E a : a[1] = 2 /\ a[Len(w) + 1] = L /\ Spells(p, a, w)
<1> DEFINE n == Len(w)
           e == escapeLike(w)
           p == Pattern(w)
           L == Len(p)
<1>1. n \in Nat /\ \A i \in 1..n : w[i] \in Chars
    BY DEF Texts
<1>2. e \in Texts /\ Len(e) \in Nat
    BY EscapeIs DEF Texts
<1>3. PICK o : /\ o[1] = 0 /\ o[n + 1] = Len(e)
               /\ \A i \in 1..n : /\ o[i] \in Nat /\ o[i + 1] = o[i] + Len(Piece(w[i]))
                                  /\ Holds(e, o[i], Piece(w[i]))
    BY EscapeIs
<1> HIDE DEF e
<1>4. /\ p \in Texts /\ L = Len(e) + 2 /\ p[1] = "%" /\ p[L] = "%"
      /\ \A i \in 1..Len(e) : p[i + 1] = e[i]
  <2> DEFINE c == <<"%">>
             q == c \o e
  <2>1. c \in Texts /\ Len(c) = 1 /\ c[1] = "%"
    <3>1. "%" \in Chars
      BY DEF Chars
    <3> QED
      BY <3>1 DEF Texts
  <2> HIDE DEF c
  <2>2. /\ q \in Texts /\ Len(q) = Len(e) + 1 /\ q[1] = "%"
        /\ \A i \in 1..Len(e) : q[i + 1] = e[i]
    <3>1. /\ q \in Texts /\ Len(q) = 1 + Len(e)
          /\ \A i \in 1..(1 + Len(e)) : q[i] = IF i <= 1 THEN c[i] ELSE e[i - 1]
      BY <1>2, <2>1, ConcatProperties DEF Texts
    <3> HIDE DEF q
    <3> QED
      BY <1>2, <2>1, <3>1
  <2>3. p = q \o c
    BY DEF Pattern, c, e
  <2> HIDE DEF q, p
  <2>4. /\ p \in Texts /\ Len(p) = Len(q) + 1
        /\ \A i \in 1..(Len(q) + 1) : p[i] = IF i <= Len(q) THEN q[i] ELSE c[i - Len(q)]
    <3>1. /\ q \o c \in Texts /\ Len(q \o c) = Len(q) + Len(c)
          /\ \A i \in 1..(Len(q) + Len(c)) :
               (q \o c)[i] = IF i <= Len(q) THEN q[i] ELSE c[i - Len(q)]
      BY <2>1, <2>2, ConcatProperties DEF Texts
    <3> QED
      BY <2>1, <2>3, <3>1
  <2>5. p[Len(p)] = "%" /\ \A i \in 1..Len(q) : p[i] = q[i]
    BY <1>2, <2>1, <2>2, <2>4
  <2> QED
    BY <1>2, <2>2, <2>4, <2>5
<1> HIDE DEF p
<1> DEFINE a == [i \in 1..(n + 1) |-> o[i] + 2]
<1>5. a[1] = 2 /\ a[n + 1] = L
    BY <1>1, <1>3, <1>4
<1>6. ASSUME NEW i \in 1..n
      PROVE  /\ a[i] \in 1..L /\ a[i + 1] = a[i] + Len(Piece(w[i]))
             /\ a[i + 1] <= L
             /\ \A j \in 1..Len(Piece(w[i])) : p[a[i] + j - 1] = Piece(w[i])[j]
  <2> DEFINE x == Piece(w[i])
  <2>1. Len(x) \in {1, 2}
    BY <1>1, PieceIs
  <2>2. /\ o[i] \in Nat /\ o[i + 1] = o[i] + Len(x)
        /\ \A j \in 1..Len(x) : o[i] + j <= Len(e) /\ e[o[i] + j] = x[j]
    BY <1>3 DEF Holds
  <2>3. a[i] = o[i] + 2 /\ a[i + 1] = o[i + 1] + 2
    BY <1>1
  <2> HIDE DEF a, x
  <2>4. o[i] + Len(x) <= Len(e)
    <3>1. Len(x) \in 1..Len(x)
      BY <2>1
    <3> QED
      BY <2>2, <3>1
  <2>5. ASSUME NEW j \in 1..Len(x) PROVE p[a[i] + j - 1] = x[j]
    <3> DEFINE y == o[i] + j
    <3>1. y \in 1..Len(e) /\ a[i] + j - 1 = y + 1
      <4>1. o[i] \in Nat /\ o[i] + j <= Len(e)
        BY <2>2
      <4>2. a[i] = o[i] + 2
        BY <2>3
      <4>3. j \in Nat /\ 1 <= j
        OBVIOUS
      <4> QED
        BY <1>2, <4>1, <4>2, <4>3
    <3>2. e[y] = x[j]
      BY <2>2
    <3> HIDE DEF y
    <3> QED
      BY <1>4, <3>1, <3>2
  <2>6. a[i] \in 1..L /\ a[i + 1] = a[i] + Len(x) /\ a[i + 1] <= L
    <3>1. o[i] \in Nat /\ o[i + 1] = o[i] + Len(x)
      BY <2>2
    <3>2. Len(e) \in Nat /\ L = Len(e) + 2
      BY <1>2, <1>4
    <3> HIDE DEF L
    <3> QED
      BY <2>1, <2>3, <2>4, <3>1, <3>2
  <2> QED
    BY <2>5, <2>6 DEF x
<1> HIDE DEF a
<1>7. Spells(p, a, w)
    BY <1>6 DEF Spells
<1> QED
    BY <1>2, <1>4, <1>5, <1>7 DEF p

-----------------------------------------------------------------------------
(* Matching.                                                               *)

\* One place of LIKE's recursive function.
From(m, t, p, i) ==
    IF i = Len(p) + 1 THEN {Len(t) + 1}
    ELSE IF i > Len(p) THEN {}
    ELSE IF p[i] = "%" THEN {j \in 1..(Len(t) + 1) : \E k \in m[i + 1] : j <= k}
    ELSE IF p[i] = "_" THEN {j \in 1..Len(t) : j + 1 \in m[i + 1]}
    ELSE IF p[i] = "\\"
      THEN {j \in 1..Len(t) : i < Len(p) /\ p[i + 1] = t[j] /\ j + 1 \in m[i + 2]}
    ELSE {j \in 1..Len(t) : p[i] = t[j] /\ j + 1 \in m[i + 1]}

Matches(m, t, p) == m = [i \in 1..(Len(p) + 2) |-> From(m, t, p, i)]

IsMatch(m, t, p) == \A i \in 1..(Len(p) + 2) : m[i] = From(m, t, p, i)

\* It is so from the k-th place on.
MatchesFrom(m, t, p, k) ==
    /\ m = [i \in 1..(Len(p) + 2) |-> m[i]]
    /\ \A i \in 1..(Len(p) + 2) : i >= k => m[i] = From(m, t, p, i)

LEMMA FromReads ==
    ASSUME NEW t, NEW p \in Texts, NEW m, NEW n, NEW i \in 1..(Len(p) + 2),
           \A k \in 1..(Len(p) + 2) : k > i => m[k] = n[k]
    PROVE  From(m, t, p, i) = From(n, t, p, i)
<1>1. Len(p) \in Nat
    BY DEF Texts
<1>2. CASE i > Len(p)
    BY <1>1, <1>2 DEF From
<1>3. CASE ~(i > Len(p))
  <2>1. i + 1 \in 1..(Len(p) + 2) /\ i + 2 \in 1..(Len(p) + 2) /\ i + 1 > i /\ i + 2 > i
    BY <1>1, <1>3
  <2>2. m[i + 1] = n[i + 1] /\ m[i + 2] = n[i + 2]
    BY <2>1
  <2> QED
    BY <2>2 DEF From
<1> QED
    BY <1>2, <1>3

LEMMA MatchExists ==
    ASSUME NEW t, NEW p \in Texts
    PROVE  \E m : Matches(m, t, p)
<1> DEFINE N == Len(p) + 3
           Bad == {k \in Nat : k <= N /\ ~ \E m : MatchesFrom(m, t, p, N - k)}
<1>1. Len(p) \in Nat /\ N \in Nat
    BY DEF Texts
<1>2. ASSUME Bad # {} PROVE FALSE
  <2>1. PICK k \in Bad : \A l \in Bad : k <= l
    BY <1>2, LeastNat
  <2>2. k \in Nat /\ k <= N /\ ~ \E m : MatchesFrom(m, t, p, N - k)
    BY <2>1
  <2>3. k # 0
    <3> DEFINE m == [i \in 1..(Len(p) + 2) |-> 0]
    <3>1. m = [i \in 1..(Len(p) + 2) |-> m[i]]
      OBVIOUS
    <3>2. \A i \in 1..(Len(p) + 2) : ~(i >= N - 0)
      BY <1>1
    <3> HIDE DEF m
    <3>3. MatchesFrom(m, t, p, N - 0)
      BY <3>1, <3>2 DEF MatchesFrom
    <3> QED
      BY <2>2, <3>3
  <2>4. k - 1 \in Nat /\ k - 1 \notin Bad
    <3>1. k - 1 \in Nat
      BY <2>2, <2>3
    <3>2. k - 1 \in Bad => k <= k - 1
      <4> HIDE DEF Bad
      <4> QED
        BY <2>1
    <3> QED
      BY <2>2, <3>1, <3>2
  <2>5. PICK m : MatchesFrom(m, t, p, N - (k - 1))
    BY <1>1, <2>2, <2>4
  <2> DEFINE n == [i \in 1..(Len(p) + 2) |-> From(m, t, p, i)]
  <2>6. n = [i \in 1..(Len(p) + 2) |-> n[i]] /\ \A i \in 1..(Len(p) + 2) : n[i] = From(m, t, p, i)
    OBVIOUS
  <2> HIDE DEF n
  <2>7. \A i \in 1..(Len(p) + 2) : i >= N - (k - 1) => m[i] = n[i]
    BY <2>5, <2>6 DEF MatchesFrom
  <2>8. ASSUME NEW i \in 1..(Len(p) + 2), i >= N - k PROVE n[i] = From(n, t, p, i)
    <3>1. \A l \in 1..(Len(p) + 2) : l > i => m[l] = n[l]
      BY <1>1, <2>2, <2>7, <2>8
    <3>2. From(m, t, p, i) = From(n, t, p, i)
      BY <3>1, FromReads
    <3> QED
      BY <2>6, <3>2
  <2>9. MatchesFrom(n, t, p, N - k)
    BY <2>6, <2>8 DEF MatchesFrom
  <2> QED
    BY <2>2, <2>9
<1>3. PICK m : MatchesFrom(m, t, p, N - N)
    BY <1>1, <1>2
<1>4. \A i \in 1..(Len(p) + 2) : m[i] = From(m, t, p, i)
    BY <1>1, <1>3 DEF MatchesFrom
<1>5. m = [i \in 1..(Len(p) + 2) |-> m[i]]
    BY <1>3 DEF MatchesFrom
<1> QED
    BY <1>4, <1>5 DEF Matches

\* So LIKE is told by its recursive function.
LEMMA LikeIs ==
    ASSUME NEW t, NEW p \in Texts
    PROVE  \E m : IsMatch(m, t, p) /\ (Like(t, p) <=> 1 \in m[1])
<1> DEFINE m == CHOOSE m : Matches(m, t, p)
<1>1. Matches(m, t, p)
    BY MatchExists
<1>2. Like(t, p) <=> 1 \in m[1]
    BY DEF Like, Matches, From
<1> HIDE DEF m
<1>3. IsMatch(m, t, p)
    BY <1>1 DEF Matches, IsMatch
<1> QED
    BY <1>2, <1>3

\* Before the last % everything matches.
LEMMA EndMatches ==
    ASSUME NEW t \in Texts, NEW p \in Texts, Len(p) >= 2, p[Len(p)] = "%",
           NEW m, IsMatch(m, t, p)
    PROVE  m[Len(p)] = 1..(Len(t) + 1)
<1>1. Len(p) \in Nat /\ Len(t) \in Nat
    BY DEF Texts
<1>2. m[Len(p) + 1] = {Len(t) + 1}
  <2>1. Len(p) + 1 \in 1..(Len(p) + 2)
    BY <1>1
  <2> QED
    BY <2>1 DEF From, IsMatch
<1>3. m[Len(p)] = {j \in 1..(Len(t) + 1) : \E k \in {Len(t) + 1} : j <= k}
  <2>1. Len(p) \in 1..(Len(p) + 2) /\ Len(p) # Len(p) + 1 /\ ~(Len(p) > Len(p))
    BY <1>1
  <2> QED
    BY <1>2, <2>1 DEF From, IsMatch
<1> QED
    BY <1>1, <1>3

\* w from its i-th character on stands in t from the j-th on.
StandsFrom(t, j, w, i) ==
    /\ j + (Len(w) + 1 - i) <= Len(t) + 1
    /\ \A k \in i..Len(w) : t[j + k - i] = w[k]

\* One character of an escaped term matches just itself.
LEMMA CharMatches ==
    ASSUME NEW t \in Texts, NEW w \in Texts, NEW p \in Texts, NEW a, Spells(p, a, w),
           NEW m, IsMatch(m, t, p),
           NEW i \in 1..Len(w)
    PROVE  m[a[i]] = {j \in 1..Len(t) : w[i] = t[j] /\ j + 1 \in m[a[i + 1]]}
<1>1. Len(p) \in Nat /\ Len(t) \in Nat /\ Len(w) \in Nat /\ w[i] \in Chars
    BY DEF Texts
<1> DEFINE x == a[i]
           y == a[i + 1]
<1>2. /\ x \in 1..Len(p) /\ y = x + Len(Piece(w[i])) /\ y <= Len(p)
      /\ \A j \in 1..Len(Piece(w[i])) : p[x + j - 1] = Piece(w[i])[j]
    BY DEF Spells
<1> HIDE DEF x, y
<1>3. m[x] = From(m, t, p, x) /\ x # Len(p) + 1 /\ ~(x > Len(p))
    BY <1>1, <1>2 DEF IsMatch
<1>4. CASE w[i] \in Special
  <2>1. Len(Piece(w[i])) = 2 /\ Piece(w[i])[1] = "\\" /\ Piece(w[i])[2] = w[i]
    BY <1>1, <1>4, PieceIs
  <2>2. y = x + 2 /\ p[x] = "\\" /\ p[x + 1] = w[i] /\ x < Len(p)
    <3>1. p[x + 1 - 1] = "\\" /\ p[x + 2 - 1] = w[i]
      BY <1>2, <2>1
    <3>2. x + 1 - 1 = x /\ x + 2 - 1 = x + 1
      BY <1>1, <1>2
    <3> QED
      BY <1>1, <1>2, <2>1, <3>1, <3>2
  <2> QED
    BY <1>3, <2>2 DEF From, x, y
<1>5. CASE w[i] \notin Special
  <2>1. Len(Piece(w[i])) = 1 /\ Piece(w[i])[1] = w[i]
    BY <1>1, <1>5, PieceIs
  <2>2. y = x + 1 /\ p[x] = w[i]
    <3>1. p[x + 1 - 1] = w[i]
      BY <1>2, <2>1
    <3>2. x + 1 - 1 = x
      BY <1>1, <1>2
    <3> QED
      BY <1>1, <1>2, <2>1, <3>1, <3>2
  <2>3. p[x] # "%" /\ p[x] # "_" /\ p[x] # "\\"
    BY <1>5, <2>2 DEF Special
  <2> QED
    BY <1>3, <2>2, <2>3 DEF From, x, y
<1> QED
    BY <1>4, <1>5

\* From where the escape of w's i-th character is, the places that match are
\* those where the rest of w stands.
LEMMA TermMatches ==
    ASSUME NEW t \in Texts, NEW w \in Texts, NEW p \in Texts, Len(p) >= 2, p[Len(p)] = "%",
           NEW a, Spells(p, a, w), a[Len(w) + 1] = Len(p),
           NEW m, IsMatch(m, t, p)
    PROVE  \A i \in 1..(Len(w) + 1) :
             m[a[i]] = {j \in 1..(Len(t) + 1) : StandsFrom(t, j, w, i)}
<1> DEFINE n == Len(w)
           Good(i) == m[a[i]] = {j \in 1..(Len(t) + 1) : StandsFrom(t, j, w, i)}
           Bad == {k \in 0..n : ~Good(n + 1 - k)}
<1>1. n \in Nat /\ Len(t) \in Nat /\ Len(p) \in Nat
    BY DEF Texts
<1>2. ASSUME Bad # {} PROVE FALSE
  <2>1. Bad \in SUBSET Nat
    BY <1>1
  <2>2. PICK k \in Bad : \A l \in Bad : k <= l
    <3> HIDE DEF Bad
    <3> QED
      BY <1>2, <2>1, LeastNat
  <2>3. k \in 0..n /\ ~Good(n + 1 - k)
    BY <2>2
  <2>4. CASE k = 0
    <3>1. m[a[n + 1]] = 1..(Len(t) + 1)
      BY EndMatches
    <3>2. \A j \in 1..(Len(t) + 1) : StandsFrom(t, j, w, n + 1)
      <4>1. n + 1 - (n + 1) = 0 /\ (n + 1)..n = {}
        BY <1>1
      <4>2. \A j \in 1..(Len(t) + 1) : j + 0 <= Len(t) + 1
        BY <1>1
      <4> QED
        BY <4>1, <4>2 DEF StandsFrom
    <3>3. Good(n + 1)
      BY <3>1, <3>2
    <3> QED
      BY <1>1, <2>3, <2>4, <3>3
  <2>5. CASE k # 0
    <3> DEFINE i == n + 1 - k
    <3>1. i \in 1..n /\ i + 1 = n + 1 - (k - 1) /\ k - 1 \in 0..n
      BY <1>1, <2>3, <2>5
    <3>2. k - 1 \notin Bad
      <4>1. k - 1 \in Bad => k <= k - 1
        <5> HIDE DEF Bad
        <5> QED
          BY <2>2
      <4> QED
        BY <1>1, <2>3, <4>1
    <3>3. Good(i + 1)
      <4> HIDE DEF Good, i
      <4> QED
        BY <3>1, <3>2
    <3> HIDE DEF i
    <3>4. m[a[i]] = {j \in 1..Len(t) : w[i] = t[j] /\ j + 1 \in m[a[i + 1]]}
      <4>1. i \in 1..Len(w)
        BY <3>1
      <4> HIDE DEF n, Bad
      <4> QED
        BY <4>1, CharMatches
    <3>5. ASSUME NEW j \in 1..(Len(t) + 1)
          PROVE  StandsFrom(t, j, w, i)
                   <=> j \in 1..Len(t) /\ w[i] = t[j] /\ StandsFrom(t, j + 1, w, i + 1)
      <4>1. j + (n + 1 - i) <= Len(t) + 1
              <=> j \in 1..Len(t) /\ (j + 1) + (n + 1 - (i + 1)) <= Len(t) + 1
        BY <1>1, <3>1
      <4>2. (\A q \in i..n : t[j + q - i] = w[q])
              <=> w[i] = t[j] /\ \A q \in (i + 1)..n : t[(j + 1) + q - (i + 1)] = w[q]
        <5>1. \A q \in (i + 1)..n : (j + 1) + q - (i + 1) = j + q - i
          BY <1>1, <3>1
        <5>2. j + i - i = j /\ i \in i..n /\ \A q \in i..n : q = i \/ q \in (i + 1)..n
          BY <1>1, <3>1
        <5>3. \A q \in (i + 1)..n : q \in i..n
          BY <1>1, <3>1
        <5> QED
          BY <5>1, <5>2, <5>3
      <4> QED
        BY <4>1, <4>2 DEF StandsFrom
    <3>6. Good(i)
      <4>1. \A j \in 1..Len(t) : j \in 1..(Len(t) + 1) /\ j + 1 \in 1..(Len(t) + 1)
        BY <1>1
      <4> QED
        BY <3>3, <3>4, <3>5, <4>1
    <3> QED
      BY <2>3, <3>6 DEF i
  <2> QED
    BY <2>4, <2>5
<1>3. ASSUME NEW i \in 1..(n + 1) PROVE Good(i)
  <2>1. n + 1 - i \in 0..n /\ n + 1 - (n + 1 - i) = i
    BY <1>1
  <2> HIDE DEF Good
  <2> QED
    BY <1>2, <2>1
<1> QED
  <2> HIDE DEF n
  <2>1. \A i \in 1..(n + 1) : Good(i)
    BY <1>3
  <2> QED
    BY <2>1 DEF n

LEMMA StandsIsHas ==
    ASSUME NEW t \in Texts, NEW w \in Texts
    PROVE  (\E j \in 1..(Len(t) + 1) : StandsFrom(t, j, w, 1)) <=> HasTerm(t, w)
<1>1. Len(t) \in Nat /\ Len(w) \in Nat /\ DOMAIN w = 1..Len(w)
    BY DEF Texts
<1>2. ASSUME NEW j \in 1..(Len(t) + 1), StandsFrom(t, j, w, 1) PROVE HasTerm(t, w)
  <2> DEFINE k == j - 1
  <2>1. k \in 0..(Len(t) - Len(w))
    BY <1>1, <1>2 DEF StandsFrom
  <2>2. \A i \in 1..Len(w) : k + i = j + i - 1
    BY <1>1
  <2> HIDE DEF k
  <2>3. \A i \in 1..Len(w) : t[k + i] = w[i]
    BY <1>2, <2>2 DEF StandsFrom
  <2> QED
    BY <1>1, <2>1, <2>3 DEF HasTerm
<1>3. ASSUME HasTerm(t, w) PROVE \E j \in 1..(Len(t) + 1) : StandsFrom(t, j, w, 1)
  <2>1. PICK k \in 0..(Len(t) - Len(w)) : \A i \in 1..Len(w) : t[k + i] = w[i]
    BY <1>1, <1>3 DEF HasTerm
  <2> DEFINE j == k + 1
  <2>2. j \in 1..(Len(t) + 1) /\ j + (Len(w) + 1 - 1) <= Len(t) + 1
    BY <1>1
  <2>3. \A i \in 1..Len(w) : j + i - 1 = k + i
    BY <1>1
  <2> HIDE DEF j
  <2>4. \A i \in 1..Len(w) : t[j + i - 1] = w[i]
    BY <2>1, <2>3
  <2> QED
    BY <2>2, <2>4 DEF StandsFrom
<1> QED
    BY <1>2, <1>3

\* A search finds exactly the texts that contain its term, of any length and
\* with any wildcards and escape characters in them (escapeLike).
THEOREM SearchFindsTerm ==
    ASSUME NEW t \in Texts, NEW w \in Texts
    PROVE  Like(t, Pattern(w)) <=> HasTerm(t, w)
<1> DEFINE p == Pattern(w)
<1>1. p \in Texts /\ Len(p) \in Nat /\ Len(p) >= 2 /\ p[1] = "%" /\ p[Len(p)] = "%"
    BY PatternIs
<1>2. PICK a : a[1] = 2 /\ a[Len(w) + 1] = Len(p) /\ Spells(p, a, w)
    BY PatternIs
<1> HIDE DEF p
<1>3. PICK m : IsMatch(m, t, p) /\ (Like(t, p) <=> 1 \in m[1])
    BY <1>1, LikeIs
<1>4. Len(t) \in Nat /\ Len(w) \in Nat
    BY DEF Texts
<1>5. m[2] = {j \in 1..(Len(t) + 1) : StandsFrom(t, j, w, 1)}
  <2>1. 1 \in 1..(Len(w) + 1)
    BY <1>4
  <2>2. m[a[1]] = {j \in 1..(Len(t) + 1) : StandsFrom(t, j, w, 1)}
    BY <1>1, <1>2, <1>3, <2>1, TermMatches
  <2> QED
    BY <1>2, <2>2
<1>6. m[1] = {j \in 1..(Len(t) + 1) : \E k \in m[2] : j <= k}
  <2>1. 1 \in 1..(Len(p) + 2) /\ 1 # Len(p) + 1 /\ ~(1 > Len(p)) /\ 1 + 1 = 2
    BY <1>1
  <2> QED
    BY <1>1, <1>3, <2>1 DEF From, IsMatch
<1>7. 1 \in m[1] <=> \E j \in 1..(Len(t) + 1) : StandsFrom(t, j, w, 1)
    BY <1>4, <1>5, <1>6
<1> QED
    BY <1>3, <1>7, StandsIsHas DEF p

\* So the filters of SearchProfiles are right for texts of any length.
THEOREM SearchMatchesSubstrings == ScanSpec => []SearchIsSubstring
<1>1. \A n \in Nat : Words(n) \subseteq Texts
    BY DEF Words, Texts
<1>2. LikeIsSubstring
    BY <1>1, LikePatternAssumption, SearchFindsTerm DEF LikeIsSubstring
<1>3. SearchIsSubstring
    BY <1>2 DEF SearchIsSubstring
<1> QED
    BY <1>3, PTL
=============================================================================
