------------------------- MODULE RateLimiterProofs --------------------------
(***************************************************************************)
(* The rate limiter's properties for every number of clients, any room,    *)
(* rates and times: proofs checked by TLAPS.                               *)
(***************************************************************************)
EXTENDS RateLimiter, FiniteSetTheorems, TLAPS

Lists == [head : Ips \cup {None}, tail : Ips \cup {None},
          prev : [Ips -> Ips \cup {None}], next : [Ips -> Ips \cup {None}]]

\* l links the clients in known, and of these the pairs in newer are in the
\* order of the list.
Ordered(l, known, newer) ==
    \E place : Linked(l, known, place) /\ newer = NewerBy(known, place)

-----------------------------------------------------------------------------
(* Induction, by the least counterexample.                                 *)

LEMMA LeastNat ==
    ASSUME NEW T \in SUBSET Nat, T # {}
    PROVE  \E n \in T : \A m \in T : n <= m
<1> DEFINE R == OpToRel(<, Nat)
<1>1. IsWellFoundedOn(R, Nat)
    BY NatLessThanWellFounded
<1>2. \E n \in T : \A m \in T : <<m, n>> \notin R
    BY <1>1, WFMin
<1>3. \A n, m \in Nat : m < n => <<m, n>> \in R
    BY DEF OpToRel
<1> HIDE DEF R
<1>4. PICK n \in T : \A m \in T : <<m, n>> \notin R
    BY <1>2
<1>5. \A m \in T : ~(m < n)
    BY <1>3, <1>4
<1>6. \A m \in T : n <= m
    BY <1>5
<1> QED
    BY <1>6

-----------------------------------------------------------------------------
(* The list's functions.                                                   *)

LEMMA RemoveType ==
    ASSUME NEW l \in Lists, NEW n \in Ips
    PROVE  RemoveNode(l, n) \in Lists
  BY DEF Lists, RemoveNode

LEMMA PushType ==
    ASSUME NEW l \in Lists, NEW n \in Ips
    PROVE  PushFront(l, n) \in Lists
  BY DEF Lists, PushFront

OnePlaceEach(known, place) ==
    /\ place \in [known -> 1..Cardinality(known)]
    /\ \A x, y \in known : place[x] = place[y] => x = y

LEMMA LinkedPlaces ==
    ASSUME NEW l, NEW known, NEW place, Linked(l, known, place)
    PROVE  OnePlaceEach(known, place)
  BY DEF Linked, OnePlaceEach

\* Who stood nearer to the head than the removed node moves up by one.
Without(known, place, n) ==
    [x \in known \ {n} |-> IF place[x] > place[n] THEN place[x] - 1 ELSE place[x]]

LEMMA WithoutPlaces ==
    ASSUME NEW known, IsFiniteSet(known), NEW n \in known,
           NEW place, OnePlaceEach(known, place)
    PROVE  /\ OnePlaceEach(known \ {n}, Without(known, place, n))
           /\ \A x, y \in known \ {n} :
                Without(known, place, n)[x] > Without(known, place, n)[y] <=> place[x] > place[y]
<1> DEFINE rest == known \ {n}
           new  == Without(known, place, n)
           c    == Cardinality(known)
<1>1. c \in Nat /\ IsFiniteSet(rest) /\ Cardinality(rest) = c - 1
    BY FS_CardinalityType, FS_RemoveElement
<1>2. \A x \in known : place[x] \in 1..c /\ place[x] \in Int
    BY <1>1 DEF OnePlaceEach
<1>3. \A x \in rest : place[x] # place[n] /\ place[x] \in 1..c
    BY <1>2 DEF OnePlaceEach
<1>4. \A x \in rest : new[x] = IF place[x] > place[n] THEN place[x] - 1 ELSE place[x]
    BY DEF Without
<1>5. \A x \in rest : new[x] \in 1..(c - 1)
    BY <1>1, <1>2, <1>3, <1>4
<1>6. new \in [rest -> 1..(c - 1)]
    BY <1>5 DEF Without
<1>7. \A x, y \in rest : new[x] > new[y] <=> place[x] > place[y]
    BY <1>1, <1>2, <1>3, <1>4
<1>8. \A x, y \in rest : new[x] = new[y] => x = y
  <2> SUFFICES ASSUME NEW x \in rest, NEW y \in rest, new[x] = new[y] PROVE x = y
    OBVIOUS
  <2>1. ~(place[x] > place[y]) /\ ~(place[y] > place[x])
    BY <1>1, <1>5, <1>7
  <2>2. place[x] = place[y]
    BY <1>2, <2>1
  <2> QED
    BY <2>2 DEF OnePlaceEach
<1>9. OnePlaceEach(rest, new)
    BY <1>1, <1>6, <1>8 DEF OnePlaceEach
<1> QED
    BY <1>7, <1>9

\* removeNode leaves a list of the others in their old order.
LEMMA RemoveLinked ==
    ASSUME NEW l \in Lists, NEW known \in SUBSET Ips, IsFiniteSet(known), NEW n \in known,
           NEW place, Linked(l, known, place)
    PROVE  Linked(RemoveNode(l, n), known \ {n}, Without(known, place, n))
<1> DEFINE rest == known \ {n}
           new  == Without(known, place, n)
           c    == Cardinality(known)
           p    == l.prev[n]
           s    == l.next[n]
           r    == RemoveNode(l, n)
<1>1. /\ place \in [known -> 1..c]
      /\ \A x, y \in known : place[x] = place[y] => x = y
    BY DEF Linked
<1>2. /\ c \in Nat /\ IsFiniteSet(rest) /\ Cardinality(rest) = c - 1
      /\ new \in [rest -> 1..(c - 1)]
      /\ \A x, y \in rest : new[x] = new[y] => x = y
  <2>1. c \in Nat /\ IsFiniteSet(rest) /\ Cardinality(rest) = c - 1
    BY FS_CardinalityType, FS_RemoveElement
  <2>2. OnePlaceEach(rest, new)
    BY LinkedPlaces, WithoutPlaces
  <2> HIDE DEF new
  <2> QED
    BY <2>1, <2>2 DEF OnePlaceEach
<1>3. \A x \in known : place[x] \in 1..c /\ place[x] \in Int
    BY <1>1, <1>2
<1>4. \A x \in rest : /\ place[x] # place[n]
                      /\ new[x] = IF place[x] > place[n] THEN place[x] - 1 ELSE place[x]
  <2>1. \A x \in rest : x \in known /\ x # n
    OBVIOUS
  <2>2. \A x \in rest : place[x] # place[n]
    BY <1>1, <2>1
  <2>3. \A x \in rest : new[x] = IF place[x] > place[n] THEN place[x] - 1 ELSE place[x]
    BY DEF Without
  <2> QED
    BY <2>2, <2>3
<1>5. None \notin known
    BY RateLimiterAssumption
<1>6. /\ Stands(l.head, known, place, c) /\ Stands(l.tail, known, place, 1)
      /\ Stands(s, known, place, place[n] - 1) /\ Stands(p, known, place, place[n] + 1)
    BY DEF Linked
<1>7. /\ r.head = IF p = None /\ l.head = n THEN s ELSE l.head
      /\ r.tail = IF s = None /\ l.tail = n THEN p ELSE l.tail
      /\ \A x \in rest : /\ r.next[x] = IF x = p THEN s ELSE l.next[x]
                         /\ r.prev[x] = IF x = s THEN p ELSE l.prev[x]
    BY DEF RemoveNode
<1>8. \A x \in rest : /\ Stands(l.next[x], known, place, place[x] - 1)
                      /\ Stands(l.prev[x], known, place, place[x] + 1)
    BY DEF Linked
<1> HIDE DEF r, new
<1>9. Stands(r.head, rest, new, c - 1)
    BY <1>1, <1>2, <1>3, <1>4, <1>5, <1>6, <1>7 DEF Stands
<1>10. Stands(r.tail, rest, new, 1)
    BY <1>1, <1>2, <1>3, <1>4, <1>5, <1>6, <1>7 DEF Stands
<1>11. ASSUME NEW x \in rest PROVE Stands(r.next[x], rest, new, new[x] - 1)
  <2>1. CASE x = p
    BY <1>1, <1>2, <1>3, <1>4, <1>5, <1>6, <1>7, <2>1 DEF Stands
  <2>2. CASE x # p
    BY <1>1, <1>2, <1>3, <1>4, <1>5, <1>6, <1>7, <1>8, <2>2 DEF Stands
  <2> QED
    BY <2>1, <2>2
<1>12. ASSUME NEW x \in rest PROVE Stands(r.prev[x], rest, new, new[x] + 1)
  <2>1. CASE x = s
    BY <1>1, <1>2, <1>3, <1>4, <1>5, <1>6, <1>7, <2>1 DEF Stands
  <2>2. CASE x # s
    BY <1>1, <1>2, <1>3, <1>4, <1>5, <1>6, <1>7, <1>8, <2>2 DEF Stands
  <2> QED
    BY <2>1, <2>2
<1> QED
    BY <1>2, <1>9, <1>10, <1>11, <1>12 DEF Linked, r, new

\* A client that was not in the list comes before all others.
WithFront(known, place, n) ==
    [x \in known \cup {n} |-> IF x = n THEN Cardinality(known) + 1 ELSE place[x]]

LEMMA FrontPlaces ==
    ASSUME NEW known, IsFiniteSet(known), NEW n, n \notin known,
           NEW place, OnePlaceEach(known, place)
    PROVE  /\ OnePlaceEach(known \cup {n}, WithFront(known, place, n))
           /\ \A x \in known : /\ WithFront(known, place, n)[x] = place[x]
                               /\ WithFront(known, place, n)[n] > place[x]
<1> DEFINE more == known \cup {n}
           new  == WithFront(known, place, n)
           c    == Cardinality(known)
<1>1. c \in Nat /\ IsFiniteSet(more) /\ Cardinality(more) = c + 1
    BY FS_CardinalityType, FS_AddElement
<1>2. \A x \in known : place[x] \in 1..c /\ x # n
    BY <1>1 DEF OnePlaceEach
<1>3. new[n] = c + 1 /\ \A x \in known : new[x] = place[x]
    BY <1>2 DEF WithFront
<1>4. \A x \in more : new[x] \in 1..(c + 1)
    BY <1>1, <1>2, <1>3
<1>5. new \in [more -> 1..(c + 1)]
    BY <1>4 DEF WithFront
<1>6. \A x \in known : new[n] > place[x]
    BY <1>1, <1>2, <1>3
<1>7. \A x, y \in more : new[x] = new[y] => x = y
    BY <1>1, <1>2, <1>3 DEF OnePlaceEach
<1>8. OnePlaceEach(more, new)
    BY <1>1, <1>5, <1>7 DEF OnePlaceEach
<1> QED
    BY <1>3, <1>6, <1>8

\* pushFront puts a new client before the others.
LEMMA PushLinked ==
    ASSUME NEW l \in Lists, NEW known \in SUBSET Ips, IsFiniteSet(known),
           NEW n \in Ips, n \notin known, NEW place, Linked(l, known, place)
    PROVE  Linked(PushFront(l, n), known \cup {n}, WithFront(known, place, n))
<1> DEFINE more == known \cup {n}
           new  == WithFront(known, place, n)
           c    == Cardinality(known)
           h    == l.head
           r    == PushFront(l, n)
<1>1. /\ place \in [known -> 1..c]
      /\ \A x, y \in known : place[x] = place[y] => x = y
    BY DEF Linked
<1>2. /\ c \in Nat /\ IsFiniteSet(more) /\ Cardinality(more) = c + 1
      /\ new \in [more -> 1..(c + 1)]
      /\ \A x, y \in more : new[x] = new[y] => x = y
  <2>1. c \in Nat /\ IsFiniteSet(more) /\ Cardinality(more) = c + 1
    BY FS_CardinalityType, FS_AddElement
  <2>2. OnePlaceEach(more, new)
    BY LinkedPlaces, FrontPlaces
  <2> HIDE DEF new
  <2> QED
    BY <2>1, <2>2 DEF OnePlaceEach
<1>3. \A x \in known : place[x] \in 1..c /\ place[x] \in Int
    BY <1>1, <1>2
<1>4. new[n] = c + 1 /\ \A x \in known : new[x] = place[x]
    BY <1>1 DEF WithFront
<1>5. None \notin known /\ n # None
    BY RateLimiterAssumption
<1>6. Stands(h, known, place, c) /\ Stands(l.tail, known, place, 1)
    BY DEF Linked
<1>7. /\ r.head = n
      /\ r.tail = IF l.tail = None THEN n ELSE l.tail
      /\ r.next[n] = h /\ r.prev[n] = None
      /\ \A x \in known : r.next[x] = l.next[x] /\ r.prev[x] = IF x = h THEN n ELSE l.prev[x]
    BY DEF PushFront
<1>8. \A x \in known : /\ Stands(l.next[x], known, place, place[x] - 1)
                       /\ Stands(l.prev[x], known, place, place[x] + 1)
    BY DEF Linked
<1> HIDE DEF r, new
<1>9. Stands(r.head, more, new, c + 1)
    BY <1>2, <1>4, <1>5, <1>7 DEF Stands
<1>10. Stands(r.tail, more, new, 1)
    BY <1>2, <1>3, <1>4, <1>5, <1>6, <1>7 DEF Stands
<1>11. ASSUME NEW x \in more PROVE Stands(r.next[x], more, new, new[x] - 1)
  <2>1. CASE x = n
    BY <1>2, <1>3, <1>4, <1>5, <1>6, <1>7, <2>1 DEF Stands
  <2>2. CASE x \in known
    BY <1>2, <1>3, <1>4, <1>5, <1>7, <1>8, <2>2 DEF Stands
  <2> QED
    BY <2>1, <2>2
<1>12. ASSUME NEW x \in more PROVE Stands(r.prev[x], more, new, new[x] + 1)
  <2>1. CASE x = n
    BY <1>2, <1>4, <1>5, <1>7, <2>1 DEF Stands
  <2>2. CASE x \in known /\ x = h
    BY <1>2, <1>3, <1>4, <1>5, <1>6, <1>7, <2>2 DEF Stands
  <2>3. CASE x \in known /\ x # h
    <3>1. place[x] # c
      BY <1>1, <1>2, <1>3, <1>5, <1>6, <2>3 DEF Stands
    <3>2. Stands(l.prev[x], known, place, place[x] + 1) /\ r.prev[x] = l.prev[x]
      BY <1>7, <1>8, <2>3
    <3>3. place[x] + 1 \in 1..c
      BY <1>2, <1>3, <2>3, <3>1
    <3> QED
      BY <1>2, <1>4, <1>5, <2>3, <3>2, <3>3 DEF Stands
  <2> QED
    BY <2>1, <2>2, <2>3
<1> QED
    BY <1>2, <1>9, <1>10, <1>11, <1>12 DEF Linked, r, new

-----------------------------------------------------------------------------
(* The order of the list.                                                  *)

LEMMA NewerPairs ==
    ASSUME NEW known, NEW place
    PROVE  /\ NewerBy(known, place) \subseteq known \X known
           /\ \A x, y : <<x, y>> \in NewerBy(known, place)
                          <=> x \in known /\ y \in known /\ place[x] > place[y]
  BY DEF NewerBy

LEMMA SamePairs ==
    ASSUME NEW S, NEW A \in SUBSET (S \X S), NEW B \in SUBSET (S \X S),
           \A x, y \in S : <<x, y>> \in A <=> <<x, y>> \in B
    PROVE  A = B
  OBVIOUS

LEMMA OrderType ==
    ASSUME NEW l, NEW known, NEW newer, Ordered(l, known, newer)
    PROVE  newer \in SUBSET (known \X known)
  BY NewerPairs DEF Ordered

\* Taking one out of the list takes its pairs out of the order.
LEMMA RemoveOrdered ==
    ASSUME NEW l \in Lists, NEW known \in SUBSET Ips, IsFiniteSet(known), NEW n \in known,
           NEW newer, Ordered(l, known, newer)
    PROVE  LET rest == known \ {n}
           IN  Ordered(RemoveNode(l, n), rest, newer \cap (rest \X rest))
<1> DEFINE rest == known \ {n}
<1>1. PICK place : Linked(l, known, place) /\ newer = NewerBy(known, place)
    BY DEF Ordered
<1> DEFINE new == Without(known, place, n)
<1>2. Linked(RemoveNode(l, n), rest, new)
    BY <1>1, RemoveLinked
<1>3. \A x, y \in rest : new[x] > new[y] <=> place[x] > place[y]
    BY <1>1, LinkedPlaces, WithoutPlaces
<1> HIDE DEF new
<1>4. newer \cap (rest \X rest) = NewerBy(rest, new)
  <2>1. \A x, y \in rest : <<x, y>> \in newer \cap (rest \X rest) <=> <<x, y>> \in NewerBy(rest, new)
    BY <1>1, <1>3, NewerPairs
  <2>2. /\ newer \cap (rest \X rest) \in SUBSET (rest \X rest)
        /\ NewerBy(rest, new) \in SUBSET (rest \X rest)
    BY NewerPairs
  <2> DEFINE A == newer \cap (rest \X rest)
             B == NewerBy(rest, new)
  <2>3. A \in SUBSET (rest \X rest) /\ B \in SUBSET (rest \X rest)
    BY <2>2
  <2>4. \A x, y \in rest : <<x, y>> \in A <=> <<x, y>> \in B
    BY <2>1
  <2> HIDE DEF A, B
  <2>5. A = B
    BY <2>3, <2>4, SamePairs
  <2> QED
    BY <2>5 DEF A, B
<1> QED
    BY <1>2, <1>4 DEF Ordered

\* Putting one at the head makes it newer than all others.
LEMMA PushOrdered ==
    ASSUME NEW l \in Lists, NEW known \in SUBSET Ips, IsFiniteSet(known),
           NEW n \in Ips, n \notin known, NEW newer, Ordered(l, known, newer)
    PROVE  Ordered(PushFront(l, n), known \cup {n}, newer \cup ({n} \X known))
<1> DEFINE more == known \cup {n}
<1>1. PICK place : Linked(l, known, place) /\ newer = NewerBy(known, place)
    BY DEF Ordered
<1> DEFINE new == WithFront(known, place, n)
<1>2. Linked(PushFront(l, n), more, new)
    BY <1>1, PushLinked
<1>3. \A x \in known : new[x] = place[x] /\ new[n] > new[x]
  <2>1. \A x \in known : new[x] = place[x] /\ new[n] > place[x]
    BY <1>1, LinkedPlaces, FrontPlaces
  <2> HIDE DEF new
  <2> QED
    BY <2>1
<1>4. \A x \in more : new[x] \in Nat
    BY <1>2, FS_AddElement, FS_CardinalityType DEF Linked
<1> HIDE DEF new
<1>5. newer \cup ({n} \X known) = NewerBy(more, new)
  <2>1. newer \subseteq known \X known
    BY <1>1, NewerPairs
  <2>2. \A x, y \in known : <<x, y>> \in newer <=> new[x] > new[y]
    BY <1>1, <1>3, NewerPairs
  <2>3. \A x, y \in more : <<x, y>> \in newer \cup ({n} \X known) <=> new[x] > new[y]
    <3> TAKE x \in more, y \in more
    <3>1. CASE x \in known /\ y \in known
      BY <2>2, <3>1
    <3>2. CASE x = n /\ y \in known
      BY <1>3, <3>2
    <3>3. CASE y = n
      <4>1. <<x, y>> \notin newer \cup ({n} \X known)
        BY <2>1, <3>3
      <4>2. ~(new[x] > new[n])
        BY <1>3, <1>4
      <4> QED
        BY <3>3, <4>1, <4>2
    <3> QED
      BY <3>1, <3>2, <3>3
  <2>4. /\ newer \cup ({n} \X known) \in SUBSET (more \X more)
        /\ NewerBy(more, new) \in SUBSET (more \X more)
    BY <2>1, NewerPairs
  <2>5. \A x, y \in more : <<x, y>> \in newer \cup ({n} \X known) <=> <<x, y>> \in NewerBy(more, new)
    BY <2>3, NewerPairs
  <2> DEFINE A == newer \cup ({n} \X known)
             B == NewerBy(more, new)
  <2>6. A \in SUBSET (more \X more) /\ B \in SUBSET (more \X more)
    BY <2>4
  <2>7. \A x, y \in more : <<x, y>> \in A <=> <<x, y>> \in B
    BY <2>5
  <2> HIDE DEF A, B, more
  <2>8. A = B
    BY <2>6, <2>7, SamePairs
  <2> QED
    BY <2>8 DEF A, B, more
<1> QED
    BY <1>2, <1>5 DEF Ordered

\* Who is first in the list is newer than all others.
LEMMA HeadIsNewest ==
    ASSUME NEW l \in Lists, NEW known \in SUBSET Ips, IsFiniteSet(known), NEW n \in known,
           l.head = n, NEW newer, Ordered(l, known, newer)
    PROVE  LET rest == known \ {n}
           IN  newer = (newer \cap (rest \X rest)) \cup ({n} \X rest)
<1> DEFINE rest == known \ {n}
           A == (newer \cap (rest \X rest)) \cup ({n} \X rest)
<1>1. PICK place : Linked(l, known, place) /\ newer = NewerBy(known, place)
    BY DEF Ordered
<1>2. n # None
    BY RateLimiterAssumption
<1>3. place[n] = Cardinality(known) /\ Cardinality(known) \in Nat
    BY <1>1, <1>2, FS_CardinalityType DEF Linked, Stands
<1>4. \A x \in known : place[x] \in 1..Cardinality(known) /\ (x # n => place[x] # place[n])
    BY <1>1 DEF Linked
<1>5. \A x \in rest : place[n] > place[x] /\ ~(place[x] > place[n])
    BY <1>3, <1>4
<1>6. ~(place[n] > place[n])
    BY <1>3
<1>7. newer \in SUBSET (known \X known) /\ A \in SUBSET (known \X known)
    BY <1>1, NewerPairs
<1>8. \A x, y \in known : <<x, y>> \in newer <=> <<x, y>> \in A
  <2> TAKE x \in known, y \in known
  <2>1. CASE x \in rest /\ y \in rest
    BY <2>1
  <2>2. CASE x = n /\ y \in rest
    <3>1. <<n, y>> \in newer
      BY <1>1, <1>5, <2>2, NewerPairs
    <3> QED
      BY <2>2, <3>1
  <2>3. CASE y = n
    <3>1. <<x, n>> \notin newer
      BY <1>1, <1>5, <1>6, NewerPairs
    <3>2. <<x, n>> \notin A
      OBVIOUS
    <3> QED
      BY <2>3, <3>1, <3>2
  <2> QED
    BY <2>1, <2>2, <2>3
<1> HIDE DEF A
<1>9. newer = A
    BY <1>7, <1>8, SamePairs
<1> QED
    BY <1>9 DEF A

\* Who is last in the list is the only one newer than nobody.
LEMMA TailIsOldest ==
    ASSUME NEW l \in Lists, NEW known \in SUBSET Ips, IsFiniteSet(known), known # {},
           NEW newer, Ordered(l, known, newer)
    PROVE  /\ l.tail \in known
           /\ {x \in known : \A y \in known : <<x, y>> \notin newer} = {l.tail}
<1>1. PICK place : Linked(l, known, place) /\ newer = NewerBy(known, place)
    BY DEF Ordered
<1>2. Cardinality(known) \in Nat /\ Cardinality(known) # 0
    BY FS_CardinalityType, FS_EmptySet
<1>3. \A x \in known : place[x] \in 1..Cardinality(known)
    BY <1>1 DEF Linked
<1>4. l.tail \in known /\ place[l.tail] = 1
    BY <1>1, <1>2 DEF Linked, Stands
<1>5. \A y \in known : <<l.tail, y>> \notin newer
    BY <1>1, <1>2, <1>3, <1>4, NewerPairs
<1>6. ASSUME NEW x \in known, x # l.tail PROVE <<x, l.tail>> \in newer
  <2>1. place[x] # 1
    BY <1>1, <1>4, <1>6 DEF Linked
  <2>2. place[x] > place[l.tail]
    BY <1>2, <1>3, <1>4, <2>1
  <2> QED
    BY <1>1, <1>4, <2>2, NewerPairs
<1> QED
    BY <1>4, <1>5, <1>6

\* A list has one order.
LEMMA PlacesAgree ==
    ASSUME NEW l \in Lists, NEW known \in SUBSET Ips, IsFiniteSet(known),
           NEW p, Linked(l, known, p), NEW q, Linked(l, known, q)
    PROVE  p = q
<1> DEFINE c == Cardinality(known)
           Differ == {p[x] : x \in {y \in known : p[y] # q[y]}}
<1>1. c \in Nat /\ None \notin known
    BY FS_CardinalityType, RateLimiterAssumption
<1>2. /\ p \in [known -> 1..c] /\ q \in [known -> 1..c]
      /\ \A x \in known : p[x] \in 1..c /\ q[x] \in 1..c
    BY DEF Linked
<1>3. SUFFICES ASSUME Differ # {} PROVE FALSE
  <2>1. Differ = {} => \A x \in known : p[x] = q[x]
    OBVIOUS
  <2> QED
    BY <1>2, <1>3, <2>1
<1>4. Differ \in SUBSET Nat
    BY <1>1, <1>2
<1>5. PICK k \in Differ : \A m \in Differ : k <= m
    BY <1>3, <1>4, LeastNat
<1>6. PICK x \in known : p[x] = k /\ p[x] # q[x]
    BY <1>5
<1>7. /\ Stands(l.next[x], known, p, p[x] - 1)
      /\ Stands(l.next[x], known, q, q[x] - 1)
    BY DEF Linked
<1>8. CASE l.next[x] = None
  <2>1. p[x] = 1 /\ q[x] = 1
    BY <1>1, <1>2, <1>7, <1>8 DEF Stands
  <2> QED
    BY <1>6, <2>1
<1>9. CASE l.next[x] # None
  <2> DEFINE y == l.next[x]
  <2>1. y \in known /\ p[y] = p[x] - 1 /\ q[y] = q[x] - 1
    BY <1>7, <1>9 DEF Stands
  <2>2. p[y] = q[y]
    <3>1. p[x] \in Int /\ p[y] \in Int
      BY <1>2, <2>1
    <3>2. p[y] \in Differ => p[x] <= p[y]
      <4> HIDE DEF Differ, y
      <4> QED
        BY <1>5, <1>6
    <3>3. p[y] \notin Differ
      <4> HIDE DEF Differ, y
      <4> QED
        BY <2>1, <3>1, <3>2
    <3> QED
      BY <2>1, <3>3
  <2> QED
    BY <1>1, <1>2, <1>6, <2>1, <2>2
<1> QED
    BY <1>8, <1>9

-----------------------------------------------------------------------------
(* The sweep.                                                              *)

First(s) == CHOOSE x \in s : TRUE

\* The sweep's fold: f[s] is the list without the nodes in s.
SweepOn(f, l, D) ==
    f = [s \in D |-> IF s = {} THEN l ELSE RemoveNode(f[s \ {First(s)}], First(s))]

LEMMA FirstIsIn ==
    ASSUME NEW s, s # {}
    PROVE  First(s) \in s
  BY DEF First

LEMMA SweepGrows ==
    ASSUME NEW l, NEW D, NEW E, D \subseteq E, \A s \in E : s # {} => s \ {First(s)} \in D,
           NEW f, SweepOn(f, l, D)
    PROVE  \E g : SweepOn(g, l, E)
<1> DEFINE g == [s \in E |-> IF s = {} THEN l ELSE RemoveNode(f[s \ {First(s)}], First(s))]
<1>1. \A s \in D : f[s] = IF s = {} THEN l ELSE RemoveNode(f[s \ {First(s)}], First(s))
    BY DEF SweepOn
<1>2. \A s \in E : g[s] = IF s = {} THEN l ELSE RemoveNode(f[s \ {First(s)}], First(s))
    OBVIOUS
<1>3. \A s \in D : g[s] = f[s]
  <2> HIDE DEF g
  <2> QED
    BY <1>1, <1>2
<1>4. \A s \in E : s # {} => g[s \ {First(s)}] = f[s \ {First(s)}]
  <2> HIDE DEF g
  <2> QED
    BY <1>3
<1>5. g = [s \in E |-> IF s = {} THEN l ELSE RemoveNode(g[s \ {First(s)}], First(s))]
  <2> DEFINE h == [s \in E |-> IF s = {} THEN l ELSE RemoveNode(g[s \ {First(s)}], First(s))]
  <2> HIDE DEF g
  <2>1. \A s \in E : g[s] = h[s]
    BY <1>2, <1>4
  <2> QED
    BY <2>1 DEF g
<1> QED
    BY <1>5 DEF SweepOn

\* The fold's recursive function exists.
LEMMA SweepExists ==
    ASSUME NEW l, NEW S, IsFiniteSet(S)
    PROVE  \E f : SweepOn(f, l, SUBSET S)
<1> DEFINE Small(n) == {s \in SUBSET S : Cardinality(s) <= n}
           Bad == {n \in Nat : ~ \E f : SweepOn(f, l, Small(n))}
<1>1. \A s \in SUBSET S : IsFiniteSet(s) /\ Cardinality(s) \in Nat /\ Cardinality(s) <= Cardinality(S)
    BY FS_Subset, FS_CardinalityType
<1>2. Bad = {}
  <2> SUFFICES ASSUME Bad # {} PROVE FALSE
    OBVIOUS
  <2>1. PICK k \in Bad : \A m \in Bad : k <= m
    BY LeastNat
  <2>2. k \in Nat /\ ~ \E f : SweepOn(f, l, Small(k))
    BY <2>1
  <2>3. CASE k = 0
    <3>1. \A s \in Small(0) : s = {}
      BY <1>1, FS_EmptySet
    <3> DEFINE g == [s \in Small(0) |-> l]
    <3>2. SweepOn(g, l, Small(0))
      BY <3>1 DEF SweepOn
    <3> QED
      BY <2>2, <2>3, <3>2
  <2>4. CASE k # 0
    <3> DEFINE j == k - 1
    <3>1. j \in Nat /\ j < k
      BY <2>2, <2>4
    <3>2. j \notin Bad
      <4> HIDE DEF Bad, j
      <4>1. j \in Bad => k <= j
        BY <2>1
      <4> QED
        BY <2>2, <3>1, <4>1
    <3>3. \E f : SweepOn(f, l, Small(j))
      <4> HIDE DEF j, Small
      <4> QED
        BY <3>1, <3>2
    <3>4. Small(j) \subseteq Small(k)
      BY <1>1, <2>2, <3>1
    <3>5. \A s \in Small(k) : s # {} => s \ {First(s)} \in Small(j)
      <4> TAKE s \in Small(k)
      <4> HAVE s # {}
      <4>1. First(s) \in s /\ IsFiniteSet(s)
        BY <1>1, FirstIsIn
      <4>2. Cardinality(s \ {First(s)}) = Cardinality(s) - 1
        BY <4>1, FS_RemoveElement
      <4> QED
        BY <1>1, <2>2, <4>2
    <3> HIDE DEF Small, j
    <3> QED
      BY <2>2, <3>3, <3>4, <3>5, SweepGrows
  <2> QED
    BY <2>3, <2>4
<1>3. Small(Cardinality(S)) = SUBSET S /\ Cardinality(S) \in Nat
    BY <1>1, FS_CardinalityType
<1> QED
    BY <1>2, <1>3

\* So the sweep is its value.
LEMMA SweepIs ==
    ASSUME NEW l, NEW S, IsFiniteSet(S)
    PROVE  \E f : /\ SweepOn(f, l, SUBSET S)
                  /\ FoldSet(LAMBDA ip, k : RemoveNode(k, ip), l, S) = f[S]
<1> DEFINE f == CHOOSE f : SweepOn(f, l, SUBSET S)
<1>1. SweepOn(f, l, SUBSET S)
    BY SweepExists
<1>2. FoldSet(LAMBDA ip, k : RemoveNode(k, ip), l, S) = f[S]
    BY DEF FoldSet, MapThenFoldSet, SweepOn, First
<1> QED
    BY <1>1, <1>2

\* A sweep leaves a list of the others in their old order, whatever the order
\* in which it visits the nodes.
LEMMA SweepOrdered ==
    ASSUME NEW l \in Lists, NEW known \in SUBSET Ips, IsFiniteSet(known),
           NEW newer, Ordered(l, known, newer), NEW S \in SUBSET known
    PROVE  LET r    == FoldSet(LAMBDA ip, k : RemoveNode(k, ip), l, S)
               rest == known \ S
           IN  r \in Lists /\ Ordered(r, rest, newer \cap (rest \X rest))
<1>1. \A s \in SUBSET S : IsFiniteSet(s) /\ Cardinality(s) \in Nat
    BY FS_Subset, FS_CardinalityType
<1>2. PICK f : /\ SweepOn(f, l, SUBSET S)
               /\ FoldSet(LAMBDA ip, k : RemoveNode(k, ip), l, S) = f[S]
    BY <1>1, SweepIs
<1> DEFINE Good(s) == /\ f[s] \in Lists
                      /\ Ordered(f[s], known \ s, newer \cap ((known \ s) \X (known \ s)))
           Bad == {n \in Nat : \E s \in SUBSET S : Cardinality(s) = n /\ ~Good(s)}
<1>3. Bad = {}
  <2> SUFFICES ASSUME Bad # {} PROVE FALSE
    OBVIOUS
  <2>1. PICK k \in Bad : \A m \in Bad : k <= m
    BY LeastNat
  <2>2. PICK s \in SUBSET S : Cardinality(s) = k /\ ~Good(s)
    BY <2>1
  <2>3. CASE s = {}
    <3>1. f[s] = l
      BY <1>2, <2>3 DEF SweepOn
    <3>2. newer \cap ((known \ s) \X (known \ s)) = newer /\ known \ s = known
      BY <2>3, OrderType
    <3> QED
      BY <2>2, <3>1, <3>2
  <2>4. CASE s # {}
    <3> DEFINE x == First(s)
               t == s \ {x}
               rest == known \ t
    <3>1. x \in s /\ t \in SUBSET S /\ x \in rest
      BY <2>4, FirstIsIn
    <3>2. Cardinality(t) = k - 1
      BY <1>1, <2>2, <3>1, FS_RemoveElement
    <3>3. Good(t)
      <4> HIDE DEF Good
      <4>1. k \in Nat /\ k - 1 \in Nat
        BY <1>1, <2>2, <3>1, <3>2
      <4>2. k - 1 \notin Bad
        <5> HIDE DEF Bad
        <5>1. k - 1 \in Bad => k <= k - 1
          BY <2>1
        <5> QED
          BY <4>1, <5>1
      <4> QED
        BY <3>1, <3>2, <4>1, <4>2
    <3>4. f[s] = RemoveNode(f[t], x)
      BY <1>2, <2>4 DEF SweepOn
    <3>5. rest \in SUBSET Ips /\ IsFiniteSet(rest) /\ rest \ {x} = known \ s
      BY <3>1, FS_Subset
    <3> DEFINE new == newer \cap (rest \X rest)
    <3>6. newer \cap ((known \ s) \X (known \ s)) = new \cap ((known \ s) \X (known \ s))
      BY <3>1
    <3> HIDE DEF x, t, rest, new
    <3>7. f[t] \in Lists /\ Ordered(f[t], rest, new)
      BY <3>3 DEF rest, new
    <3>8. f[s] \in Lists
      BY <3>1, <3>4, <3>5, <3>7, RemoveType
    <3>9. Ordered(RemoveNode(f[t], x), rest \ {x}, new \cap ((rest \ {x}) \X (rest \ {x})))
      BY <3>1, <3>5, <3>7, RemoveOrdered
    <3> QED
      BY <2>2, <3>4, <3>5, <3>6, <3>8, <3>9
  <2> QED
    BY <2>3, <2>4
<1>4. Good(S)
    BY <1>1, <1>3
<1> QED
    BY <1>2, <1>4

\* moveToFront makes a client newer than all others, whose order stays.
LEMMA MoveOrdered ==
    ASSUME NEW l \in Lists, NEW known \in SUBSET Ips, IsFiniteSet(known), NEW n \in known,
           NEW newer, Ordered(l, known, newer)
    PROVE  LET rest == known \ {n}
           IN  /\ MoveToFront(l, n) \in Lists
               /\ Ordered(MoveToFront(l, n), known, (newer \cap (rest \X rest)) \cup ({n} \X rest))
<1> DEFINE rest == known \ {n}
           old  == newer \cap (rest \X rest)
<1>1. rest \in SUBSET Ips /\ IsFiniteSet(rest) /\ n \in Ips /\ n \notin rest /\ rest \cup {n} = known
    BY FS_Subset
<1>2. CASE l.head = n
  <2>1. newer = old \cup ({n} \X rest)
    BY <1>2, HeadIsNewest
  <2> HIDE DEF old, rest
  <2>2. MoveToFront(l, n) = l
    BY <1>2 DEF MoveToFront
  <2>3. Ordered(l, known, old \cup ({n} \X rest))
    BY <2>1
  <2> QED
    BY <2>2, <2>3 DEF old, rest
<1>3. CASE l.head # n
  <2>1. Ordered(RemoveNode(l, n), rest, old)
    BY RemoveOrdered
  <2>2. RemoveNode(l, n) \in Lists
    BY <1>1, RemoveType
  <2> HIDE DEF old, rest
  <2>3. Ordered(PushFront(RemoveNode(l, n), n), rest \cup {n}, old \cup ({n} \X rest))
    BY <1>1, <2>1, <2>2, PushOrdered
  <2>4. PushFront(RemoveNode(l, n), n) \in Lists
    BY <1>1, <2>2, PushType
  <2>5. MoveToFront(l, n) = PushFront(RemoveNode(l, n), n)
    BY <1>3 DEF MoveToFront
  <2>6. Ordered(MoveToFront(l, n), known, old \cup ({n} \X rest)) /\ MoveToFront(l, n) \in Lists
    BY <1>1, <2>3, <2>4, <2>5
  <2> QED
    BY <2>6 DEF old, rest
<1> QED
    BY <1>2, <1>3

-----------------------------------------------------------------------------
(* The limiter's list and its order.                                       *)

LEMMA ListHasOrder ==
    ASSUME ListMatchesMap
    PROVE  Ordered(list, clients, Newer)
  BY DEF ListMatchesMap, Newer, Ordered

\* A list in some order is in the one order there is.
LEMMA OneOrder ==
    ASSUME NEW l \in Lists, NEW known \in SUBSET Ips, IsFiniteSet(known),
           NEW newer, Ordered(l, known, newer)
    PROVE  LET All   == [known -> 1..Cardinality(known)]
               place == CHOOSE q \in All : Linked(l, known, q)
           IN  /\ \E q \in All : Linked(l, known, q)
               /\ newer = NewerBy(known, place)
<1> DEFINE All   == [known -> 1..Cardinality(known)]
           place == CHOOSE q \in All : Linked(l, known, q)
<1>1. PICK p : Linked(l, known, p) /\ newer = NewerBy(known, p)
    BY DEF Ordered
<1>2. p \in All
    BY <1>1 DEF Linked
<1> HIDE DEF All
<1>3. Linked(l, known, place)
    BY <1>1, <1>2
<1> HIDE DEF place
<1>4. p = place
    BY <1>1, <1>3, PlacesAgree
<1> QED
    BY <1>1, <1>2, <1>4 DEF place, All

-----------------------------------------------------------------------------
(* A request and the list.                                                 *)

\* Who else is in the map after the sweep, and who of them stays.
Others(ip) == (clients \ Idle) \ {ip}
Evicted(ip) ==
    IF Cardinality(Others(ip)) < MaxClients THEN {}
    ELSE {x \in Others(ip) : \A y \in Others(ip) : <<x, y>> \notin Newer}
Stay(ip) == Others(ip) \ Evicted(ip)
NewerAfter(ip) == (Newer \cap (Stay(ip) \X Stay(ip))) \cup ({ip} \X Stay(ip))

ListInv ==
    /\ list \in Lists
    /\ clients \in SUBSET Ips
    /\ IsFiniteSet(clients)
    /\ ListMatchesMap
    /\ CapacityHolds

\* After the sweep.
LEMMA SweptOrdered ==
    ASSUME ListInv
    PROVE  LET known == clients \ Idle
           IN  /\ known \in SUBSET Ips /\ IsFiniteSet(known)
               /\ Cardinality(known) \in Nat /\ Cardinality(known) <= MaxClients
               /\ SweptList \in Lists
               /\ Ordered(SweptList, known, Newer \cap (known \X known))
<1> DEFINE known == clients \ Idle
<1>1. Idle \in SUBSET clients
    BY DEF Idle
<1>2. IsFiniteSet(known) /\ Cardinality(known) \in Nat /\ Cardinality(known) <= MaxClients
  <2>1. /\ IsFiniteSet(known) /\ Cardinality(known) \in Nat /\ Cardinality(clients) \in Nat
        /\ Cardinality(known) <= Cardinality(clients)
    BY FS_Subset, FS_CardinalityType DEF ListInv
  <2> QED
    BY <2>1, RateLimiterAssumption DEF ListInv, CapacityHolds
<1>3. Ordered(list, clients, Newer)
    BY ListHasOrder DEF ListInv
<1>4. SweptList \in Lists /\ Ordered(SweptList, known, Newer \cap (known \X known))
  <2> DEFINE r == FoldSet(LAMBDA ip, k : RemoveNode(k, ip), list, Idle)
  <2>1. r \in Lists /\ Ordered(r, known, Newer \cap (known \X known))
    BY <1>1, <1>3, SweepOrdered DEF ListInv
  <2>2. r = SweptList
    BY DEF SweptList
  <2> HIDE DEF r, known
  <2> QED
    BY <2>1, <2>2
<1> QED
    BY <1>2, <1>4 DEF ListInv

LEMMA KnownList ==
    ASSUME ListInv, NEW ip \in Ips, ip \in clients \ Idle
    PROVE  LET l == MoveToFront(SweptList, ip)
           IN  /\ Evicted(ip) = {}
               /\ Stay(ip) \cup {ip} = clients \ Idle
               /\ Cardinality(Stay(ip) \cup {ip}) <= MaxClients
               /\ l \in Lists
               /\ Ordered(l, Stay(ip) \cup {ip}, NewerAfter(ip))
<1> DEFINE known == clients \ Idle
           rest  == known \ {ip}
           newer == Newer \cap (known \X known)
           l     == MoveToFront(SweptList, ip)
<1>1. /\ known \in SUBSET Ips /\ IsFiniteSet(known)
      /\ Cardinality(known) \in Nat /\ Cardinality(known) <= MaxClients
      /\ SweptList \in Lists
      /\ Ordered(SweptList, known, newer)
    BY SweptOrdered
<1>2. Cardinality(rest) < MaxClients
  <2>1. Cardinality(rest) = Cardinality(known) - 1
    BY <1>1, FS_RemoveElement
  <2> QED
    BY <1>1, <2>1, RateLimiterAssumption
<1>3. Evicted(ip) = {} /\ Stay(ip) = rest
    BY <1>2 DEF Evicted, Stay, Others
<1>4. rest \cup {ip} = known
    OBVIOUS
<1>5. l \in Lists /\ Ordered(l, known, (newer \cap (rest \X rest)) \cup ({ip} \X rest))
  <2> HIDE DEF newer
  <2> QED
    BY <1>1, MoveOrdered
<1>6. newer \cap (rest \X rest) = Newer \cap (rest \X rest)
    OBVIOUS
<1> HIDE DEF l, rest, newer, known
<1>7. Ordered(l, known, NewerAfter(ip))
    BY <1>3, <1>5, <1>6 DEF NewerAfter
<1> QED
    BY <1>1, <1>3, <1>4, <1>5, <1>7 DEF l, known

LEMMA NewList ==
    ASSUME ListInv, NEW ip \in Ips, ip \notin clients \ Idle
    PROVE  LET known   == clients \ Idle
               victims == IF Evicts(known) THEN {SweptList.tail} \ {None} ELSE {}
               room    == IF victims = {} THEN SweptList ELSE RemoveNode(SweptList, SweptList.tail)
               l       == PushFront(room, ip)
           IN  /\ victims = Evicted(ip)
               /\ (known \ victims) \cup {ip} = Stay(ip) \cup {ip}
               /\ Cardinality(Stay(ip) \cup {ip}) <= MaxClients
               /\ l \in Lists
               /\ Ordered(l, Stay(ip) \cup {ip}, NewerAfter(ip))
<1> DEFINE known   == clients \ Idle
           tail    == SweptList.tail
           newer   == Newer \cap (known \X known)
           victims == IF Evicts(known) THEN {tail} \ {None} ELSE {}
           room    == IF victims = {} THEN SweptList ELSE RemoveNode(SweptList, tail)
           stay    == known \ victims
           after   == newer \cap (stay \X stay)
           l       == PushFront(room, ip)
<1>1. /\ known \in SUBSET Ips /\ IsFiniteSet(known)
      /\ Cardinality(known) \in Nat /\ Cardinality(known) <= MaxClients
      /\ SweptList \in Lists
      /\ Ordered(SweptList, known, newer)
    BY SweptOrdered
<1>2. MaxClients \in Nat \ {0} /\ None \notin Ips
    BY RateLimiterAssumption
<1>3. Others(ip) = known
    BY DEF Others
<1>4. /\ victims = Evicted(ip)
      /\ room \in Lists
      /\ Ordered(room, stay, after)
      /\ IsFiniteSet(stay) /\ Cardinality(stay) \in Nat /\ Cardinality(stay) < MaxClients
  <2>1. CASE Evicts(known)
    <3>1. known # {} /\ ~(Cardinality(known) < MaxClients)
      BY <1>1, <1>2, <2>1, FS_EmptySet DEF Evicts
    <3>2. /\ tail \in known
          /\ {x \in known : \A y \in known : <<x, y>> \notin newer} = {tail}
      <4> HIDE DEF newer, known
      <4> QED
        BY <1>1, <3>1, TailIsOldest
    <3>3. {x \in known : \A y \in known : <<x, y>> \notin Newer} = {tail}
      BY <3>2
    <3>4. victims = {tail} /\ tail \in Ips
      BY <1>1, <1>2, <2>1, <3>2
    <3>5. Evicted(ip) = {tail}
      <4> HIDE DEF known
      <4> QED
        BY <1>3, <3>1, <3>3 DEF Evicted
    <3>6. room = RemoveNode(SweptList, tail) /\ stay = known \ {tail}
      BY <3>4
    <3>7. room \in Lists
      BY <1>1, <3>4, <3>6, RemoveType
    <3>8. Ordered(room, stay, after)
      <4> HIDE DEF newer, known, victims, room, stay
      <4>1. Ordered(RemoveNode(SweptList, tail), known \ {tail},
                    newer \cap ((known \ {tail}) \X (known \ {tail})))
        BY <1>1, <3>2, RemoveOrdered
      <4> QED
        BY <3>6, <4>1
    <3>9. IsFiniteSet(stay) /\ Cardinality(stay) \in Nat /\ Cardinality(stay) < MaxClients
      <4> HIDE DEF known, victims, stay
      <4>1. IsFiniteSet(known \ {tail}) /\ Cardinality(known \ {tail}) = Cardinality(known) - 1
        BY <1>1, <3>2, FS_RemoveElement
      <4>2. Cardinality(known \ {tail}) \in Nat
        BY <4>1, FS_CardinalityType
      <4> QED
        BY <1>1, <1>2, <3>6, <4>1, <4>2
    <3> QED
      BY <3>4, <3>5, <3>7, <3>8, <3>9
  <2>2. CASE ~Evicts(known)
    <3>1. Cardinality(known) < MaxClients
      BY <1>1, <1>2, <2>2 DEF Evicts
    <3>2. victims = {} /\ room = SweptList /\ stay = known
      BY <2>2
    <3>3. Evicted(ip) = {}
      <4> HIDE DEF known
      <4> QED
        BY <1>3, <3>1 DEF Evicted
    <3>4. after = newer
      BY <3>2
    <3> HIDE DEF newer, known, victims, room, stay, after
    <3> QED
      BY <1>1, <3>1, <3>2, <3>3, <3>4
  <2> QED
    BY <2>1, <2>2
<1>5. ip \notin stay /\ stay \in SUBSET Ips
    BY <1>1
<1>6. stay = Stay(ip)
    BY <1>3, <1>4 DEF Stay
<1>7. after = Newer \cap (stay \X stay)
    OBVIOUS
<1>8. /\ l \in Lists
      /\ Ordered(l, stay \cup {ip}, after \cup ({ip} \X stay))
      /\ Cardinality(stay \cup {ip}) <= MaxClients
  <2> HIDE DEF room, stay, after
  <2>1. Cardinality(stay \cup {ip}) = Cardinality(stay) + 1
    BY <1>4, <1>5, FS_AddElement
  <2>2. Ordered(l, stay \cup {ip}, after \cup ({ip} \X stay))
    BY <1>4, <1>5, PushOrdered
  <2> QED
    BY <1>2, <1>4, <2>1, <2>2, PushType
<1>9. after \cup ({ip} \X stay) = NewerAfter(ip)
  <2> HIDE DEF stay, after
  <2> QED
    BY <1>6, <1>7 DEF NewerAfter
<1>10. (known \ victims) \cup {ip} = Stay(ip) \cup {ip}
    BY <1>6
<1>11. /\ l \in Lists
       /\ Ordered(l, Stay(ip) \cup {ip}, NewerAfter(ip))
       /\ Cardinality(Stay(ip) \cup {ip}) <= MaxClients
  <2> HIDE DEF stay, after, l
  <2> QED
    BY <1>6, <1>8, <1>9
<1> QED
    BY <1>4, <1>10, <1>11

\* A request puts its client before those that stay, in their old order.
LEMMA AllowOrdered ==
    ASSUME ListInv, NEW ip \in Ips, Allow(ip)
    PROVE  /\ clients' = Stay(ip) \cup {ip}
           /\ Cardinality(clients') <= MaxClients
           /\ list' \in Lists
           /\ Ordered(list', clients', NewerAfter(ip))
<1>1. CASE ip \in clients \ Idle
  <2>1. clients' = clients \ Idle /\ list' = MoveToFront(SweptList, ip)
    BY <1>1 DEF Allow, AllowKnown
  <2> QED
    BY <1>1, <2>1, KnownList
<1>2. CASE ip \notin clients \ Idle
  <2> DEFINE known   == clients \ Idle
             victims == IF Evicts(known) THEN {SweptList.tail} \ {None} ELSE {}
             room    == IF victims = {} THEN SweptList ELSE RemoveNode(SweptList, SweptList.tail)
             l       == PushFront(room, ip)
  <2>1. clients' = (known \ victims) \cup {ip} /\ list' = l
    BY <1>2 DEF Allow, AllowNew
  <2>2. /\ (known \ victims) \cup {ip} = Stay(ip) \cup {ip}
        /\ Cardinality(Stay(ip) \cup {ip}) <= MaxClients
        /\ l \in Lists
        /\ Ordered(l, Stay(ip) \cup {ip}, NewerAfter(ip))
    BY <1>2, NewList
  <2> HIDE DEF l, victims
  <2> QED
    BY <2>1, <2>2
<1> QED
    BY <1>1, <1>2

LEMMA AllowKeepsList ==
    ASSUME ListInv, NEW ip \in Ips, Allow(ip)
    PROVE  ListInv' /\ Newer' = NewerAfter(ip)
<1>1. /\ clients' = Stay(ip) \cup {ip}
      /\ Cardinality(clients') <= MaxClients
      /\ list' \in Lists
      /\ Ordered(list', clients', NewerAfter(ip))
    BY AllowOrdered
<1>2. Stay(ip) \in SUBSET clients
    BY DEF Stay, Others
<1>3. clients' \in SUBSET Ips /\ IsFiniteSet(clients')
    BY <1>1, <1>2, FS_Subset, FS_AddElement DEF ListInv
<1>4. LET All   == [clients' -> 1..Cardinality(clients')]
          place == CHOOSE q \in All : Linked(list', clients', q)
      IN  /\ \E q \in All : Linked(list', clients', q)
          /\ NewerAfter(ip) = NewerBy(clients', place)
  <2> DEFINE k == clients'
             l == list'
             n == NewerAfter(ip)
  <2>1. l \in Lists /\ k \in SUBSET Ips /\ IsFiniteSet(k) /\ Ordered(l, k, n)
    BY <1>1, <1>3
  <2> HIDE DEF k, l, n
  <2>2. LET All   == [k -> 1..Cardinality(k)]
            place == CHOOSE q \in All : Linked(l, k, q)
        IN  /\ \E q \in All : Linked(l, k, q)
            /\ n = NewerBy(k, place)
    BY <2>1, OneOrder
  <2> QED
    BY <2>2 DEF k, l, n
<1>5. ListMatchesMap' /\ NewerAfter(ip) = Newer'
    BY <1>4 DEF ListMatchesMap, Newer, Places
<1> QED
    BY <1>1, <1>3, <1>5 DEF ListInv, CapacityHolds

-----------------------------------------------------------------------------
(* The buckets.                                                            *)

LEMMA CeilBounds ==
    ASSUME NEW a \in Nat \ {0}, NEW r \in Nat \ {0}
    PROVE  /\ Ceil(a, r) \in Nat \ {0}
           /\ Ceil(a, r) * r >= a
           /\ (Ceil(a, r) - 1) * r < a
<1> DEFINE b == a + r - 1
           q == b \div r
<1>1. b \in Nat
    OBVIOUS
<1>2. q \in Nat /\ r * q <= b /\ b < r * q + r
  <2> HIDE DEF b
  <2> QED
    BY <1>1
<1>3. r * q \in Nat /\ q * r = r * q /\ (q - 1) * r = r * q - r
  <2> HIDE DEF q
  <2> QED
    BY <1>2
<1>4. q # 0
  <2>1. q = 0 => r * q = 0
    OBVIOUS
  <2> HIDE DEF q
  <2> QED
    BY <1>2, <1>3, <2>1
<1>5. q = Ceil(a, r)
    BY DEF Ceil
<1> HIDE DEF q
<1>6. q \in Nat \ {0} /\ q * r >= a /\ (q - 1) * r < a
    BY <1>2, <1>3, <1>4
<1> QED
    BY <1>5, <1>6

\* Retry-After is the least number of seconds that fills the gap.
LEMMA RetryIsExact ==
    ASSUME NEW have \in Nat, have < Unit, Rate > 0
    PROVE  /\ RetryAfter(have) \in Nat
           /\ have + RetryAfter(have) * Rate >= Unit
           /\ RetryAfter(have) > 1 => have + (RetryAfter(have) - 1) * Rate < Unit
<1> DEFINE lack == Unit - have
           c    == Ceil(lack, Rate)
<1>1. Unit \in Nat /\ Rate \in Nat \ {0} /\ lack \in Nat \ {0}
    BY RateLimiterAssumption
<1>2. /\ c \in Nat \ {0}
      /\ c * Rate >= lack
      /\ (c - 1) * Rate < lack
  <2> HIDE DEF lack
  <2> QED
    BY <1>1, CeilBounds
<1>3. RetryAfter(have) = c
  <2>1. RetryAfter(have) = IF Rate > 0 /\ c > 1 THEN c ELSE 1
    BY DEF RetryAfter
  <2> HIDE DEF c
  <2> QED
    BY <1>2, <2>1
<1> DEFINE w == c * Rate
           v == (c - 1) * Rate
<1>4. w \in Int /\ v \in Int
  <2> HIDE DEF c
  <2> QED
    BY <1>1, <1>2
<1>5. w >= lack /\ v < lack
    BY <1>2
<1>6. have + w >= Unit /\ have + v < Unit
  <2> HIDE DEF w, v
  <2> QED
    BY <1>1, <1>4, <1>5
<1>7. have + c * Rate >= Unit /\ have + (c - 1) * Rate < Unit
    BY <1>6
<1> HIDE DEF c
<1> QED
    BY <1>2, <1>3, <1>7

LEMMA RetryType ==
    ASSUME NEW have \in Nat, have < Unit
    PROVE  RetryAfter(have) \in Nat
<1>1. CASE Rate > 0
    BY <1>1, RetryIsExact
<1>2. CASE ~(Rate > 0)
    BY <1>2 DEF RetryAfter
<1> QED
    BY <1>1, <1>2

\* A bucket holds from nothing to the burst.
LEMMA RefilledType ==
    ASSUME TypeOK, NEW ip \in Ips
    PROVE  Refilled(ip) \in 0..Burst
<1> DEFINE w == age[ip] * Rate
<1>1. age[ip] \in Nat /\ Rate \in Nat /\ Burst \in Nat /\ tokens[ip] \in 0..Burst
    BY RateLimiterAssumption DEF TypeOK
<1>2. w \in Nat
    BY <1>1
<1>3. Refilled(ip) = IF tokens[ip] + w > Burst THEN Burst ELSE tokens[ip] + w
    BY DEF Refilled
<1> HIDE DEF w
<1> QED
    BY <1>1, <1>2, <1>3

\* An idle client's bucket is full again.
LEMMA IdleIsFull ==
    ASSUME TypeOK, Rate * IdleTimeout >= Burst, NEW ip \in Idle
    PROVE  Refilled(ip) = Burst
<1> DEFINE w == age[ip] * Rate
           v == Rate * IdleTimeout
<1>1. ip \in Ips /\ age[ip] > IdleTimeout
    BY DEF Idle, TypeOK
<1>2. /\ age[ip] \in Nat /\ Rate \in Nat /\ Burst \in Nat /\ tokens[ip] \in 0..Burst
      /\ IdleTimeout \in Nat
    BY <1>1, RateLimiterAssumption DEF TypeOK
<1>3. w \in Nat /\ v \in Nat /\ w >= v
    BY <1>1, <1>2
<1>4. Refilled(ip) = IF tokens[ip] + w > Burst THEN Burst ELSE tokens[ip] + w
    BY DEF Refilled
<1>5. v >= Burst
    OBVIOUS
<1> HIDE DEF w, v
<1> QED
    BY <1>2, <1>3, <1>4, <1>5

\* A second adds the rate, up to the burst.
LEMMA RefilledTick ==
    ASSUME TypeOK, Tick, NEW ip \in clients
    PROVE  Refilled(ip)' = IF Refilled(ip) + Rate < Burst THEN Refilled(ip) + Rate ELSE Burst
<1> DEFINE w == age[ip] * Rate
           v == age'[ip] * Rate
           t == tokens[ip]
<1>1. ip \in Ips /\ age[ip] \in 0..AgeCap /\ t \in 0..Burst
    BY DEF TypeOK
<1>2. Rate \in Nat /\ Burst \in Nat /\ AgeCap \in Nat /\ (Rate > 0 => Rate * AgeCap >= Burst)
    BY RateLimiterAssumption
<1>3. tokens'[ip] = t /\ age'[ip] = IF age[ip] < AgeCap THEN age[ip] + 1 ELSE age[ip]
    BY <1>1 DEF Tick, Older
<1>4. /\ Refilled(ip) = IF t + w > Burst THEN Burst ELSE t + w
      /\ Refilled(ip)' = IF t + v > Burst THEN Burst ELSE t + v
    BY <1>3 DEF Refilled
<1>5. w \in Nat
    BY <1>1, <1>2
<1>6. CASE age[ip] < AgeCap
  <2>1. v = w + Rate
    BY <1>1, <1>2, <1>3, <1>6
  <2> HIDE DEF w, v, t
  <2> QED
    BY <1>1, <1>2, <1>4, <1>5, <2>1
<1>7. CASE ~(age[ip] < AgeCap)
  <2>1. v = w /\ age[ip] = AgeCap
    BY <1>1, <1>2, <1>3, <1>7
  <2>2. Rate > 0 => w >= Burst
    BY <1>1, <1>2, <2>1
  <2> HIDE DEF w, v, t
  <2> QED
    BY <1>1, <1>2, <1>4, <1>5, <2>1, <2>2
<1> QED
    BY <1>6, <1>7

-----------------------------------------------------------------------------
(* The inductive invariant.                                                *)

LimiterInv ==
    /\ TypeOK
    /\ IsFiniteSet(clients)
    /\ ListMatchesMap
    /\ CapacityHolds
    /\ RetryAfterIsExact

LEMMA InvGivesList ==
    ASSUME LimiterInv
    PROVE  ListInv
  BY DEF LimiterInv, ListInv, TypeOK, Lists

LEMMA InitHolds ==
    ASSUME Init
    PROVE  LimiterInv
<1>1. TypeOK
    BY RateLimiterAssumption DEF Init, TypeOK, NoAnswer
<1>2. IsFiniteSet(clients) /\ Cardinality(clients) = 0
    BY FS_EmptySet DEF Init
<1>3. ListMatchesMap
  <2> DEFINE place == [x \in {} |-> 0]
  <2>1. place \in [clients -> 1..Cardinality(clients)]
    BY DEF Init
  <2>2. Linked(list, clients, place)
    BY <1>2, <2>1 DEF Init, Linked, Stands
  <2> QED
    BY <2>1, <2>2 DEF ListMatchesMap, Places
<1>4. CapacityHolds
    BY <1>2, RateLimiterAssumption DEF CapacityHolds
<1>5. RetryAfterIsExact
    BY DEF Init, RetryAfterIsExact
<1> QED
    BY <1>1, <1>2, <1>3, <1>4, <1>5 DEF LimiterInv

LEMMA TickKeeps ==
    ASSUME LimiterInv, Tick
    PROVE  LimiterInv'
<1>1. TypeOK'
  <2>1. age' \in [Ips -> 0..AgeCap]
    <3>1. \A ip \in Ips : Older(age[ip], AgeCap) \in 0..AgeCap
      BY RateLimiterAssumption DEF LimiterInv, TypeOK, Older
    <3> QED
      BY <3>1 DEF LimiterInv, TypeOK, Tick
  <2>2. swept' \in 0..(CleanupInterval + 1)
    BY RateLimiterAssumption DEF LimiterInv, TypeOK, Tick, Older
  <2> QED
    BY <2>1, <2>2 DEF LimiterInv, TypeOK, Tick
<1>2. ListMatchesMap' /\ CapacityHolds' /\ IsFiniteSet(clients')
    BY DEF LimiterInv, Tick, ListMatchesMap, Places, CapacityHolds
<1>3. RetryAfterIsExact'
    BY DEF LimiterInv, Tick, RetryAfterIsExact
<1> QED
    BY <1>1, <1>2, <1>3 DEF LimiterInv

\* A request of a client in the map.
LEMMA KnownStep ==
    ASSUME LimiterInv, NEW ip \in Ips, Allow(ip), ip \in clients \ Idle
    PROVE  /\ tokens' \in [Ips -> 0..Burst]
           /\ answer' \in [ip : Ips \cup {None}, allowed : BOOLEAN, retry : Nat]
           /\ RetryAfterIsExact'
<1> DEFINE have == Refilled(ip)
           known == clients \ Idle
<1>1. /\ tokens' = [x \in Ips |->
           IF x = ip THEN (IF have >= Unit THEN have - Unit ELSE have)
           ELSE IF x \in known THEN tokens[x] ELSE 0]
      /\ answer' = [ip |-> ip, allowed |-> have >= Unit,
                    retry |-> IF have >= Unit THEN 0 ELSE RetryAfter(have)]
    BY DEF Allow, AllowKnown
<1>2. have \in 0..Burst
    BY RefilledType DEF LimiterInv
<1>3. Unit \in Nat \ {0} /\ Burst \in Nat
    BY RateLimiterAssumption
<1> HIDE DEF have
<1>4. tokens' \in [Ips -> 0..Burst]
    BY <1>1, <1>2, <1>3 DEF LimiterInv, TypeOK
<1>5. CASE have >= Unit
  <2>1. answer' = [ip |-> ip, allowed |-> TRUE, retry |-> 0]
    BY <1>1, <1>5
  <2> QED
    BY <1>4, <2>1 DEF RetryAfterIsExact
<1>6. CASE ~(have >= Unit)
  <2>1. have \in Nat /\ have < Unit
    BY <1>2, <1>3, <1>6
  <2>2. answer' = [ip |-> ip, allowed |-> FALSE, retry |-> RetryAfter(have)] /\ tokens'[ip] = have
    <3>1. (have >= Unit) = FALSE
      BY <2>1, <1>3
    <3> QED
      BY <1>1, <3>1
  <2>3. RetryAfter(have) \in Nat
    BY <2>1, RetryType
  <2>4. Rate > 0 => /\ have + RetryAfter(have) * Rate >= Unit
                    /\ RetryAfter(have) > 1 => have + (RetryAfter(have) - 1) * Rate < Unit
    BY <2>1, RetryIsExact
  <2>5. RetryAfterIsExact'
    BY <2>2, <2>4 DEF RetryAfterIsExact
  <2> QED
    BY <1>4, <2>2, <2>3, <2>5
<1> QED
    BY <1>5, <1>6

\* A request of a client that is not.
LEMMA NewStep ==
    ASSUME LimiterInv, NEW ip \in Ips, Allow(ip), ip \notin clients \ Idle
    PROVE  /\ tokens' \in [Ips -> 0..Burst]
           /\ answer' \in [ip : Ips \cup {None}, allowed : BOOLEAN, retry : Nat]
           /\ RetryAfterIsExact'
<1>1. /\ tokens' = [x \in Ips |-> IF x = ip THEN Burst - Unit
                                  ELSE IF x \in clients' THEN tokens[x] ELSE 0]
      /\ answer' = [ip |-> ip, allowed |-> TRUE, retry |-> 0]
    BY DEF Allow, AllowNew
<1>2. Unit \in Nat \ {0} /\ Burst \in Nat /\ Burst >= Unit
    BY RateLimiterAssumption
<1>3. tokens' \in [Ips -> 0..Burst]
    BY <1>1, <1>2 DEF LimiterInv, TypeOK
<1> QED
    BY <1>1, <1>3 DEF RetryAfterIsExact

LEMMA AllowKeeps ==
    ASSUME LimiterInv, NEW ip \in Ips, Allow(ip)
    PROVE  LimiterInv'
<1>1. ListInv'
    BY InvGivesList, AllowKeepsList
<1>2. /\ tokens' \in [Ips -> 0..Burst]
      /\ answer' \in [ip : Ips \cup {None}, allowed : BOOLEAN, retry : Nat]
      /\ RetryAfterIsExact'
    BY KnownStep, NewStep
<1>3. age' \in [Ips -> 0..AgeCap]
  <2>1. AgeCap \in Nat
    BY RateLimiterAssumption
  <2>2. CASE ip \in clients \ Idle
    <3>1. age' = [x \in Ips |-> IF x # ip /\ x \in clients \ Idle THEN age[x] ELSE 0]
      BY <2>2 DEF Allow, AllowKnown
    <3> QED
      BY <2>1, <3>1 DEF LimiterInv, TypeOK
  <2>3. CASE ip \notin clients \ Idle
    <3>1. age' = [x \in Ips |-> IF x # ip /\ x \in clients' THEN age[x] ELSE 0]
      BY <2>3 DEF Allow, AllowNew
    <3> QED
      BY <2>1, <3>1 DEF LimiterInv, TypeOK
  <2> QED
    BY <2>2, <2>3
<1>4. swept' \in 0..(CleanupInterval + 1)
    BY RateLimiterAssumption DEF LimiterInv, TypeOK, Allow
<1>5. TypeOK'
    BY <1>1, <1>2, <1>3, <1>4 DEF TypeOK, ListInv, Lists
<1> QED
    BY <1>1, <1>2, <1>5 DEF LimiterInv, ListInv

LEMMA StepKeeps ==
    ASSUME LimiterInv, [Next]_vars
    PROVE  LimiterInv'
<1>1. CASE Tick
    BY <1>1, TickKeeps
<1>2. ASSUME NEW ip \in Ips, Allow(ip) PROVE LimiterInv'
    BY <1>2, AllowKeeps
<1>3. CASE UNCHANGED vars
    BY <1>3 DEF vars, LimiterInv, TypeOK, ListMatchesMap, Places, CapacityHolds, RetryAfterIsExact
<1> QED
    BY <1>1, <1>2, <1>3 DEF Next

\* The invariant that the properties need together.
THEOREM LimiterInvariant == Spec => []LimiterInv
<1>1. Init => LimiterInv
    BY InitHolds
<1>2. LimiterInv /\ [Next]_vars => LimiterInv'
    BY StepKeeps
<1> QED
    BY <1>1, <1>2, PTL DEF Spec

\* A bucket never holds more than the burst nor less than nothing.
THEOREM LimiterTypeCorrect == Spec => []TypeOK
<1>1. LimiterInv => TypeOK
    BY DEF LimiterInv
<1> QED
    BY <1>1, LimiterInvariant, PTL

\* Whatever the sweeps, evictions and moves, the links are a list of exactly
\* the clients in the map.
THEOREM ListStaysWhole == Spec => []ListMatchesMap
<1>1. LimiterInv => ListMatchesMap
    BY DEF LimiterInv
<1> QED
    BY <1>1, LimiterInvariant, PTL

\* An eviction always finds a client to evict.
THEOREM RoomIsKept == Spec => []CapacityHolds
<1>1. LimiterInv => CapacityHolds
    BY DEF LimiterInv
<1> QED
    BY <1>1, LimiterInvariant, PTL

\* Retry-After neither sends a client back too early nor keeps it too long.
THEOREM RetryAfterHolds == Spec => []RetryAfterIsExact
<1>1. LimiterInv => RetryAfterIsExact
    BY DEF LimiterInv
<1> QED
    BY <1>1, LimiterInvariant, PTL

-----------------------------------------------------------------------------
(* The limiter implements TokenBuckets.                                    *)

LEMMA InitIsBuckets ==
    ASSUME Init
    PROVE  Buckets!Init
<1>1. clients = {} /\ answer.ip = None
    BY DEF Init, NoAnswer
<1>2. Newer = {}
    BY <1>1 DEF Newer, NewerBy
<1> QED
    BY <1>1, <1>2 DEF Buckets!Init, Level, LastAnswer

LEMMA TickIsRefill ==
    ASSUME LimiterInv, Tick
    PROVE  Buckets!Refill
<1>1. clients' = clients /\ list' = list /\ answer' = answer
    BY DEF Tick
<1>2. Newer' = Newer /\ LastAnswer' = LastAnswer
    BY <1>1 DEF Newer, Places, LastAnswer
<1>3. \A x \in clients :
        Refilled(x)' = IF Refilled(x) + Rate < Burst THEN Refilled(x) + Rate ELSE Burst
    BY RefilledTick DEF LimiterInv
<1>4. Rate \in Nat /\ Burst \in Nat
    BY RateLimiterAssumption
<1>5. \A x \in Ips : Level[x] = IF x \in clients THEN Refilled(x) ELSE Burst
    BY DEF Level
<1>6. \A x \in Ips :
        Level'[x] = IF Level[x] + Rate < Burst THEN Level[x] + Rate ELSE Burst
  <2> TAKE x \in Ips
  <2>1. Level'[x] = IF x \in clients THEN Refilled(x)' ELSE Burst
    BY <1>1 DEF Level
  <2>2. CASE x \in clients
    BY <1>3, <1>5, <2>1, <2>2
  <2>3. CASE x \notin clients
    BY <1>4, <1>5, <2>1, <2>3
  <2> QED
    BY <2>2, <2>3
<1>7. Level' = [x \in Ips |-> IF Level[x] + Rate < Burst THEN Level[x] + Rate ELSE Burst]
  <2> DEFINE L == Level'
  <2>1. L = [x \in Ips |-> L[x]]
    BY DEF Level
  <2>2. \A x \in Ips : L[x] = IF Level[x] + Rate < Burst THEN Level[x] + Rate ELSE Burst
    BY <1>6
  <2> HIDE DEF L
  <2>3. L = [x \in Ips |-> IF Level[x] + Rate < Burst THEN Level[x] + Rate ELSE Burst]
    BY <2>1, <2>2
  <2> QED
    BY <2>3 DEF L
<1> QED
    BY <1>1, <1>2, <1>7 DEF Buckets!Refill

\* A bucket that was just written holds what was written.
LEMMA JustWritten ==
    ASSUME TypeOK', NEW x \in Ips, age'[x] = 0
    PROVE  Refilled(x)' = tokens'[x]
<1> DEFINE w == age'[x] * Rate
<1>1. w = 0 /\ Burst \in Nat
    BY RateLimiterAssumption
<1>2. tokens'[x] \in 0..Burst
    BY DEF TypeOK
<1>3. Refilled(x)' = IF tokens'[x] + w > Burst THEN Burst ELSE tokens'[x] + w
    BY DEF Refilled
<1> HIDE DEF w
<1> QED
    BY <1>1, <1>2, <1>3

\* What a request does to the sender's bucket, to the buckets of those that
\* stay and to the others.
LEMMA LevelsAfter ==
    ASSUME LimiterInv, LimiterInv', Rate * IdleTimeout >= Burst, NEW ip \in Ips, Allow(ip)
    PROVE  /\ answer'.ip = ip /\ answer'.allowed = (Level[ip] >= Unit)
           /\ \A x \in Ips : Level'[x] =
                IF x \in Evicted(ip) THEN Burst
                ELSE IF x = ip /\ Level[ip] >= Unit THEN Level[ip] - Unit
                ELSE Level[x]
<1>1. clients' = Stay(ip) \cup {ip}
    BY InvGivesList, AllowOrdered
<1>2. Unit \in Nat \ {0} /\ Burst \in Nat /\ Burst >= Unit
    BY RateLimiterAssumption
<1>3. \A x \in Idle : Refilled(x) = Burst
    BY IdleIsFull DEF LimiterInv
<1>4. /\ \A x \in Ips : Level[x] = IF x \in clients \ Idle THEN Refilled(x) ELSE Burst
      /\ \A x \in Ips : Level'[x] = IF x \in clients' THEN Refilled(x)' ELSE Burst
  <2>1. \A x \in Ips : Level[x] = IF x \in clients THEN Refilled(x) ELSE Burst
    BY DEF Level
  <2>2. \A x \in Ips : Level'[x] = IF x \in clients' THEN Refilled(x)' ELSE Burst
    BY DEF Level
  <2> QED
    BY <1>3, <2>1, <2>2
<1>5. \A x \in Stay(ip) : /\ x \in Ips /\ x # ip /\ x \in clients \ Idle /\ x \notin Evicted(ip)
                          /\ x \in clients'
    BY <1>1 DEF Stay, Others, LimiterInv, TypeOK
<1>6. \A x \in Stay(ip) : Refilled(x)' = Refilled(x)
  <2> TAKE x \in Stay(ip)
  <2>1. CASE ip \in clients \ Idle
    <3>1. tokens'[x] = tokens[x] /\ age'[x] = age[x]
      BY <1>5, <2>1 DEF Allow, AllowKnown
    <3> QED
      BY <3>1 DEF Refilled
  <2>2. CASE ip \notin clients \ Idle
    <3>1. tokens'[x] = tokens[x] /\ age'[x] = age[x]
      BY <1>5, <2>2 DEF Allow, AllowNew
    <3> QED
      BY <3>1 DEF Refilled
  <2> QED
    BY <2>1, <2>2
<1>7. /\ answer'.ip = ip /\ answer'.allowed = (Level[ip] >= Unit)
      /\ age'[ip] = 0
      /\ tokens'[ip] = IF Level[ip] >= Unit THEN Level[ip] - Unit ELSE Level[ip]
  <2>1. CASE ip \in clients \ Idle
    BY <1>4, <2>1 DEF Allow, AllowKnown
  <2>2. CASE ip \notin clients \ Idle
    <3>1. Level[ip] = Burst
      BY <1>4, <2>2
    <3>2. /\ answer' = [ip |-> ip, allowed |-> TRUE, retry |-> 0]
          /\ age'[ip] = 0 /\ tokens'[ip] = Burst - Unit
      BY <2>2 DEF Allow, AllowNew
    <3> QED
      BY <1>2, <3>1, <3>2
  <2> QED
    BY <2>1, <2>2
<1>8. ip \in clients' /\ ip \notin Evicted(ip)
    BY <1>1 DEF Evicted, Others
<1>9. Level'[ip] = IF Level[ip] >= Unit THEN Level[ip] - Unit ELSE Level[ip]
  <2>1. Refilled(ip)' = tokens'[ip]
    BY <1>7, JustWritten DEF LimiterInv
  <2> QED
    BY <1>4, <1>7, <1>8, <2>1
<1>10. \A x \in Ips \ (Stay(ip) \cup {ip}) : Level'[x] = Burst
    BY <1>1, <1>4
<1>11. \A x \in Ips \ (Stay(ip) \cup {ip}) : x \in Evicted(ip) \/ Level[x] = Burst
    BY <1>4 DEF Stay, Others
<1>12. ASSUME NEW x \in Ips
       PROVE  Level'[x] = IF x \in Evicted(ip) THEN Burst
                          ELSE IF x = ip /\ Level[ip] >= Unit THEN Level[ip] - Unit
                          ELSE Level[x]
  <2>1. CASE x = ip
    BY <1>8, <1>9, <2>1
  <2>2. CASE x \in Stay(ip)
    <3>1. Level'[x] = Level[x]
      BY <1>4, <1>5, <1>6, <2>2
    <3> QED
      BY <1>5, <2>2, <3>1
  <2>3. CASE x \notin Stay(ip) \cup {ip}
    BY <1>10, <1>11, <2>3
  <2> QED
    BY <2>1, <2>2, <2>3
<1> QED
    BY <1>7, <1>12

LEMMA AllowIsRequest ==
    ASSUME LimiterInv, Rate * IdleTimeout >= Burst, NEW ip \in Ips, Allow(ip)
    PROVE  Buckets!Request(ip)
<1> DEFINE others == clients \ (Idle \cup {ip})
           oldest == IF Buckets!Cardinality(others) < MaxClients THEN {} ELSE Buckets!Oldest(others)
           stay   == others \ oldest
<1>1. Idle \in SUBSET {x \in clients : Level[x] = Burst}
  <2>1. \A x \in Idle : x \in clients /\ x \in Ips /\ Refilled(x) = Burst
    BY IdleIsFull DEF LimiterInv, Idle, TypeOK
  <2> QED
    BY <2>1 DEF Level
<1>2. oldest = Evicted(ip) /\ stay = Stay(ip)
  <2>1. others = Others(ip)
    BY DEF Others
  <2>2. Buckets!Cardinality(others) = Cardinality(others)
    BY DEF Buckets!Cardinality, Cardinality
  <2> HIDE DEF others
  <2>3. oldest = Evicted(ip)
    BY <2>1, <2>2 DEF Buckets!Oldest, Evicted
  <2> HIDE DEF oldest
  <2> QED
    BY <2>1, <2>3 DEF Stay
<1>3. clients' = Stay(ip) \cup {ip} /\ Newer' = NewerAfter(ip)
    BY InvGivesList, AllowOrdered, AllowKeepsList
<1>4. /\ answer'.ip = ip /\ answer'.allowed = (Level[ip] >= Unit)
      /\ \A x \in Ips : Level'[x] =
           IF x \in Evicted(ip) THEN Burst
           ELSE IF x = ip /\ Level[ip] >= Unit THEN Level[ip] - Unit
           ELSE Level[x]
    BY AllowKeeps, LevelsAfter
<1>5. Level' = [x \in Ips |-> IF x \in Evicted(ip) THEN Burst
                              ELSE IF x = ip /\ Level[ip] >= Unit THEN Level[ip] - Unit
                              ELSE Level[x]]
  <2> DEFINE L == Level'
  <2>1. L = [x \in Ips |-> L[x]]
    BY DEF Level
  <2>2. \A x \in Ips : L[x] = IF x \in Evicted(ip) THEN Burst
                              ELSE IF x = ip /\ Level[ip] >= Unit THEN Level[ip] - Unit
                              ELSE Level[x]
    BY <1>4
  <2> HIDE DEF L
  <2>3. L = [x \in Ips |-> IF x \in Evicted(ip) THEN Burst
                           ELSE IF x = ip /\ Level[ip] >= Unit THEN Level[ip] - Unit
                           ELSE Level[x]]
    BY <2>1, <2>2
  <2> QED
    BY <2>3 DEF L
<1>6. LastAnswer' = <<ip, Level[ip] >= Unit>>
  <2>1. ip # None
    BY RateLimiterAssumption
  <2> QED
    BY <1>4, <2>1 DEF LastAnswer
<1>7. /\ clients' = stay \cup {ip}
      /\ Newer' = (Newer \cap (stay \X stay)) \cup ({ip} \X stay)
      /\ Level' = [x \in Ips |-> IF x \in oldest THEN Burst
                                 ELSE IF x = ip /\ Level[ip] >= Unit THEN Level[ip] - Unit
                                 ELSE Level[x]]
  <2> HIDE DEF oldest, stay
  <2> QED
    BY <1>2, <1>3, <1>5 DEF NewerAfter
<1> QED
    BY <1>1, <1>6, <1>7 DEF Buckets!Request

\* Where a bucket fills before its client counts as idle, the limiter is
\* TokenBuckets: nobody gains or loses a token by a sweep, and only the least
\* recently active client is forgotten for want of room.
THEOREM LimiterImplementsBuckets ==
    ASSUME Rate * IdleTimeout >= Burst
    PROVE  Spec => ImplementsBuckets
<1>1. Init => Buckets!Init
    BY InitIsBuckets
<1>2. LimiterInv /\ [Next]_vars => [Buckets!Next]_<<Level, clients, Newer, LastAnswer>>
  <2> SUFFICES ASSUME LimiterInv, [Next]_vars
               PROVE  [Buckets!Next]_<<Level, clients, Newer, LastAnswer>>
    OBVIOUS
  <2>1. CASE Tick
    BY <2>1, TickIsRefill DEF Buckets!Next
  <2>2. ASSUME NEW ip \in Ips, Allow(ip) PROVE Buckets!Next
    BY <2>2, AllowIsRequest DEF Buckets!Next
  <2>3. CASE UNCHANGED vars
    BY <2>3 DEF vars, Level, Refilled, Newer, Places, LastAnswer
  <2> QED
    BY <2>1, <2>2, <2>3 DEF Next
<1> QED
    BY <1>1, <1>2, LimiterInvariant, PTL DEF Spec, ImplementsBuckets, Buckets!Spec
=============================================================================
