---------------------------- MODULE SearchProofs ----------------------------
(***************************************************************************)
(* Proofs about DriverSearch: the list of drivers a ride is offered to is  *)
(* ranked, complete and without repetition, whatever the drivers in the    *)
(* index, their number, and the numbers they are compared by.              *)
(*                                                                         *)
(* Everything rests on Arranged, which lists a finite set in a strict      *)
(* order: the number of earlier members grows along the order, so no two   *)
(* members share it and every number below the cardinality is some         *)
(* member's.                                                               *)
(***************************************************************************)
EXTENDS DriverSearch, FiniteSetTheorems, TLAPS

\* A strict order of the members of S: a set of pairs.
StrictOrder(S, before) ==
    /\ \A i, j \in S : i # j => <<i, j>> \in before \/ <<j, i>> \in before
    /\ \A i, j \in S : <<i, j>> \in before => i # j /\ <<j, i>> \notin before
    /\ \A i, j, k \in S :
        <<i, j>> \in before /\ <<j, k>> \in before => <<i, k>> \in before

\* A list of the members of S, each once, every later one after every earlier one.
Lists(a, S, before) ==
    /\ a \in [1 .. Cardinality(S) -> S]
    /\ \A p, q \in 1 .. Cardinality(S) : p < q => <<a[p], a[q]>> \in before
    /\ \A i \in S : \E p \in 1 .. Cardinality(S) : a[p] = i

Earlier(S, before, i) == {j \in S : <<j, i>> \in before}

-----------------------------------------------------------------------------
\* The earlier members of a member are fewer than all, and fewer than those of
\* any later member.
LEMMA EarlierGrow ==
    ASSUME NEW S, IsFiniteSet(S), NEW before, StrictOrder(S, before)
    PROVE  /\ \A i \in S : Cardinality(Earlier(S, before, i)) \in 0 .. Cardinality(S) - 1
           /\ \A i, j \in S : <<i, j>> \in before =>
                Cardinality(Earlier(S, before, i)) < Cardinality(Earlier(S, before, j))
<1> DEFINE E(i) == Earlier(S, before, i)
<1>1. Cardinality(S) \in Nat
  BY FS_CardinalityType
<1>2. ASSUME NEW i \in S
      PROVE  IsFiniteSet(E(i)) /\ Cardinality(E(i)) \in Nat
  <2>1. E(i) \in SUBSET S
    BY DEF Earlier
  <2> QED BY <2>1, FS_Subset, FS_CardinalityType
<1>3. ASSUME NEW i \in S
      PROVE  Cardinality(E(i)) \in 0 .. Cardinality(S) - 1
  <2>1. E(i) \in SUBSET S /\ i \notin E(i)
    BY DEF Earlier, StrictOrder
  <2>2. Cardinality(E(i)) <= Cardinality(S)
    BY <2>1, FS_Subset
  <2>3. Cardinality(E(i)) # Cardinality(S)
    BY <2>1, FS_Subset
  <2> HIDE DEF E
  <2> QED BY <1>1, <1>2, <2>2, <2>3
<1>4. ASSUME NEW i \in S, NEW j \in S, <<i, j>> \in before
      PROVE  Cardinality(E(i)) < Cardinality(E(j))
  <2>1. E(i) \in SUBSET E(j)
    BY <1>4 DEF Earlier, StrictOrder
  <2>2. i \in E(j) /\ i \notin E(i)
    BY <1>4 DEF Earlier, StrictOrder
  <2>3. Cardinality(E(i)) <= Cardinality(E(j))
    BY <1>2, <2>1, FS_Subset
  <2>4. Cardinality(E(i)) # Cardinality(E(j))
    BY <1>2, <2>1, <2>2, FS_Subset
  <2> HIDE DEF E
  <2> QED BY <1>2, <2>3, <2>4
<1> QED BY <1>3, <1>4

\* Arranged lists the members of a finite set in the order it is given.
LEMMA ArrangedLists ==
    ASSUME NEW S, IsFiniteSet(S), NEW before, StrictOrder(S, before)
    PROVE  Lists(Arranged(S, before), S, before)
<1> DEFINE n == Cardinality(S)
           Rank(i) == Cardinality(Earlier(S, before, i))
           f == [i \in S |-> Rank(i) + 1]
           a == Arranged(S, before)
<1>1. n \in Nat
  BY FS_CardinalityType
<1>2. /\ \A i \in S : Rank(i) \in 0 .. n - 1
      /\ \A i, j \in S : <<i, j>> \in before => Rank(i) < Rank(j)
  BY EarlierGrow
<1>3. a = [p \in 1 .. n |-> CHOOSE i \in S : Rank(i) = p - 1]
  BY DEF Arranged, Earlier
<1>4. \A i, j \in S : i # j => <<i, j>> \in before \/ <<j, i>> \in before
  BY DEF StrictOrder
<1> HIDE DEF n, Rank, a
<1>5. ASSUME NEW i \in S, NEW j \in S, Rank(i) = Rank(j)
      PROVE  i = j
  <2>1. Rank(i) \in Int /\ ~(Rank(i) < Rank(j)) /\ ~(Rank(j) < Rank(i))
    BY <1>1, <1>2, <1>5
  <2> QED BY <1>2, <1>4, <2>1
<1>6. f \in [S -> 1 .. n]
  BY <1>1, <1>2
<1>7. f \in Injection(S, 1 .. n)
  <2>1. ASSUME NEW i \in S, NEW j \in S, f[i] = f[j]
        PROVE  i = j
    <3>1. Rank(i) \in Int /\ Rank(j) \in Int /\ Rank(i) + 1 = Rank(j) + 1
      BY <1>1, <1>2, <2>1
    <3>2. Rank(i) = Rank(j)
      BY <3>1
    <3> QED BY <1>5, <3>2
  <2>2. \A i, j \in S : f[i] = f[j] => i = j
    BY <2>1
  <2> HIDE DEF f
  <2> QED BY <1>6, <2>2 DEF Injection, IsInjective
<1>8. IsFiniteSet(1 .. n) /\ Cardinality(1 .. n) = n
  BY <1>1, FS_Interval
<1>9. f \in Surjection(S, 1 .. n)
  BY <1>7, <1>8, FS_Injection DEF n
<1>10. ASSUME NEW p \in 1 .. n
       PROVE  \E i \in S : Rank(i) = p - 1
  <2>1. PICK i \in S : f[i] = p
    BY <1>9 DEF Surjection
  <2>2. Rank(i) + 1 = p
    BY <2>1
  <2> QED BY <1>1, <1>2, <2>2
<1>11. ASSUME NEW p \in 1 .. n
       PROVE  a[p] \in S /\ Rank(a[p]) = p - 1
  BY <1>3, <1>10
<1>12. a \in [1 .. n -> S]
  BY <1>3, <1>11
<1>13. ASSUME NEW p \in 1 .. n, NEW q \in 1 .. n, p < q
       PROVE  <<a[p], a[q]>> \in before
  <2>1. Rank(a[p]) < Rank(a[q])
    BY <1>1, <1>11, <1>13
  <2>2. a[p] \in S /\ a[q] \in S
    BY <1>11
  <2>3. Rank(a[p]) \in Int /\ Rank(a[q]) \in Int
    BY <1>1, <1>2, <2>2
  <2>4. a[p] # a[q] /\ <<a[q], a[p]>> \notin before
    BY <1>2, <2>1, <2>2, <2>3
  <2> QED BY <1>4, <2>2, <2>4
<1>14. ASSUME NEW i \in S
       PROVE  \E p \in 1 .. n : a[p] = i
  <2>1. Rank(i) + 1 \in 1 .. n /\ (Rank(i) + 1) - 1 = Rank(i)
    BY <1>1, <1>2
  <2>2. a[Rank(i) + 1] \in S /\ Rank(a[Rank(i) + 1]) = Rank(i)
    BY <1>11, <2>1
  <2>3. a[Rank(i) + 1] = i
    BY <1>5, <2>2
  <2> QED BY <2>1, <2>3
<1> QED BY <1>12, <1>13, <1>14 DEF Lists, n, a

-----------------------------------------------------------------------------
\* The members t of a list s of n, sorted by key: at is where each was in s.
SortedFrom(t, s, n, key, at) ==
    /\ at \in [1 .. n -> 1 .. n]
    /\ t = [p \in 1 .. n |-> s[at[p]]]
    /\ \A k \in 1 .. n : \E p \in 1 .. n : at[p] = k
    /\ \A p, q \in 1 .. n : p < q =>
        \/ key[t[p]] < key[t[q]]
        \/ key[t[p]] = key[t[q]] /\ at[p] < at[q]

\* Array.prototype.sort, as modelled, sorts and is stable.
LEMMA StableSortSorts ==
    ASSUME NEW n \in Nat, NEW S, NEW s \in [1 .. n -> S], NEW key \in [S -> Int]
    PROVE  \E at : SortedFrom(StableSort(s, key), s, n, key, at)
<1> DEFINE places == 1 .. n
           before == {ij \in places \X places :
                          \/ key[s[ij[1]]] < key[s[ij[2]]]
                          \/ key[s[ij[1]]] = key[s[ij[2]]] /\ ij[1] < ij[2]}
           at == Arranged(places, before)
           t == [p \in places |-> s[at[p]]]
<1>1. DOMAIN s = places /\ StableSort(s, key) = t
  BY DEF StableSort
<1>2. IsFiniteSet(places) /\ Cardinality(places) = n
  BY FS_Interval
<1>3. \A i, j \in places : <<i, j>> \in before <=>
          \/ key[s[i]] < key[s[j]]
          \/ key[s[i]] = key[s[j]] /\ i < j
  OBVIOUS
<1>4. \A i \in places : key[s[i]] \in Int /\ i \in Int
  OBVIOUS
<1> HIDE DEF before
<1>5. StrictOrder(places, before)
  <2>1. \A i, j \in places : i # j => <<i, j>> \in before \/ <<j, i>> \in before
    BY <1>3, <1>4
  <2>2. \A i, j \in places : <<i, j>> \in before => i # j /\ <<j, i>> \notin before
    BY <1>3, <1>4
  <2>3. ASSUME NEW i \in places, NEW j \in places, NEW k \in places,
               <<i, j>> \in before, <<j, k>> \in before
        PROVE  <<i, k>> \in before
    BY <1>3, <1>4, <2>3
  <2> QED BY <2>1, <2>2, <2>3 DEF StrictOrder
<1>6. Lists(at, places, before)
  BY <1>2, <1>5, ArrangedLists
<1>7. /\ at \in [places -> places]
      /\ \A p, q \in places : p < q => <<at[p], at[q]>> \in before
      /\ \A k \in places : \E p \in places : at[p] = k
  BY <1>2, <1>6 DEF Lists
<1> HIDE DEF at
<1>8. ASSUME NEW p \in places, NEW q \in places, p < q
      PROVE  \/ key[t[p]] < key[t[q]]
             \/ key[t[p]] = key[t[q]] /\ at[p] < at[q]
  <2>1. at[p] \in places /\ at[q] \in places /\ <<at[p], at[q]>> \in before
    BY <1>7, <1>8
  <2>2. t[p] = s[at[p]] /\ t[q] = s[at[q]]
    OBVIOUS
  <2> QED BY <1>3, <2>1, <2>2
<1>9. SortedFrom(t, s, n, key, at)
  BY <1>7, <1>8 DEF SortedFrom
<1> QED BY <1>1, <1>9

\* The index holds entities, and the request is one.
SearchTypeOK ==
    /\ index \in UNION {[1 .. n -> Drivers] : n \in 0 .. MaxFound}
    /\ request \in Request

\* What the search returns: the suitable drivers, each once, ranked.
LEMMA SearchAnswers ==
    ASSUME SearchTypeOK
    PROVE  LET o == FilterAndSort(FoundInOrder)
               n == Cardinality(Suitable)
           IN  /\ n \in Nat
               /\ o \in [1 .. n -> Suitable]
               /\ \A i \in Suitable : \E p \in 1 .. n : o[p] = i
               /\ \A p, q \in 1 .. n : p < q =>
                    \/ index[o[p]].score > index[o[q]].score
                    \/ /\ index[o[p]].score = index[o[q]].score
                       /\ \/ index[o[p]].distance < index[o[q]].distance
                          \/ /\ index[o[p]].distance = index[o[q]].distance
                             /\ o[p] < o[q]
<1> DEFINE n == Cardinality(Suitable)
           before == {ij \in Suitable \X Suitable : ij[1] < ij[2]}
           f == FoundInOrder
           distance == [i \in DOMAIN index |-> index[i].distance]
           score == [i \in DOMAIN index |-> -index[i].score]
           d == SortByDistance(f)
           o == SortByScore(d)
<1>1. PICK m \in 0 .. MaxFound : index \in [1 .. m -> Drivers]
  BY DEF SearchTypeOK
<1>2. m \in Nat /\ DOMAIN index = 1 .. m
  BY <1>1, MaxFoundIsNat
<1>3. Suitable \in SUBSET (1 .. m)
  BY <1>2 DEF Suitable
<1>4. IsFiniteSet(Suitable) /\ n \in Nat
  <2>1. IsFiniteSet(1 .. m)
    BY <1>2, FS_Interval
  <2>2. IsFiniteSet(Suitable)
    BY <1>3, <2>1, FS_Subset
  <2> QED BY <2>2, FS_CardinalityType
<1>5. \A i \in 1 .. m : index[i].distance \in Nat /\ index[i].score \in Nat
  BY <1>1, DriversAreEntities DEF Entity
<1>6. distance \in [1 .. m -> Int] /\ score \in [1 .. m -> Int]
  BY <1>2, <1>5
<1>7. StrictOrder(Suitable, before)
  BY <1>3 DEF StrictOrder
<1>8. Lists(f, Suitable, before)
  BY <1>4, <1>7, ArrangedLists DEF FoundInOrder
<1> HIDE DEF n
<1>9. /\ f \in [1 .. n -> Suitable]
      /\ \A p, q \in 1 .. n : p < q => f[p] < f[q]
      /\ \A i \in Suitable : \E p \in 1 .. n : f[p] = i
  BY <1>8 DEF Lists, n
<1>10. PICK by : SortedFrom(d, f, n, distance, by)
  BY <1>3, <1>4, <1>6, <1>9, StableSortSorts DEF SortByDistance
<1>11. /\ by \in [1 .. n -> 1 .. n]
       /\ d = [p \in 1 .. n |-> f[by[p]]]
       /\ \A k \in 1 .. n : \E p \in 1 .. n : by[p] = k
       /\ \A p, q \in 1 .. n : p < q =>
            \/ distance[d[p]] < distance[d[q]]
            \/ distance[d[p]] = distance[d[q]] /\ by[p] < by[q]
  BY <1>10 DEF SortedFrom
<1>12. d \in [1 .. n -> Suitable]
  BY <1>9, <1>11
<1> HIDE DEF f, d
<1>13. PICK at : SortedFrom(o, d, n, score, at)
  <2>1. d \in [1 .. n -> 1 .. m]
    BY <1>3, <1>12
  <2> QED BY <1>4, <1>6, <2>1, StableSortSorts DEF SortByScore
<1>14. /\ at \in [1 .. n -> 1 .. n]
       /\ o = [p \in 1 .. n |-> d[at[p]]]
       /\ \A k \in 1 .. n : \E p \in 1 .. n : at[p] = k
       /\ \A p, q \in 1 .. n : p < q =>
            \/ score[o[p]] < score[o[q]]
            \/ score[o[p]] = score[o[q]] /\ at[p] < at[q]
  BY <1>13 DEF SortedFrom
<1>15. o \in [1 .. n -> Suitable]
  BY <1>12, <1>14
<1> HIDE DEF o
<1>16. ASSUME NEW i \in Suitable
       PROVE  \E p \in 1 .. n : o[p] = i
  <2>1. PICK k \in 1 .. n : f[k] = i
    BY <1>9
  <2>2. PICK q \in 1 .. n : by[q] = k
    BY <1>11
  <2>3. PICK p \in 1 .. n : at[p] = q
    BY <1>14
  <2>4. o[p] = d[q]
    BY <1>14, <2>3
  <2>5. d[q] = f[k]
    BY <1>11, <2>2
  <2> QED BY <2>1, <2>4, <2>5
<1>17. ASSUME NEW p \in 1 .. n, NEW q \in 1 .. n, p < q
       PROVE  \/ index[o[p]].score > index[o[q]].score
              \/ /\ index[o[p]].score = index[o[q]].score
                 /\ \/ index[o[p]].distance < index[o[q]].distance
                    \/ /\ index[o[p]].distance = index[o[q]].distance
                       /\ o[p] < o[q]
  <2>1. o[p] \in 1 .. m /\ o[q] \in 1 .. m
    BY <1>3, <1>15
  <2>2. /\ score[o[p]] = -index[o[p]].score /\ score[o[q]] = -index[o[q]].score
        /\ distance[o[p]] = index[o[p]].distance
        /\ distance[o[q]] = index[o[q]].distance
    BY <1>2, <2>1
  <2>3. /\ index[o[p]].score \in Nat /\ index[o[q]].score \in Nat
        /\ index[o[p]].distance \in Nat /\ index[o[q]].distance \in Nat
    BY <1>5, <2>1
  <2>4. at[p] \in 1 .. n /\ at[q] \in 1 .. n /\ o[p] = d[at[p]] /\ o[q] = d[at[q]]
    BY <1>14
  <2> HIDE DEF score, distance
  <2>5. CASE score[o[p]] < score[o[q]]
    <3>1. index[o[p]].score > index[o[q]].score
      BY <2>2, <2>3, <2>5
    <3> QED BY <3>1
  <2>6. CASE score[o[p]] = score[o[q]] /\ at[p] < at[q]
    <3>1. index[o[p]].score = index[o[q]].score
      BY <2>2, <2>3, <2>6
    <3>2. \/ distance[d[at[p]]] < distance[d[at[q]]]
          \/ /\ distance[d[at[p]]] = distance[d[at[q]]]
             /\ by[at[p]] < by[at[q]]
      BY <1>11, <2>4, <2>6
    <3>3. CASE distance[d[at[p]]] < distance[d[at[q]]]
      <4>1. index[o[p]].distance < index[o[q]].distance
        BY <2>2, <2>4, <3>3
      <4> QED BY <3>1, <4>1
    <3>4. CASE /\ distance[d[at[p]]] = distance[d[at[q]]]
               /\ by[at[p]] < by[at[q]]
      <4>1. index[o[p]].distance = index[o[q]].distance
        BY <2>2, <2>4, <3>4
      <4>2. by[at[p]] \in 1 .. n /\ by[at[q]] \in 1 .. n
        BY <1>11, <2>4
      <4>3. f[by[at[p]]] < f[by[at[q]]]
        BY <1>9, <3>4, <4>2
      <4>4. o[p] = f[by[at[p]]] /\ o[q] = f[by[at[q]]]
        BY <1>11, <2>4
      <4> QED BY <3>1, <4>1, <4>3, <4>4
    <3> QED BY <3>2, <3>3, <3>4
  <2> QED BY <1>14, <1>17, <2>5, <2>6
<1>18. FilterAndSort(FoundInOrder) = o
  BY DEF FilterAndSort, o, d, f
<1> QED BY <1>4, <1>15, <1>16, <1>17, <1>18 DEF n

-----------------------------------------------------------------------------
\* The invariant: the properties of the list hold of the empty one, and of what
\* one search of an index and a request of the right types answers.
SearchInv ==
    /\ SearchTypeOK
    /\ RankedByScoreThenDistance
    /\ OffersAreFreeDrivers
    /\ DebtorsTakeNoCash

\* No drivers are offered the ride before the search.
LEMMA SearchBegins == SearchInit => SearchInv
<1> SUFFICES ASSUME SearchInit PROVE SearchInv
  OBVIOUS
<1>1. SearchTypeOK
  BY DEF SearchInit, SearchTypeOK
<1>2. offers = <<>> /\ DOMAIN offers = {}
  BY DEF SearchInit
<1> QED BY <1>1, <1>2 DEF SearchInv, RankedByScoreThenDistance,
                          OffersAreFreeDrivers, DebtorsTakeNoCash

\* One search makes a list with the properties.
LEMMA SearchFinds == SearchInv /\ [FindDriver]_searchVars => SearchInv'
<1> SUFFICES ASSUME SearchInv, [FindDriver]_searchVars PROVE SearchInv'
  OBVIOUS
<1>1. CASE FindDriver
  <2> DEFINE o == FilterAndSort(FoundInOrder)
             n == Cardinality(Suitable)
  <2>1. offers' = o /\ index' = index /\ request' = request
    BY <1>1 DEF FindDriver
  <2>2. SearchTypeOK /\ SearchTypeOK'
    BY <2>1 DEF SearchInv, SearchTypeOK
  <2>3. /\ n \in Nat
        /\ o \in [1 .. n -> Suitable]
        /\ \A i \in Suitable : \E p \in 1 .. n : o[p] = i
        /\ \A p, q \in 1 .. n : p < q =>
             \/ index[o[p]].score > index[o[q]].score
             \/ /\ index[o[p]].score = index[o[q]].score
                /\ \/ index[o[p]].distance < index[o[q]].distance
                   \/ /\ index[o[p]].distance = index[o[q]].distance
                      /\ o[p] < o[q]
    BY <2>2, SearchAnswers
  <2>4. PICK m \in 0 .. MaxFound : index \in [1 .. m -> Drivers]
    BY <2>2 DEF SearchTypeOK
  <2>5. m \in Nat /\ Suitable \in SUBSET (1 .. m)
    BY <2>4, MaxFoundIsNat DEF Suitable
  <2>6. Suitable' = Suitable
    BY <2>1 DEF Suitable
  <2> HIDE DEF o, n
  <2>7. DOMAIN offers' = 1 .. n
    BY <2>1, <2>3
  <2>8. RankedByScoreThenDistance'
    BY <2>1, <2>3, <2>7 DEF RankedByScoreThenDistance
  <2>9. ASSUME NEW p \in 1 .. n
        PROVE  /\ o[p] \in 1 .. m /\ index[o[p]] \in Entity
               /\ Suits(index[o[p]], request)
    BY <2>3, <2>4, <2>5, DriversAreEntities DEF Suitable
  <2>10. ASSUME NEW p \in 1 .. n, NEW q \in 1 .. n, o[p] = o[q]
         PROVE  p = q
    <3>1. CASE p < q
      <4>1. o[p] \in Int /\ index[o[p]].score \in Int /\ index[o[p]].distance \in Int
        BY <2>9 DEF Entity
      <4> QED BY <2>3, <2>10, <3>1, <4>1
    <3>2. CASE q < p
      <4>1. o[p] \in Int /\ index[o[p]].score \in Int /\ index[o[p]].distance \in Int
        BY <2>9 DEF Entity
      <4> QED BY <2>3, <2>10, <3>2, <4>1
    <3> QED BY <2>3, <3>1, <3>2
  <2>11. OffersAreFreeDrivers'
    <3>1. \A p \in 1 .. n : LET e == index[o[p]]
                            IN  e.online /\ ~e.in_ride /\ e.vehicle = request.vehicle
                                         /\ e.fence = request.area
      BY <2>9 DEF Suits, Found
    <3> QED BY <2>1, <2>3, <2>6, <2>7, <2>10, <3>1 DEF OffersAreFreeDrivers
  <2>12. DebtorsTakeNoCash'
    <3>1. ASSUME NEW p \in 1 .. n, request.mode = "cash"
          PROVE  ~Owing(index[o[p]])
      BY <2>9, <3>1 DEF Suits, TakesMode, AcceptableRides
    <3> QED BY <2>1, <2>7, <3>1 DEF DebtorsTakeNoCash, Owing
  <2> QED BY <2>2, <2>8, <2>11, <2>12 DEF SearchInv
<1>2. CASE UNCHANGED searchVars
  BY <1>2 DEF searchVars, SearchInv, SearchTypeOK, RankedByScoreThenDistance,
              OffersAreFreeDrivers, DebtorsTakeNoCash, Suitable, Suits, Found,
              TakesMode, AcceptableRides, Owing
<1> QED BY <1>1, <1>2

LEMMA SearchHolds == SearchSpec => []SearchInv
BY SearchBegins, SearchFinds, PTL DEF SearchSpec

\* Whatever drivers Redis returns, they are offered the ride by score, those of
\* one score by distance, and those of one score and distance in Redis's order.
THEOREM OffersRanked == SearchSpec => []RankedByScoreThenDistance
BY SearchHolds, PTL DEF SearchInv

\* Every driver that suits is offered the ride and offered it once, and whoever is
\* offered it is online, free, in the area and drives what was asked for.
THEOREM OffersComplete == SearchSpec => []OffersAreFreeDrivers
BY SearchHolds, PTL DEF SearchInv

\* A driver whose debt is within the limit is offered no ride paid in cash.
THEOREM NoCashForDebtors == SearchSpec => []DebtorsTakeNoCash
BY SearchHolds, PTL DEF SearchInv
=============================================================================
