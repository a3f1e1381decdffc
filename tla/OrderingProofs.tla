--------------------------- MODULE OrderingProofs ---------------------------
(***************************************************************************)
(* Proofs about the two answers that are sorted: the summaries of a search *)
(* (SearchOrder), for any messages, values and limits, and the accounts of *)
(* a list (AccountListing), for any accounts and requests.  They rest on   *)
(* what sorting gives: the elements of a finite set, each once, in order.  *)
(***************************************************************************)
EXTENDS AccountListing, SearchOrder, FiniteSetTheorems, TLAPS

\* R decides any two elements of S, and does not go round in circles.
Decides(R, S) ==
  /\ \A a \in S : <<a, a>> \notin R
  /\ \A a, b, c \in S : <<a, b>> \in R /\ <<b, c>> \in R => <<a, c>> \in R
  /\ \A a, b \in S : a # b => <<a, b>> \in R \/ <<b, a>> \in R

\* The elements of S in the order of R.
InOrderOf(R, S) == {f \in [1..Cardinality(S) -> S] :
  \A i, j \in 1..Cardinality(S) : i < j => <<f[i], f[j]>> \in R}

-----------------------------------------------------------------------------
(* Sorting *)

\* An element's place is after those that come before it.
LEMMA Arrangement ==
  ASSUME NEW S, IsFiniteSet(S), NEW R, Decides(R, S)
  PROVE  \E f : f \in InOrderOf(R, S)
<1> DEFINE n == Cardinality(S)
           Down(x) == {y \in S : <<y, x>> \in R}
           place == [x \in S |-> Cardinality(Down(x)) + 1]
<1>1. n \in Nat /\ IsFiniteSet(1..n) /\ Cardinality(1..n) = n
  BY FS_CardinalityType, FS_Interval
<1>2. ASSUME NEW x \in S
      PROVE  Cardinality(Down(x)) \in Nat /\ Cardinality(Down(x)) < n
  <2>1. x \notin Down(x) /\ Down(x) \subseteq S
    BY DEF Decides
  <2>2. IsFiniteSet(Down(x)) /\ Cardinality(Down(x)) <= n /\ Cardinality(Down(x)) # n
    BY <2>1, FS_Subset
  <2> QED BY <1>1, <2>2, FS_CardinalityType
<1>3. ASSUME NEW x \in S, NEW y \in S, <<x, y>> \in R PROVE place[x] < place[y]
  <2>1. Down(x) \subseteq Down(y) /\ x \in Down(y) /\ x \notin Down(x)
    BY <1>3 DEF Decides
  <2>2. IsFiniteSet(Down(y))
    BY FS_Subset
  <2>3. Cardinality(Down(x)) <= Cardinality(Down(y)) /\ Cardinality(Down(x)) # Cardinality(Down(y))
    BY <2>1, <2>2, FS_Subset
  <2> QED BY <1>2, <2>3
<1>4. place \in Injection(S, 1..n)
  <2>1. place \in [S -> 1..n]
    BY <1>1, <1>2
  <2>2. \A x, y \in S : x # y => place[x] # place[y]
    <3> HIDE DEF place
    <3>1. \A x \in S : place[x] \in 1..n
      BY <2>1
    <3>2. \A i \in 1..n : ~(i < i)
      OBVIOUS
    <3>3. \A x, y \in S : x # y => place[x] < place[y] \/ place[y] < place[x]
      BY <1>3 DEF Decides
    <3> QED BY <1>1, <3>1, <3>2, <3>3
  <2> HIDE DEF place
  <2> QED BY <2>1, <2>2 DEF Injection, IsInjective
<1> HIDE DEF place
<1>5. place \in Surjection(S, 1..n)
  BY <1>1, <1>4, FS_Injection
<1>6. \A k \in 1..n : \E x \in S : place[x] = k
  BY <1>5 DEF Surjection
<1> DEFINE f == [k \in 1..n |-> CHOOSE x \in S : place[x] = k]
<1>7. f \in [1..n -> S] /\ \A k \in 1..n : place[f[k]] = k
  BY <1>6
<1> HIDE DEF f, n
<1>8. ASSUME NEW i \in 1..n, NEW j \in 1..n, i < j PROVE <<f[i], f[j]>> \in R
  <2>1. f[i] \in S /\ f[j] \in S /\ place[f[i]] = i /\ place[f[j]] = j
    BY <1>7
  <2>2. f[i] # f[j] /\ <<f[j], f[i]>> \notin R
    BY <1>1, <1>3, <1>8, <2>1
  <2> QED BY <2>1, <2>2 DEF Decides
<1> QED BY <1>7, <1>8 DEF InOrderOf, n

\* Every element has a place, and one only.
LEMMA PlacedOnce ==
  ASSUME NEW S, IsFiniteSet(S), NEW R, Decides(R, S), NEW f \in InOrderOf(R, S)
  PROVE  /\ f \in Seq(S) /\ Len(f) = Cardinality(S)
         /\ DOMAIN f = 1..Cardinality(S)
         /\ \A i, j \in DOMAIN f : i < j => <<f[i], f[j]>> \in R
         /\ \A i, j \in DOMAIN f : f[i] = f[j] => i = j
         /\ \A x \in S : \E i \in DOMAIN f : f[i] = x
<1> DEFINE n == Cardinality(S)
<1>1. n \in Nat /\ IsFiniteSet(1..n) /\ Cardinality(1..n) = n
  BY FS_CardinalityType, FS_Interval
<1>2. f \in [1..n -> S] /\ \A i, j \in 1..n : i < j => <<f[i], f[j]>> \in R
  BY DEF InOrderOf
<1> HIDE DEF n
<1>3. ASSUME NEW i \in 1..n, NEW j \in 1..n, f[i] = f[j] PROVE i = j
  <2>1. f[i] \in S /\ <<f[i], f[i]>> \notin R
    BY <1>2 DEF Decides
  <2>2. ~(i < j) /\ ~(j < i)
    BY <1>2, <1>3, <2>1
  <2> QED BY <1>1, <2>2
<1>4. f \in Injection(1..n, S)
  BY <1>2, <1>3 DEF Injection, IsInjective
<1>5. f \in Surjection(1..n, S)
  BY <1>1, <1>4, FS_Injection DEF n
<1>6. \A x \in S : \E i \in 1..n : f[i] = x
  BY <1>5 DEF Surjection
<1>7. f \in Seq(S) /\ Len(f) = n
  BY <1>1, <1>2
<1> QED BY <1>2, <1>3, <1>6, <1>7 DEF n

\* The integers by size.
BySize(S) == {p \in S \X S : p[1] < p[2]}

LEMMA SizeDecides ==
  ASSUME NEW S, S \subseteq Int
  PROVE  Decides(BySize(S), S) /\ \A a, b \in S : <<a, b>> \in BySize(S) <=> a < b
  BY DEF Decides, BySize

-----------------------------------------------------------------------------
(* Lists of accounts: the pages gathered so far *)

LEMMA SortedList ==
  ASSUME NEW S \in SUBSET Ids
  PROVE  /\ Sorted(S) \in Seq(S)
         /\ \A i, j \in DOMAIN Sorted(S) : i < j => Sorted(S)[i] < Sorted(S)[j]
         /\ \A a \in S : \E i \in DOMAIN Sorted(S) : Sorted(S)[i] = a
<1>1. IsFiniteSet(S) /\ S \subseteq Int
  <2>1. IsFiniteSet(Ids) /\ Ids \subseteq Int
    BY MaxIdAssumption, FS_Interval DEF Ids
  <2> QED BY <2>1, FS_Subset
<1>2. PICK f : f \in InOrderOf(BySize(S), S)
  BY <1>1, SizeDecides, Arrangement
<1>3. f \in [1..Cardinality(S) -> S] /\ \A i, j \in DOMAIN f : i < j => f[i] < f[j]
  BY <1>1, <1>2, SizeDecides DEF InOrderOf
<1>4. /\ Sorted(S) \in [1..Cardinality(S) -> S]
      /\ \A i, j \in DOMAIN Sorted(S) : i < j => Sorted(S)[i] < Sorted(S)[j]
  BY <1>3 DEF Sorted
<1>5. Sorted(S) \in InOrderOf(BySize(S), S)
  BY <1>1, <1>4, SizeDecides DEF InOrderOf
<1> QED BY <1>1, <1>4, <1>5, SizeDecides, PlacedOnce

\* A page after those that end at key k.
LEMMA Appended ==
  ASSUME NEW s \in Seq(Ids), NEW t \in Seq(Ids), NEW k \in Nat,
         \A i, j \in DOMAIN s : i < j => s[i] < s[j],
         \A i, j \in DOMAIN t : i < j => t[i] < t[j],
         \A i \in DOMAIN s : s[i] <= k,
         \A i \in DOMAIN t : k < t[i]
  PROVE  /\ s \o t \in Seq(Ids)
         /\ \A i, j \in DOMAIN (s \o t) : i < j => (s \o t)[i] < (s \o t)[j]
         /\ \A i \in DOMAIN s : \E j \in DOMAIN (s \o t) : (s \o t)[j] = s[i]
         /\ \A i \in DOMAIN t : \E j \in DOMAIN (s \o t) : (s \o t)[j] = t[i]
         /\ \A j \in DOMAIN (s \o t) :
              \/ \E i \in DOMAIN s : (s \o t)[j] = s[i]
              \/ \E i \in DOMAIN t : (s \o t)[j] = t[i]
<1> DEFINE st == s \o t
<1>1. /\ st \in Seq(Ids) /\ DOMAIN st = 1..(Len(s) + Len(t))
      /\ DOMAIN s = 1..Len(s) /\ DOMAIN t = 1..Len(t)
      /\ Len(s) \in Nat /\ Len(t) \in Nat
      /\ \A i \in DOMAIN s : s[i] \in Nat
      /\ \A i \in DOMAIN t : t[i] \in Nat
  BY MaxIdAssumption DEF Ids
<1>2. \A j \in DOMAIN st : st[j] = IF j <= Len(s) THEN s[j] ELSE t[j - Len(s)]
  BY <1>1
<1> HIDE DEF st
<1>3. ASSUME NEW i \in DOMAIN st, NEW j \in DOMAIN st, i < j PROVE st[i] < st[j]
  <2>1. CASE j <= Len(s)
    BY <1>1, <1>2, <1>3, <2>1
  <2>2. CASE i <= Len(s) /\ ~(j <= Len(s))
    <3>1. st[i] = s[i] /\ st[j] = t[j - Len(s)] /\ i \in DOMAIN s /\ j - Len(s) \in DOMAIN t
      BY <1>1, <1>2, <2>2
    <3>2. s[i] <= k /\ k < t[j - Len(s)] /\ s[i] \in Nat /\ t[j - Len(s)] \in Nat
      BY <1>1, <3>1
    <3> QED BY <3>1, <3>2
  <2>3. CASE ~(i <= Len(s))
    <3>1. /\ i - Len(s) \in DOMAIN t /\ j - Len(s) \in DOMAIN t /\ i - Len(s) < j - Len(s)
          /\ st[i] = t[i - Len(s)] /\ st[j] = t[j - Len(s)]
      BY <1>1, <1>2, <1>3, <2>3
    <3> QED BY <3>1
  <2> QED BY <1>1, <2>1, <2>2, <2>3
<1>4. ASSUME NEW i \in DOMAIN s PROVE i \in DOMAIN st /\ st[i] = s[i]
  BY <1>1, <1>2
<1>5. ASSUME NEW i \in DOMAIN t PROVE i + Len(s) \in DOMAIN st /\ st[i + Len(s)] = t[i]
  BY <1>1, <1>2
<1>6. ASSUME NEW j \in DOMAIN st
      PROVE  \/ \E i \in DOMAIN s : st[j] = s[i]
             \/ \E i \in DOMAIN t : st[j] = t[i]
  BY <1>1, <1>2
<1> QED BY <1>1, <1>3, <1>4, <1>5, <1>6 DEF st

LEMMA ListingStart == ListingInit => ListingIInv
<1> SUFFICES ASSUME ListingInit PROVE ListingIInv
  OBVIOUS
<1>1. ListingTypeOK
  BY MaxIdAssumption DEF ListingInit, ListingTypeOK
<1>2. PagesSoFar
  BY DEF ListingInit, PagesSoFar
<1>3. ListedOnce
  BY DEF ListingInit, ListedOnce
<1> QED BY <1>1, <1>2, <1>3 DEF ListingIInv

\* What the pages of a list must be, for one request.
Gathered(q) ==
  /\ there[q] \subseteq kept \ lagging
  /\ gone[q] \cap (kept \cup lagging) = {}
  /\ listing[q] = "idle" => there[q] = {} /\ gone[q] = {} /\ startKey[q] = 0 /\ accs[q] = <<>>
  /\ listing[q] = "query" =>
       /\ {a \in there[q] : a <= startKey[q]} \subseteq Answered(q)
       /\ \A a \in Answered(q) : a <= startKey[q] /\ a \notin gone[q]
       /\ \A i, j \in DOMAIN accs[q] : i < j => accs[q][i] < accs[q][j]
  /\ listing[q] = "answered" =>
       /\ there[q] \subseteq Answered(q)
       /\ Answered(q) \cap gone[q] = {}
       /\ \A i, j \in DOMAIN accs[q] : i < j => accs[q][i] < accs[q][j]

LEMMA EachGathered == ListingIInv <=> ListingTypeOK /\ \A q \in Listings : Gathered(q)
  BY DEF ListingIInv, PagesSoFar, ListedOnce, Gathered

\* A write or a replica that catches up takes accounts from there and gone at most.
LEMMA WritesSafe ==
  ASSUME ListingIInv, NEW a \in Ids, PutAccount(a) \/ DeleteAccount(a) \/ CatchUp(a)
  PROVE  ListingIInv'
<1> USE DEF PutAccount, DeleteAccount, CatchUp, Changes, listVars
<1>1. ListingTypeOK /\ \A q \in Listings : Gathered(q)
  BY EachGathered
<1>2. ListingTypeOK'
  BY <1>1 DEF ListingTypeOK
<1>3. ASSUME NEW q \in Listings PROVE Gathered(q)'
  <2>1. UNCHANGED <<listing[q], startKey[q], accs[q]>> /\ Answered(q)' = Answered(q)
    BY DEF Answered
  <2>2. /\ there'[q] \subseteq there[q] /\ there'[q] \subseteq kept' \ lagging'
        /\ gone'[q] \subseteq gone[q] /\ gone'[q] \cap (kept' \cup lagging') = {}
    <3>1. Gathered(q)
      BY <1>1
    <3>2. CASE PutAccount(a) \/ DeleteAccount(a)
      <4>1. there'[q] = there[q] \ {a} /\ gone'[q] = gone[q] \ {a}
        BY <3>2
      <4> QED BY <3>1, <3>2, <4>1 DEF Gathered
    <3>3. CASE CatchUp(a)
      BY <3>1, <3>3 DEF Gathered
    <3> QED BY <3>2, <3>3
  <2> QED BY <1>1, <2>1, <2>2 DEF Gathered
<1> QED BY <1>2, <1>3 DEF ListingIInv, PagesSoFar, ListedOnce, Gathered

LEMMA ListSafe ==
  ASSUME ListingIInv, NEW q \in Listings, ListUserConfigs(q) \/ QueryFails(q)
  PROVE  ListingIInv'
<1> USE DEF ListUserConfigs, QueryFails, Fail
<1>1. ListingTypeOK /\ \A r \in Listings : Gathered(r)
  BY EachGathered
<1>2. ListingTypeOK'
  <2>1. kept \ lagging \in SUBSET Ids /\ Ids \ (kept \cup lagging) \in SUBSET Ids /\ <<>> \in Seq(Ids)
    BY <1>1 DEF ListingTypeOK
  <2>2. /\ listing' \in [Listings -> {"idle", "query", "answered", "failed"}]
        /\ UNCHANGED <<tableKind, kept, lagging, startKey>>
    BY <1>1 DEF ListingTypeOK
  <2>3. accs' \in [Listings -> Seq(Ids)]
    BY <1>1, <2>1 DEF ListingTypeOK
  <2>4. there' \in [Listings -> SUBSET Ids] /\ gone' \in [Listings -> SUBSET Ids]
    BY <1>1, <2>1 DEF ListingTypeOK
  <2> QED BY <1>1, <2>2, <2>3, <2>4 DEF ListingTypeOK
<1>3. ASSUME NEW r \in Listings PROVE Gathered(r)'
  <2>1. CASE r # q
    <3>1. UNCHANGED <<listing[r], startKey[r], accs[r], there[r], gone[r], kept, lagging>>
      BY <1>1, <2>1 DEF ListingTypeOK
    <3>2. Answered(r)' = Answered(r)
      BY <3>1 DEF Answered
    <3> QED BY <1>1, <3>1, <3>2 DEF Gathered
  <2>2. CASE r = q /\ ListUserConfigs(q)
    <3>1. /\ listing'[q] = "query" /\ there'[q] = kept \ lagging
          /\ gone'[q] = Ids \ (kept \cup lagging)
          /\ startKey'[q] = 0 /\ accs'[q] = <<>> /\ UNCHANGED <<kept, lagging>>
      BY <1>1, <2>2 DEF ListingTypeOK, Gathered
    <3>2. Answered(q)' = {}
      BY <3>1 DEF Answered
    <3>3. \A a \in Ids : ~(a <= 0)
      BY MaxIdAssumption DEF Ids
    <3>4. there'[q] \subseteq Ids
      BY <1>1, <3>1 DEF ListingTypeOK
    <3> QED BY <2>2, <3>1, <3>2, <3>3, <3>4 DEF Gathered
  <2>3. CASE r = q /\ QueryFails(q)
    <3>1. listing'[q] = "failed" /\ UNCHANGED <<there, gone, kept, lagging>>
      BY <1>1, <2>3 DEF ListingTypeOK
    <3> QED BY <1>1, <2>3, <3>1 DEF Gathered
  <2> QED BY <2>1, <2>2, <2>3
<1> QED BY <1>2, <1>3 DEF ListingIInv, PagesSoFar, ListedOnce, Gathered

LEMMA AnswerFromMapSafe ==
  ASSUME ListingIInv, NEW q \in Listings, AnswerFromMap(q)
  PROVE  ListingIInv'
<1> USE DEF AnswerFromMap
<1>1. ListingTypeOK /\ \A r \in Listings : Gathered(r)
  BY EachGathered
<1>2. /\ Sorted(kept) \in Seq(Ids)
      /\ \A i, j \in DOMAIN Sorted(kept) : i < j => Sorted(kept)[i] < Sorted(kept)[j]
      /\ {Sorted(kept)[i] : i \in DOMAIN Sorted(kept)} = kept
  <2>1. kept \in SUBSET Ids
    BY <1>1 DEF ListingTypeOK
  <2>2. \A i \in DOMAIN Sorted(kept) : Sorted(kept)[i] \in kept
    BY <2>1, SortedList
  <2> QED BY <2>1, <2>2, SortedList
<1>3. ListingTypeOK'
  BY <1>1, <1>2 DEF ListingTypeOK
<1>4. ASSUME NEW r \in Listings PROVE Gathered(r)'
  <2>1. CASE r # q
    <3>1. UNCHANGED <<listing[r], startKey[r], accs[r], there[r], gone[r], kept, lagging>>
      BY <1>1, <2>1 DEF ListingTypeOK
    <3>2. Answered(r)' = Answered(r)
      BY <3>1 DEF Answered
    <3> QED BY <1>1, <3>1, <3>2 DEF Gathered
  <2>2. CASE r = q
    <3>1. listing'[q] = "answered" /\ accs'[q] = Sorted(kept) /\ UNCHANGED <<there, gone, kept, lagging>>
      BY <1>1 DEF ListingTypeOK
    <3>2. Answered(q)' = kept
      BY <1>2, <3>1 DEF Answered
    <3> QED BY <1>1, <1>2, <2>2, <3>1, <3>2 DEF Gathered
  <2> QED BY <2>1, <2>2
<1> QED BY <1>3, <1>4 DEF ListingIInv, PagesSoFar, ListedOnce, Gathered

\* What one page adds, from a replica that has seen some of the lagging writes.
LEMMA QueryPageSafe ==
  ASSUME ListingIInv, NEW q \in Listings, QueryPage(q)
  PROVE  ListingIInv'
<1>1. ListingTypeOK /\ \A r \in Listings : Gathered(r)
  BY EachGathered
<1>2. PICK stale \in SUBSET lagging : LET seen == (kept \ lagging) \cup stale IN
        \E last \in {0} \cup {a \in seen : a > startKey[q]} :
          /\ accs' = [accs EXCEPT ![q] = @ \o Sorted(Page(q, seen, last))]
          /\ NextPage(q, last)
  BY DEF QueryPage
<1> DEFINE seen == (kept \ lagging) \cup stale
<1>3. PICK last \in {0} \cup {a \in seen : a > startKey[q]} :
        /\ accs' = [accs EXCEPT ![q] = @ \o Sorted(Page(q, seen, last))]
        /\ NextPage(q, last)
  BY <1>2
<1>4. /\ listing[q] = "query"
      /\ UNCHANGED <<tableKind, kept, lagging, there, gone>>
  BY DEF QueryPage
<1> DEFINE page == Page(q, seen, last)
           s == accs[q]
           t == Sorted(page)
<1>5. /\ seen \subseteq kept \cup lagging
      /\ kept \ lagging \subseteq seen /\ seen \subseteq Ids
      /\ Ids \subseteq Nat /\ startKey[q] \in Nat /\ last \in Nat
      /\ s \in Seq(Ids) /\ page \in SUBSET Ids
  <2>1. Ids \subseteq Nat /\ 0..MaxId \subseteq Nat
    BY MaxIdAssumption DEF Ids
  <2>2. kept \subseteq Ids /\ lagging \subseteq Ids /\ startKey[q] \in 0..MaxId /\ s \in Seq(Ids)
    BY <1>1 DEF ListingTypeOK
  <2>3. /\ seen \subseteq kept \cup lagging /\ kept \ lagging \subseteq seen
        /\ seen \subseteq Ids /\ last \in seen \cup {0}
    BY <2>2
  <2>4. page \in SUBSET Ids
    BY <2>3 DEF Page
  <2> HIDE DEF seen, page, s
  <2> QED BY <2>1, <2>2, <2>3, <2>4
<1>6. /\ t \in Seq(Ids) /\ \A i \in DOMAIN t : t[i] \in page
      /\ \A i, j \in DOMAIN t : i < j => t[i] < t[j]
      /\ \A a \in page : \E i \in DOMAIN t : t[i] = a
  <2> HIDE DEF page
  <2>1. /\ t \in Seq(page)
        /\ \A i, j \in DOMAIN t : i < j => t[i] < t[j]
        /\ \A a \in page : \E i \in DOMAIN t : t[i] = a
    BY <1>5, SortedList
  <2> HIDE DEF t
  <2>2. Len(t) \in Nat /\ DOMAIN t = 1..Len(t) /\ t = [i \in 1..Len(t) |-> t[i]]
    BY <2>1
  <2>3. \A i \in DOMAIN t : t[i] \in page
    BY <2>1
  <2>4. t \in [1..Len(t) -> Ids]
    BY <1>5, <2>2, <2>3
  <2> QED BY <2>1, <2>2, <2>3, <2>4
<1>7. \A i \in DOMAIN t : /\ t[i] \in seen /\ startKey[q] < t[i]
                          /\ last = 0 \/ t[i] <= last
  BY <1>5, <1>6 DEF Page
<1>8. /\ \A i, j \in DOMAIN s : i < j => s[i] < s[j]
      /\ \A i \in DOMAIN s : s[i] <= startKey[q] /\ s[i] \notin gone[q] /\ s[i] \in Ids
      /\ \A a \in there[q] : a <= startKey[q] => \E i \in DOMAIN s : s[i] = a
  BY <1>1, <1>4, <1>5 DEF Gathered, Answered
<1> DEFINE st == s \o t
<1> HIDE DEF seen, page, s, t, st
<1>9. /\ st \in Seq(Ids)
      /\ \A i, j \in DOMAIN st : i < j => st[i] < st[j]
      /\ \A i \in DOMAIN s : \E j \in DOMAIN st : st[j] = s[i]
      /\ \A i \in DOMAIN t : \E j \in DOMAIN st : st[j] = t[i]
      /\ \A j \in DOMAIN st : \/ \E i \in DOMAIN s : st[j] = s[i]
                              \/ \E i \in DOMAIN t : st[j] = t[i]
  BY <1>5, <1>6, <1>7, <1>8, Appended DEF st
<1>10. accs' = [accs EXCEPT ![q] = st]
  BY <1>3 DEF s, t, st, page
<1>11. IF last = 0 THEN listing' = [listing EXCEPT ![q] = "answered"] /\ startKey' = startKey
                   ELSE startKey' = [startKey EXCEPT ![q] = last] /\ listing' = listing
  BY <1>3 DEF NextPage
<1>12. last \in 0..MaxId /\ (last # 0 => startKey[q] < last)
  <2>1. last # 0 => last \in seen /\ last > startKey[q]
    BY <1>3
  <2> QED BY <1>5, <2>1, MaxIdAssumption DEF Ids
<1>13. ListingTypeOK'
  <2>1. listing' \in [Listings -> {"idle", "query", "answered", "failed"}]
    BY <1>1, <1>11 DEF ListingTypeOK
  <2>2. startKey' \in [Listings -> 0..MaxId]
    BY <1>1, <1>11, <1>12 DEF ListingTypeOK
  <2>3. accs' \in [Listings -> Seq(Ids)]
    BY <1>1, <1>9, <1>10 DEF ListingTypeOK
  <2> QED BY <1>1, <1>4, <2>1, <2>2, <2>3 DEF ListingTypeOK
<1>14. ASSUME NEW r \in Listings PROVE Gathered(r)'
  <2>1. CASE r # q
    <3>1. UNCHANGED <<listing[r], startKey[r], accs[r], there[r], gone[r], kept, lagging>>
      BY <1>1, <1>4, <1>10, <1>11, <2>1 DEF ListingTypeOK
    <3>2. Answered(r)' = Answered(r)
      BY <3>1 DEF Answered
    <3> QED BY <1>1, <3>1, <3>2 DEF Gathered
  <2>2. CASE r = q
    <3>1. accs'[q] = st /\ there'[q] = there[q] /\ gone'[q] = gone[q]
      BY <1>1, <1>4, <1>10 DEF ListingTypeOK
    <3>2. Answered(q)' = {st[i] : i \in DOMAIN st}
      BY <3>1 DEF Answered
    <3>3. \A i \in DOMAIN t : t[i] \notin gone[q]
      BY <1>1, <1>5, <1>7 DEF Gathered
    <3>4. \A j \in DOMAIN st : st[j] \notin gone[q]
      BY <1>8, <1>9, <3>3
    <3>5. ASSUME NEW a \in there[q], last = 0 \/ a <= last PROVE a \in Answered(q)'
      <4>1. a \in kept \ lagging /\ a \in seen /\ a \in Nat
        BY <1>1, <1>5 DEF Gathered
      <4>2. a <= startKey[q] \/ a \in page
        BY <1>5, <3>5, <4>1 DEF page, Page
      <4> QED BY <1>6, <1>8, <1>9, <3>2, <4>2
    <3>6. CASE last = 0
      <4>1. listing'[q] = "answered"
        BY <1>1, <1>11, <3>6 DEF ListingTypeOK
      <4>2. there'[q] \subseteq Answered(q)' /\ Answered(q)' \cap gone'[q] = {}
        BY <3>1, <3>2, <3>4, <3>5, <3>6
      <4> QED BY <1>1, <1>4, <1>9, <2>2, <3>1, <4>1, <4>2 DEF Gathered
    <3>7. CASE last # 0
      <4>1. listing'[q] = "query" /\ startKey'[q] = last
        BY <1>1, <1>4, <1>11, <3>7 DEF ListingTypeOK
      <4>2. ASSUME NEW j \in DOMAIN st PROVE st[j] <= last
        <5>1. startKey[q] \in Nat /\ last \in Nat /\ startKey[q] < last
          BY <1>5, <1>12, <3>7, MaxIdAssumption
        <5>2. CASE \E i \in DOMAIN s : st[j] = s[i]
          <6>1. st[j] <= startKey[q] /\ st[j] \in Nat
            BY <1>5, <1>8, <5>2
          <6> QED BY <5>1, <6>1
        <5>3. CASE \E i \in DOMAIN t : st[j] = t[i]
          BY <1>7, <3>7, <5>3
        <5> QED BY <1>9, <5>2, <5>3
      <4>3. \A a \in Answered(q)' : a <= startKey'[q] /\ a \notin gone'[q]
        BY <3>1, <3>2, <3>4, <4>1, <4>2
      <4>4. {a \in there'[q] : a <= startKey'[q]} \subseteq Answered(q)'
        BY <3>1, <3>5, <4>1
      <4> QED BY <1>1, <1>4, <1>9, <2>2, <3>1, <4>1, <4>3, <4>4 DEF Gathered
    <3> QED BY <3>6, <3>7
  <2> QED BY <2>1, <2>2
<1> QED BY <1>13, <1>14 DEF ListingIInv, PagesSoFar, ListedOnce, Gathered

LEMMA ListingStep == ListingIInv /\ [ListingNext]_listingVars => ListingIInv'
<1> SUFFICES ASSUME ListingIInv, [ListingNext]_listingVars PROVE ListingIInv'
  OBVIOUS
<1>1. CASE UNCHANGED listingVars
  BY <1>1 DEF listingVars, listVars, ListingIInv, ListingTypeOK, PagesSoFar, ListedOnce, Answered
<1> QED BY <1>1, WritesSafe, ListSafe, AnswerFromMapSafe, QueryPageSafe DEF ListingNext

-----------------------------------------------------------------------------
(* Searches: what sorting a sequence, or picking from it, gives *)

LEMMA AscendingOrder ==
  ASSUME NEW S, IsFiniteSet(S), S \subseteq Int
  PROVE  /\ Ascending(S) \in Seq(S) /\ Len(Ascending(S)) = Cardinality(S)
         /\ \A i, j \in DOMAIN Ascending(S) : i < j => Ascending(S)[i] < Ascending(S)[j]
         /\ \A i, j \in DOMAIN Ascending(S) : Ascending(S)[i] = Ascending(S)[j] => i = j
         /\ \A u \in S : \E i \in DOMAIN Ascending(S) : Ascending(S)[i] = u
<1>1. IsFiniteSet(S) /\ S \subseteq Int /\ Cardinality(S) \in Nat
  BY FS_CardinalityType
<1>2. PICK f : f \in InOrderOf(BySize(S), S)
  BY <1>1, SizeDecides, Arrangement
<1>3. /\ f \in [1..Cardinality(S) -> S] /\ Len(f) = Cardinality(S)
      /\ \A i, j \in 1..Cardinality(S) : i < j => f[i] < f[j]
      /\ \A i, j \in 1..Cardinality(S) : f[i] = f[j] => i = j
  <2>1. Decides(BySize(S), S) /\ f \in InOrderOf(BySize(S), S)
    BY <1>1, <1>2, SizeDecides
  <2>2. /\ Len(f) = Cardinality(S) /\ DOMAIN f = 1..Cardinality(S)
        /\ \A i, j \in DOMAIN f : f[i] = f[j] => i = j
    BY <1>1, <2>1, PlacedOnce
  <2>3. /\ f \in [1..Cardinality(S) -> S]
        /\ \A i, j \in 1..Cardinality(S) : i < j => <<f[i], f[j]>> \in BySize(S)
    BY <2>1 DEF InOrderOf
  <2>4. \A i \in 1..Cardinality(S) : f[i] \in S
    BY <2>3
  <2> QED BY <1>1, <2>2, <2>3, <2>4, SizeDecides
<1>4. f \in SetToSeqs(S) /\ IsSorted(f, LAMBDA a, b : a < b)
  BY <1>3 DEF SetToSeqs, IsSorted
<1>5. Ascending(S) \in SetToSeqs(S) /\ IsSorted(Ascending(S), LAMBDA a, b : a < b)
  BY <1>4 DEF Ascending, Arranged
<1>6. Ascending(S) \in InOrderOf(BySize(S), S)
  <2> DEFINE s == Ascending(S)
  <2>1. s \in [1..Cardinality(S) -> S] /\ IsSorted(s, LAMBDA a, b : a < b)
    BY <1>5 DEF SetToSeqs
  <2> HIDE DEF s
  <2>2. Len(s) = Cardinality(S) /\ \A i, j \in 1..Cardinality(S) : i < j => s[i] < s[j]
    BY <1>1, <2>1 DEF IsSorted
  <2>3. \A i \in 1..Cardinality(S) : s[i] \in S
    BY <2>1
  <2>4. s \in InOrderOf(BySize(S), S)
    BY <1>1, <2>1, <2>2, <2>3, SizeDecides DEF InOrderOf
  <2> QED BY <2>4 DEF s
<1>7. Decides(BySize(S), S)
  BY <1>1, SizeDecides
<1>8. /\ Ascending(S) \in Seq(S) /\ Len(Ascending(S)) = Cardinality(S)
      /\ DOMAIN Ascending(S) = 1..Cardinality(S)
      /\ \A i, j \in DOMAIN Ascending(S) : i < j => <<Ascending(S)[i], Ascending(S)[j]>> \in BySize(S)
      /\ \A i, j \in DOMAIN Ascending(S) : Ascending(S)[i] = Ascending(S)[j] => i = j
      /\ \A u \in S : \E i \in DOMAIN Ascending(S) : Ascending(S)[i] = u
  BY <1>1, <1>6, <1>7, PlacedOnce
<1> QED BY <1>8 DEF BySize

\* The elements at some positions, in the order of the positions.
LEMMA PickedElements ==
  ASSUME NEW s \in Seq(Uids), NEW P \in SUBSET DOMAIN s
  PROVE  /\ Picked(s, P) \in Seq(Uids) /\ Len(Picked(s, P)) = Cardinality(P)
         /\ \A i \in DOMAIN Picked(s, P) : \E k \in P : Picked(s, P)[i] = s[k]
         /\ \A k \in P : \E i \in DOMAIN Picked(s, P) : Picked(s, P)[i] = s[k]
         /\ \A i, j \in DOMAIN Picked(s, P) : i < j =>
              \E k, l \in P : k < l /\ Picked(s, P)[i] = s[k] /\ Picked(s, P)[j] = s[l]
<1> DEFINE order == Ascending(P)
           n == Cardinality(P)
           t == Picked(s, P)
<1>1. IsFiniteSet(P) /\ P \subseteq Int /\ n \in Nat
  <2>1. Len(s) \in Nat /\ DOMAIN s = 1..Len(s)
    OBVIOUS
  <2>2. IsFiniteSet(DOMAIN s)
    BY <2>1, FS_Interval
  <2>3. IsFiniteSet(P)
    BY <2>2, FS_Subset
  <2> QED BY <2>1, <2>3, FS_CardinalityType
<1>2. /\ order \in Seq(P) /\ Len(order) = n
      /\ \A i, j \in DOMAIN order : i < j => order[i] < order[j]
      /\ \A k \in P : \E i \in DOMAIN order : order[i] = k
  BY <1>1, AscendingOrder
<1>3. t = [k \in DOMAIN order |-> s[order[k]]]
  BY DEF Picked
<1> HIDE DEF order, n, t
<1>4. DOMAIN order = 1..n /\ \A k \in 1..n : order[k] \in P
  BY <1>1, <1>2
<1>5. \A k \in P : s[k] \in Uids
  OBVIOUS
<1>6. t \in [1..n -> Uids] /\ \A k \in 1..n : t[k] = s[order[k]]
  BY <1>3, <1>4, <1>5
<1>7. t \in Seq(Uids) /\ Len(t) = n /\ DOMAIN t = 1..n
  BY <1>1, <1>6
<1>8. /\ \A i \in DOMAIN t : \E k \in P : t[i] = s[k]
      /\ \A i, j \in DOMAIN t : i < j => \E k, l \in P : k < l /\ t[i] = s[k] /\ t[j] = s[l]
  <2>1. \A i \in 1..n : order[i] \in P /\ t[i] = s[order[i]]
    BY <1>4, <1>6
  <2>2. \A i, j \in 1..n : i < j => order[i] < order[j]
    BY <1>2, <1>4
  <2> QED BY <1>7, <2>1, <2>2
<1>9. \A k \in P : \E i \in DOMAIN t : t[i] = s[k]
  BY <1>2, <1>4, <1>6, <1>7
<1> QED BY <1>7, <1>8, <1>9 DEF t, n

\* Reversed values or not, the key decides like numbers do.
LEMMA LessOrders ==
  ASSUME value \in [Uids -> 1..MaxValue]
  PROVE  /\ \A a \in Uids : ~Less(a, a)
         /\ \A a, b, c \in Uids : Less(a, b) /\ Less(b, c) => Less(a, c)
         /\ \A a, b, c \in Uids : Less(a, b) => Less(a, c) \/ Less(c, b)
<1>1. \A a \in Uids : value[a] \in Int
  BY SearchBounds
<1> QED BY <1>1 DEF Less

LEMMA StablySorted ==
  ASSUME value \in [Uids -> 1..MaxValue], NEW s \in Seq(Uids)
  PROVE  /\ SortSummaries(s) \in Seq(Uids) /\ Len(SortSummaries(s)) = Len(s)
         /\ \A i \in DOMAIN SortSummaries(s) : \E k \in DOMAIN s : SortSummaries(s)[i] = s[k]
         /\ \A k \in DOMAIN s : \E i \in DOMAIN SortSummaries(s) : SortSummaries(s)[i] = s[k]
         /\ \A i, j \in DOMAIN SortSummaries(s) : i < j =>
              \E k, l \in DOMAIN s : k # l /\ ~Less(s[l], s[k])
                                     /\ SortSummaries(s)[i] = s[k] /\ SortSummaries(s)[j] = s[l]
<1> DEFINE n == Len(s)
           R == {p \in (1..n) \X (1..n) : StablyBefore(s, p[1], p[2])}
           order == Arranged(DOMAIN s, LAMBDA i, j : StablyBefore(s, i, j))
           t == SortSummaries(s)
<1>1. /\ n \in Nat /\ DOMAIN s = 1..n /\ \A i \in 1..n : s[i] \in Uids
      /\ IsFiniteSet(1..n) /\ Cardinality(1..n) = n
  <2>1. n \in Nat /\ DOMAIN s = 1..n /\ \A i \in 1..n : s[i] \in Uids
    OBVIOUS
  <2> HIDE DEF n
  <2>2. IsFiniteSet(1..n) /\ Cardinality(1..n) = n
    BY <2>1, FS_Interval
  <2> QED BY <2>1, <2>2
<1>2. \A i, j \in 1..n : <<i, j>> \in R <=> StablyBefore(s, i, j)
  OBVIOUS
<1>3. Decides(R, 1..n)
  <2> HIDE DEF R, n
  <2>1. \A i \in 1..n : ~StablyBefore(s, i, i)
    BY <1>1, LessOrders DEF StablyBefore
  <2>2. \A i, j, k \in 1..n : StablyBefore(s, i, j) /\ StablyBefore(s, j, k) => StablyBefore(s, i, k)
    BY <1>1, LessOrders DEF StablyBefore
  <2>3. \A i, j \in 1..n : i # j => StablyBefore(s, i, j) \/ StablyBefore(s, j, i)
    BY <1>1 DEF StablyBefore
  <2> QED BY <1>2, <2>1, <2>2, <2>3 DEF Decides
<1>4. PICK f : f \in InOrderOf(R, 1..n)
  BY <1>1, <1>3, Arrangement
<1>5. /\ f \in [1..n -> 1..n] /\ Len(f) = n
      /\ \A i, j \in 1..n : i < j => <<f[i], f[j]>> \in R
      /\ \A i, j \in 1..n : f[i] = f[j] => i = j
  <2>1. f \in [1..n -> 1..n] /\ \A i, j \in 1..n : i < j => <<f[i], f[j]>> \in R
    BY <1>1, <1>4 DEF InOrderOf
  <2>2. Len(f) = n /\ DOMAIN f = 1..n /\ \A i, j \in DOMAIN f : f[i] = f[j] => i = j
    BY <1>1, <1>3, <1>4, PlacedOnce
  <2> QED BY <2>1, <2>2
<1> HIDE DEF R
<1>6. f \in SetToSeqs(DOMAIN s) /\ IsSorted(f, LAMBDA i, j : StablyBefore(s, i, j))
  <2>1. \A i \in 1..n : f[i] \in 1..n
    BY <1>5
  <2>2. \A i, j \in 1..n : i < j => StablyBefore(s, f[i], f[j])
    BY <1>2, <1>5, <2>1
  <2> HIDE DEF n
  <2> QED BY <1>1, <1>5, <2>2 DEF SetToSeqs, IsSorted
<1>7. order \in SetToSeqs(DOMAIN s) /\ IsSorted(order, LAMBDA i, j : StablyBefore(s, i, j))
  BY <1>6 DEF Arranged
<1>8. t = [k \in DOMAIN order |-> s[order[k]]]
  BY DEF SortSummaries
<1> HIDE DEF n, order, t
<1>9. order \in [1..n -> 1..n]
  BY <1>1, <1>7 DEF SetToSeqs
<1>10. Len(order) = n /\ \A i, j \in 1..n : i < j => StablyBefore(s, order[i], order[j])
  <2>1. Len(order) = n
    BY <1>1, <1>9
  <2> QED BY <1>7, <2>1 DEF IsSorted
<1>11. order \in InOrderOf(R, 1..n)
  BY <1>1, <1>2, <1>9, <1>10 DEF InOrderOf
<1>12. /\ \A i, j \in 1..n : order[i] = order[j] => i = j
       /\ \A x \in 1..n : \E i \in 1..n : order[i] = x
  <2>1. /\ \A i, j \in DOMAIN order : order[i] = order[j] => i = j
        /\ \A x \in 1..n : \E i \in DOMAIN order : order[i] = x
    <3> DEFINE D == 1..n
    <3> HIDE DEF D
    <3>1. IsFiniteSet(D) /\ Decides(R, D) /\ order \in InOrderOf(R, D)
      BY <1>1, <1>3, <1>11 DEF D
    <3>2. /\ \A i, j \in DOMAIN order : order[i] = order[j] => i = j
          /\ \A x \in D : \E i \in DOMAIN order : order[i] = x
      BY <3>1, PlacedOnce
    <3> QED BY <3>2 DEF D
  <2>2. DOMAIN order = 1..n
    BY <1>9
  <2> QED BY <2>1, <2>2
<1>13. t \in [1..n -> Uids] /\ \A k \in 1..n : t[k] = s[order[k]] /\ order[k] \in 1..n
  BY <1>1, <1>8, <1>9
<1>14. t \in Seq(Uids) /\ Len(t) = n /\ DOMAIN t = 1..n
  BY <1>1, <1>13
<1>15. ASSUME NEW i \in 1..n, NEW j \in 1..n, i < j
       PROVE  order[i] # order[j] /\ ~Less(s[order[j]], s[order[i]])
  <2>1. StablyBefore(s, order[i], order[j]) /\ i # j
    BY <1>1, <1>10, <1>15
  <2>2. s[order[i]] \in Uids /\ s[order[j]] \in Uids
    BY <1>1, <1>13
  <2>3. Less(s[order[i]], s[order[j]]) => ~Less(s[order[j]], s[order[i]])
    BY <2>2, LessOrders
  <2> QED BY <1>12, <2>1, <2>3 DEF StablyBefore
<1>16. /\ \A i \in DOMAIN t : \E k \in DOMAIN s : t[i] = s[k]
       /\ \A k \in DOMAIN s : \E i \in DOMAIN t : t[i] = s[k]
       /\ \A i, j \in DOMAIN t : i < j =>
            \E k, l \in DOMAIN s : k # l /\ ~Less(s[l], s[k]) /\ t[i] = s[k] /\ t[j] = s[l]
  <2>1. \A i \in DOMAIN t : \E k \in DOMAIN s : t[i] = s[k]
    BY <1>1, <1>13, <1>14
  <2>2. ASSUME NEW k \in DOMAIN s PROVE \E i \in DOMAIN t : t[i] = s[k]
    <3>1. PICK i \in 1..n : order[i] = k
      BY <1>1, <1>12
    <3>2. i \in DOMAIN t /\ t[i] = s[k]
      BY <1>13, <1>14, <3>1
    <3> QED BY <3>2
  <2>3. ASSUME NEW i \in DOMAIN t, NEW j \in DOMAIN t, i < j
        PROVE  \E k, l \in DOMAIN s : k # l /\ ~Less(s[l], s[k]) /\ t[i] = s[k] /\ t[j] = s[l]
    <3>1. i \in 1..n /\ j \in 1..n /\ order[i] \in DOMAIN s /\ order[j] \in DOMAIN s
      BY <1>1, <1>13, <1>14
    <3>2. order[i] # order[j] /\ ~Less(s[order[j]], s[order[i]])
      BY <1>15, <2>3, <3>1
    <3> QED BY <1>13, <3>1, <3>2
  <2> QED BY <2>1, <2>2, <2>3
<1> QED BY <1>14, <1>16 DEF t, n

\* The limit keeps the first elements, and so none after one it drops.
LEMMA FirstOnes ==
  ASSUME limit \in 1..MaxLimit, NEW s \in Seq(Uids), IsInjective(s), NEW R,
         \A i, j \in DOMAIN s : i < j => <<s[j], s[i]>> \notin R
  PROVE  /\ Limited(s) \in Seq(Uids) /\ IsInjective(Limited(s))
         /\ Len(Limited(s)) = IF Len(s) <= limit THEN Len(s) ELSE limit
         /\ \A i, j \in DOMAIN Limited(s) : i < j => <<Limited(s)[j], Limited(s)[i]>> \notin R
         /\ ToSet(Limited(s)) \subseteq ToSet(s)
         /\ \A r \in ToSet(Limited(s)), u \in ToSet(s) : <<u, r>> \in R => u \in ToSet(Limited(s))
<1> DEFINE t == Limited(s)
           m == IF Len(s) <= limit THEN Len(s) ELSE limit
<1>1. limit \in Nat /\ Len(s) \in Nat /\ m \in Nat /\ m <= Len(s) /\ DOMAIN s = 1..Len(s)
  BY SearchBounds
<1>2. t \in Seq(Uids) /\ Len(t) = m /\ \A i \in 1..m : t[i] = s[i]
  BY <1>1 DEF Limited
<1> HIDE DEF t, m
<1>3. DOMAIN t = 1..m /\ 1..m \subseteq DOMAIN s
  BY <1>1, <1>2
<1>4. /\ \A i, j \in DOMAIN t : i < j => <<t[j], t[i]>> \notin R
      /\ \A i, j \in DOMAIN t : t[i] = t[j] => i = j
  BY <1>2, <1>3 DEF IsInjective
<1>5. ToSet(t) \subseteq ToSet(s)
  BY <1>2, <1>3 DEF ToSet
<1>6. ASSUME NEW r \in ToSet(t), NEW u \in ToSet(s), <<u, r>> \in R PROVE u \in ToSet(t)
  <2>1. PICK i \in DOMAIN t : t[i] = r
    BY DEF ToSet
  <2>2. PICK j \in DOMAIN s : s[j] = u
    BY DEF ToSet
  <2>3. s[i] = r /\ i \in 1..m /\ ~(i < j)
    BY <1>2, <1>3, <1>6, <2>1, <2>2
  <2>4. j \in 1..m /\ t[j] = u
    BY <1>1, <1>2, <2>2, <2>3
  <2> QED BY <1>3, <2>4 DEF ToSet
<1> QED BY <1>2, <1>4, <1>5, <1>6 DEF t, m, IsInjective

\* A sequence without repetition has as many elements as places.
LEMMA Counted ==
  ASSUME NEW s \in Seq(Uids), IsInjective(s)
  PROVE  Cardinality(ToSet(s)) = Len(s)
<1>1. Len(s) \in Nat /\ DOMAIN s = 1..Len(s)
  OBVIOUS
<1>2. IsFiniteSet(1..Len(s)) /\ Cardinality(1..Len(s)) = Len(s)
  BY <1>1, FS_Interval
<1>3. s \in [1..Len(s) -> ToSet(s)]
  BY <1>1 DEF ToSet
<1>4. s \in Surjection(1..Len(s), ToSet(s)) /\ s \in Injection(1..Len(s), ToSet(s))
  BY <1>1, <1>3 DEF Surjection, Injection, ToSet
<1> QED BY <1>2, <1>4, FS_Surjection

\* FETCH's answers, or SORT's: the messages, each once.
LEMMA SomeOrder ==
  ASSUME NEW S \in SUBSET Uids, NEW s \in SetToSeqs(S)
  PROVE  /\ s \in Seq(Uids) /\ IsInjective(s) /\ ToSet(s) = S
         /\ Len(s) = Cardinality(S) /\ Cardinality(S) \in Nat
<1> DEFINE n == Cardinality(S)
<1>1. IsFiniteSet(S)
  BY UidsAssumption, FS_Subset
<1>2. n \in Nat /\ IsFiniteSet(1..n) /\ Cardinality(1..n) = n
  BY <1>1, FS_CardinalityType, FS_Interval
<1>3. s \in [1..n -> S] /\ \A i, j \in 1..n : s[i] = s[j] => i = j
  BY DEF SetToSeqs
<1> HIDE DEF n
<1>4. s \in Injection(1..n, S)
  BY <1>3 DEF Injection, IsInjective
<1>5. s \in Surjection(1..n, S)
  BY <1>1, <1>2, <1>4, FS_Injection DEF n
<1>6. ToSet(s) = S
  BY <1>3, <1>5 DEF Surjection, ToSet
<1>7. s \in [1..n -> Uids]
  BY <1>3
<1>8. s \in Seq(Uids) /\ Len(s) = n
  BY <1>2, <1>7
<1> QED BY <1>2, <1>3, <1>6, <1>8 DEF n, IsInjective

LEMMA SearchOrders ==
  ASSUME NEW S \in SUBSET Uids
  PROVE  /\ SearchSequence(S) \in Seq(Uids) /\ IsInjective(SearchSequence(S))
         /\ ToSet(SearchSequence(S)) = S /\ Len(SearchSequence(S)) = Cardinality(S)
         /\ arrival => \A i, j \in DOMAIN SearchSequence(S) : i < j =>
              IF Reversed THEN SearchSequence(S)[i] > SearchSequence(S)[j]
                          ELSE SearchSequence(S)[i] < SearchSequence(S)[j]
<1> DEFINE s == Ascending(S)
           n == Cardinality(S)
           t == SearchSequence(S)
<1>1. IsFiniteSet(S) /\ S \subseteq Int /\ S \subseteq Uids /\ n \in Nat
  <2>1. IsFiniteSet(S)
    BY UidsAssumption, FS_Subset
  <2>2. n \in Nat
    BY <2>1, FS_CardinalityType
  <2> QED BY <2>1, <2>2, UidsAssumption
<1>2. /\ s \in Seq(S) /\ Len(s) = n
      /\ \A i, j \in DOMAIN s : i < j => s[i] < s[j]
      /\ \A i, j \in DOMAIN s : s[i] = s[j] => i = j
      /\ \A u \in S : \E i \in DOMAIN s : s[i] = u
  BY <1>1, AscendingOrder
<1>3. t = IF arrival /\ Reversed THEN Reverse(s) ELSE s
  BY DEF SearchSequence
<1> HIDE DEF s, n, t
<1>4. DOMAIN s = 1..n /\ \A i \in 1..n : s[i] \in S /\ s[i] \in Uids /\ s[i] \in Int
  <2>1. DOMAIN s = 1..n /\ \A i \in 1..n : s[i] \in S
    BY <1>1, <1>2
  <2> QED BY <1>1, <2>1
<1>5. CASE ~(arrival /\ Reversed)
  <2>1. s \in [1..n -> Uids]
    BY <1>2, <1>4
  <2>2. s \in Seq(Uids)
    BY <1>1, <2>1
  <2>3. ToSet(s) = S
    BY <1>2, <1>4 DEF ToSet
  <2> QED BY <1>2, <1>3, <1>5, <2>2, <2>3 DEF t, n, IsInjective
<1>6. CASE arrival /\ Reversed
  <2>1. t = [i \in 1..n |-> s[(n - i) + 1]]
    BY <1>2, <1>3, <1>6 DEF Reverse
  <2>2. \A i \in 1..n : (n - i) + 1 \in 1..n /\ t[i] = s[(n - i) + 1]
    BY <1>1, <2>1
  <2>3. t \in [1..n -> Uids] /\ \A i \in 1..n : t[i] \in S
    BY <1>4, <2>1, <2>2
  <2>4. t \in Seq(Uids) /\ Len(t) = n /\ DOMAIN t = 1..n
    BY <1>1, <2>3
  <2>5. \A i, j \in 1..n : i < j => t[i] > t[j]
    <3>1. \A i, j \in 1..n : i < j => (n - j) + 1 < (n - i) + 1
      BY <1>1
    <3>2. \A i, j \in 1..n : i < j => s[(n - j) + 1] < s[(n - i) + 1]
      BY <1>2, <1>4, <2>2, <3>1
    <3> QED BY <1>4, <2>2, <3>2
  <2>6. ASSUME NEW i \in 1..n, NEW j \in 1..n, t[i] = t[j] PROVE i = j
    <3>1. t[i] \in Int
      BY <1>4, <2>2
    <3> QED BY <2>5, <2>6, <3>1
  <2>7. ASSUME NEW u \in S PROVE \E i \in 1..n : t[i] = u
    <3>1. PICK k \in 1..n : s[k] = u
      BY <1>2, <1>4
    <3>2. (n - k) + 1 \in 1..n /\ (n - ((n - k) + 1)) + 1 = k
      BY <1>1
    <3> QED BY <2>2, <3>1, <3>2
  <2>8. ToSet(t) = S
    BY <2>3, <2>4, <2>7 DEF ToSet
  <2>9. IsInjective(t)
    BY <2>4, <2>6 DEF IsInjective
  <2> QED BY <1>6, <2>4, <2>5, <2>8, <2>9 DEF t, n
<1> QED BY <1>5, <1>6

\* Before, where serverSort says what has ordered the messages.
Ranked(a, b, serverSort) ==
  LET rank(u) == IF arrival /\ ~serverSort THEN u ELSE value[u]
  IN  IF Reversed THEN rank(a) > rank(b) ELSE rank(a) < rank(b)

LEMMA SearchStart == SearchInit => SearchIInv
<1> SUFFICES ASSUME SearchInit PROVE SearchIInv
  OBVIOUS
<1>1. SearchTypeOK
  <2>1. uids \in Seq(Uids) /\ summaries \in Seq(Uids) /\ matched \subseteq Uids
    BY DEF SearchInit
  <2>2. sorted \in BOOLEAN /\ phase \in {"none", "search", "fetch", "done", "failed"}
    BY DEF SearchInit
  <2> QED BY <2>1, <2>2 DEF SearchInit, SearchTypeOK
<1>2. phase # "fetch" /\ phase # "done" /\ summaries = <<>>
  BY DEF SearchInit
<1> QED BY <1>1, <1>2 DEF SearchIInv, FetchList, InOrder, BestFirst, CutToLimit

LEMMA FoundSafe ==
  ASSUME SearchIInv, NEW s \in Seq(Uids), NEW serverSort \in BOOLEAN,
         IsInjective(s), ToSet(s) = folder, Len(s) = Cardinality(folder),
         LimitBeforeFetch(serverSort) =>
           \A i, j \in DOMAIN s : i < j => ~Ranked(s[j], s[i], serverSort),
         Found(s, serverSort)
  PROVE  SearchIInv'
<1> DEFINE R == {p \in Uids \X Uids : Ranked(p[1], p[2], serverSort)}
           t == Limited(s)
<1>1. /\ phase = "search" /\ matched' = folder /\ sorted' = serverSort
      /\ uids' = IF LimitBeforeFetch(serverSort) THEN t ELSE s
      /\ phase' = IF s = <<>> THEN "done" ELSE "fetch"
      /\ UNCHANGED <<request, folder, summaries>> /\ summaries = <<>>
  BY DEF Found, SearchIInv
<1>2. /\ SearchTypeOK /\ folder \subseteq Uids /\ limit \in 1..MaxLimit
      /\ \A i \in DOMAIN s : s[i] \in Uids
  BY DEF SearchIInv, SearchTypeOK
<1>3. /\ LimitBeforeFetch(serverSort)' = LimitBeforeFetch(serverSort)
      /\ LimitBeforeFetch(sorted)' = LimitBeforeFetch(serverSort)
      /\ Wanted(matched)' = IF Len(s) <= limit THEN Len(s) ELSE limit
      /\ \A a, b : Before(a, b)' = Ranked(a, b, serverSort)
  BY <1>1 DEF LimitBeforeFetch, Wanted, request, Before, Ranked, Reversed
<1>4. LimitBeforeFetch(serverSort) =>
        /\ t \in Seq(Uids) /\ IsInjective(t)
        /\ Len(t) = IF Len(s) <= limit THEN Len(s) ELSE limit
        /\ \A i, j \in DOMAIN t : i < j => <<t[j], t[i]>> \notin R
        /\ ToSet(t) \subseteq ToSet(s)
        /\ \A r \in ToSet(t), u \in ToSet(s) : <<u, r>> \in R => u \in ToSet(t)
  <2> SUFFICES ASSUME LimitBeforeFetch(serverSort)
               PROVE  \A i, j \in DOMAIN s : i < j => <<s[j], s[i]>> \notin R
    BY <1>2, FirstOnes
  <2> QED BY <1>2
<1>5. \A a, b \in Uids : <<a, b>> \in R <=> Ranked(a, b, serverSort)
  OBVIOUS
<1> HIDE DEF R, t
<1>6. uids' \in Seq(Uids) /\ IsInjective(uids')
  BY <1>1, <1>4
<1>7. SearchTypeOK'
  BY <1>1, <1>2, <1>6 DEF SearchTypeOK, request
<1>8. FetchList'
  <2>1. CASE LimitBeforeFetch(serverSort)
    <3>1. uids' = t /\ \A i \in DOMAIN t : t[i] \in Uids
      BY <1>1, <1>4, <2>1
    <3>2. \A i, j \in 1..Len(t) : i < j => ~Ranked(t[j], t[i], serverSort)
      <4>1. DOMAIN t = 1..Len(t)
        BY <1>4, <2>1
      <4>2. \A i, j \in DOMAIN t : i < j => <<t[j], t[i]>> \notin R
        BY <1>4, <2>1
      <4> QED BY <1>5, <3>1, <4>1, <4>2
    <3>3. IsSorted(uids, LAMBDA a, b : ~Before(b, a))'
      BY <1>3, <3>1, <3>2 DEF IsSorted
    <3>4. \A r \in ToSet(t), u \in folder : Ranked(u, r, serverSort) => u \in ToSet(t)
      BY <1>2, <1>4, <1>5, <2>1
    <3>5. folder' \subseteq matched' /\ ToSet(uids') \subseteq matched' /\ Len(uids') = Wanted(matched)'
      BY <1>1, <1>3, <1>4, <2>1, <3>1
    <3>6. \A r \in ToSet(uids'), u \in matched' : Before(u, r)' => u \in ToSet(uids')
      BY <1>1, <1>3, <3>1, <3>4
    <3> QED BY <1>3, <1>6, <2>1, <3>3, <3>5, <3>6 DEF FetchList
  <2>2. CASE ~LimitBeforeFetch(serverSort)
    BY <1>1, <1>3, <1>6, <2>2 DEF FetchList
  <2> QED BY <2>1, <2>2
<1>9. (phase = "search" => summaries = <<>>)'
  BY <1>1
<1>10. InOrder' /\ BestFirst'
  BY <1>1 DEF InOrder, BestFirst, IsSorted, ToSet
<1>11. CutToLimit'
  <2> SUFFICES ASSUME s = <<>>
               PROVE  Cardinality(ToSet(summaries')) = Len(summaries') /\ Len(summaries') = Wanted(matched)'
    BY <1>1 DEF CutToLimit
  <2>1. Wanted(matched)' = 0 /\ Len(summaries') = 0 /\ ToSet(summaries') = {}
    BY <1>1, <1>2, <1>3, SearchBounds DEF ToSet
  <2> QED BY <2>1, FS_EmptySet
<1> QED BY <1>7, <1>8, <1>9, <1>10, <1>11 DEF SearchIInv

LEMMA ServerSortSafe == SearchIInv /\ ServerSort => SearchIInv'
<1> SUFFICES ASSUME SearchIInv, ServerSort PROVE SearchIInv'
  OBVIOUS
<1>1. PICK s \in SetToSeqs(folder) : IsSorted(s, LAMBDA a, b : ~Less(b, a)) /\ Found(s, TRUE)
  BY DEF ServerSort
<1>2. /\ s \in Seq(Uids) /\ IsInjective(s) /\ ToSet(s) = folder
      /\ Len(s) = Cardinality(folder)
  BY SomeOrder DEF SearchIInv, SearchTypeOK
<1>3. \A i, j \in DOMAIN s : i < j => ~Ranked(s[j], s[i], TRUE)
  BY <1>1, <1>2 DEF IsSorted, Less, Ranked
<1> QED BY <1>1, <1>2, <1>3, FoundSafe

LEMMA ClientSortSafe == SearchIInv /\ ClientSort => SearchIInv'
<1> SUFFICES ASSUME SearchIInv, ClientSort PROVE SearchIInv'
  OBVIOUS
<1> DEFINE s == SearchSequence(folder)
<1>1. /\ s \in Seq(Uids) /\ IsInjective(s) /\ ToSet(s) = folder
      /\ Len(s) = Cardinality(folder)
      /\ arrival => \A i, j \in DOMAIN s : i < j => IF Reversed THEN s[i] > s[j] ELSE s[i] < s[j]
  BY SearchOrders DEF SearchIInv, SearchTypeOK
<1>2. Found(s, FALSE)
  BY DEF ClientSort
<1> HIDE DEF s
<1>3. \A i \in DOMAIN s : s[i] \in Int
  <2>1. \A i \in DOMAIN s : s[i] \in Uids
    BY <1>1
  <2>2. Uids \subseteq Int
    BY UidsAssumption
  <2> QED BY <2>1, <2>2
<1>4. LimitBeforeFetch(FALSE) => \A i, j \in DOMAIN s : i < j => ~Ranked(s[j], s[i], FALSE)
  BY <1>1, <1>3 DEF LimitBeforeFetch, Ranked
<1> QED BY <1>1, <1>2, <1>4, FoundSafe

LEMMA ExpungeSafe ==
  ASSUME SearchIInv, NEW u \in Uids, Expunge(u)
  PROVE  SearchIInv'
<1>1. SearchTypeOK' /\ phase' = "fetch" /\ phase = "fetch"
  BY DEF SearchIInv, SearchTypeOK, Expunge, request
<1>2. FetchList'
  <2>1. /\ LimitBeforeFetch(sorted)' = LimitBeforeFetch(sorted)
        /\ Wanted(matched)' = Wanted(matched)
        /\ \A a, b : Before(a, b)' = Before(a, b)
        /\ UNCHANGED <<uids, matched>> /\ folder' \subseteq folder
    BY DEF Expunge, request, LimitBeforeFetch, Wanted, Before, Reversed
  <2>2. IsSorted(uids, LAMBDA a, b : ~Before(b, a))' = IsSorted(uids, LAMBDA a, b : ~Before(b, a))
    BY <2>1 DEF IsSorted
  <2> QED BY <1>1, <2>1, <2>2 DEF SearchIInv, FetchList
<1> QED BY <1>1, <1>2 DEF SearchIInv, InOrder, BestFirst, CutToLimit

\* With the limit applied before the fetch: the messages still there, in the order of uids.
LEMMA FetchOfFirst ==
  ASSUME SearchIInv, phase = "fetch", LimitBeforeFetch(sorted),
         NEW msgs \in SetToSeqs(ToSet(uids) \cap folder)
  PROVE  LET t == OrderByUIDs(msgs) IN
         /\ t \in Seq(Uids) /\ IsSorted(t, LAMBDA a, b : ~Before(b, a))
         /\ ToSet(t) = ToSet(uids) \cap folder
         /\ IsInjective(t)
         /\ matched \subseteq folder => Len(t) = Wanted(matched)
<1> DEFINE P == {i \in DOMAIN uids : Contains(msgs, uids[i])}
           t == OrderByUIDs(msgs)
<1>1. /\ uids \in Seq(Uids) /\ IsInjective(uids) /\ folder \subseteq Uids
      /\ \A i, j \in 1..Len(uids) : i < j => ~Before(uids[j], uids[i])
      /\ ToSet(uids) \subseteq matched /\ Len(uids) = Wanted(matched)
      /\ DOMAIN uids = 1..Len(uids)
  <2>1. uids \in Seq(Uids) /\ folder \subseteq Uids
    BY DEF SearchIInv, SearchTypeOK
  <2> QED BY <2>1 DEF SearchIInv, FetchList, IsSorted
<1>2. \A u : Contains(msgs, u) <=> u \in ToSet(uids) \cap folder
  <2>1. msgs \in Seq(Uids) /\ ToSet(msgs) = ToSet(uids) \cap folder
    BY <1>1, SomeOrder
  <2>2. DOMAIN msgs = 1..Len(msgs)
    BY <2>1
  <2>3. \A u : Contains(msgs, u) <=> u \in ToSet(msgs)
    BY <2>2 DEF Contains, ToSet
  <2> QED BY <2>1, <2>3
<1>3. P \in SUBSET DOMAIN uids /\ t = Picked(uids, P)
  BY DEF OrderByUIDs
<1>4. \A i \in DOMAIN uids : i \in P <=> uids[i] \in folder
  BY <1>2 DEF ToSet
<1> HIDE DEF P, t
<1>5. /\ t \in Seq(Uids) /\ Len(t) = Cardinality(P)
      /\ \A i \in DOMAIN t : \E k \in P : t[i] = uids[k]
      /\ \A k \in P : \E i \in DOMAIN t : t[i] = uids[k]
      /\ \A i, j \in DOMAIN t : i < j =>
           \E k, l \in P : k < l /\ t[i] = uids[k] /\ t[j] = uids[l]
  <2> DEFINE r == Picked(uids, P)
  <2>1. /\ r \in Seq(Uids) /\ Len(r) = Cardinality(P)
        /\ \A i \in DOMAIN r : \E k \in P : r[i] = uids[k]
        /\ \A k \in P : \E i \in DOMAIN r : r[i] = uids[k]
        /\ \A i, j \in DOMAIN r : i < j =>
             \E k, l \in P : k < l /\ r[i] = uids[k] /\ r[j] = uids[l]
    BY <1>1, <1>3, PickedElements
  <2> HIDE DEF r
  <2>2. t = r
    BY <1>3 DEF r
  <2> QED BY <2>1, <2>2
<1>6. ToSet(t) = ToSet(uids) \cap folder
  <2>1. \A i \in DOMAIN t : t[i] \in ToSet(uids) \cap folder
    BY <1>3, <1>4, <1>5 DEF ToSet
  <2>2. ASSUME NEW u \in ToSet(uids) \cap folder PROVE \E i \in DOMAIN t : t[i] = u
    <3>1. PICK k \in DOMAIN uids : uids[k] = u
      BY DEF ToSet
    <3>2. k \in P
      BY <1>4, <3>1
    <3> QED BY <1>5, <3>1, <3>2
  <2> QED BY <2>1, <2>2 DEF ToSet
<1>7. IsSorted(t, LAMBDA a, b : ~Before(b, a))
  <2>1. ASSUME NEW i \in DOMAIN t, NEW j \in DOMAIN t, i < j PROVE ~Before(t[j], t[i])
    <3>1. PICK k \in P, l \in P : k < l /\ t[i] = uids[k] /\ t[j] = uids[l]
      BY <1>5, <2>1
    <3> QED BY <1>1, <1>3, <3>1
  <2>2. DOMAIN t = 1..Len(t)
    BY <1>5
  <2> QED BY <2>1, <2>2 DEF IsSorted
<1>8. IsInjective(t)
  <2>1. ASSUME NEW i \in DOMAIN t, NEW j \in DOMAIN t, i < j PROVE t[i] # t[j]
    <3>1. PICK k \in P, l \in P : k < l /\ t[i] = uids[k] /\ t[j] = uids[l]
      BY <1>5, <2>1
    <3>2. k \in Int /\ l \in Int /\ k # l
      BY <1>1, <1>3, <3>1
    <3> QED BY <1>1, <1>3, <3>1, <3>2 DEF IsInjective
  <2>2. DOMAIN t \subseteq Int
    BY <1>5
  <2>3. \A i, j \in DOMAIN t : i = j \/ i < j \/ j < i
    BY <2>2
  <2> QED BY <2>1, <2>3 DEF IsInjective
<1>9. ASSUME matched \subseteq folder PROVE Len(t) = Wanted(matched)
  <2>1. P = 1..Len(uids)
    BY <1>1, <1>3, <1>4, <1>9 DEF ToSet
  <2>2. Len(uids) \in Nat
    BY <1>1
  <2> DEFINE n == Len(uids)
  <2> HIDE DEF n
  <2>3. n \in Nat
    BY <2>2 DEF n
  <2>4. Cardinality(1..n) = n
    BY <2>3, FS_Interval
  <2>5. Cardinality(1..Len(uids)) = Len(uids)
    BY <2>4 DEF n
  <2> QED BY <1>1, <1>5, <2>1, <2>5
<1> QED BY <1>5, <1>6, <1>7, <1>8, <1>9 DEF t

\* Without: the messages still there, sorted, and then cut.
LEMMA FetchOfAll ==
  ASSUME SearchIInv, phase = "fetch", ~LimitBeforeFetch(sorted),
         NEW msgs \in SetToSeqs(ToSet(uids) \cap folder)
  PROVE  LET t == Limited(SortSummaries(msgs)) IN
         /\ t \in Seq(Uids) /\ IsSorted(t, LAMBDA a, b : ~Before(b, a))
         /\ ToSet(t) \subseteq folder
         /\ \A r \in ToSet(t), u \in matched \cap folder : Before(u, r) => u \in ToSet(t)
         /\ IsInjective(t)
         /\ matched \subseteq folder => Len(t) = Wanted(matched)
<1> DEFINE s == SortSummaries(msgs)
           t == Limited(s)
           R == {p \in Uids \X Uids : Less(p[1], p[2])}
<1>1. /\ value \in [Uids -> 1..MaxValue] /\ limit \in 1..MaxLimit
      /\ ToSet(uids) = matched /\ matched \subseteq Uids
  BY DEF SearchIInv, SearchTypeOK, FetchList
<1>2. /\ msgs \in Seq(Uids) /\ IsInjective(msgs) /\ ToSet(msgs) = matched \cap folder
      /\ Len(msgs) = Cardinality(matched \cap folder)
  BY <1>1, SomeOrder
<1>3. /\ s \in Seq(Uids) /\ Len(s) = Len(msgs)
      /\ \A i \in DOMAIN s : \E k \in DOMAIN msgs : s[i] = msgs[k]
      /\ \A k \in DOMAIN msgs : \E i \in DOMAIN s : s[i] = msgs[k]
      /\ \A i, j \in DOMAIN s : i < j =>
           \E k, l \in DOMAIN msgs : k # l /\ ~Less(msgs[l], msgs[k])
                                     /\ s[i] = msgs[k] /\ s[j] = msgs[l]
  BY <1>1, <1>2, StablySorted
<1>4. \A a, b \in Uids : <<a, b>> \in R <=> Less(a, b)
  OBVIOUS
<1>5. \A a, b : Before(a, b) <=> Less(a, b)
  BY DEF Before, Less, LimitBeforeFetch
<1> HIDE DEF s, R
<1>6. ToSet(s) = matched \cap folder
  <2>1. ToSet(s) = ToSet(msgs)
    <3>1. \A i \in DOMAIN s : s[i] \in ToSet(msgs)
      BY <1>3 DEF ToSet
    <3>2. \A k \in DOMAIN msgs : msgs[k] \in ToSet(s)
      BY <1>3 DEF ToSet
    <3> QED BY <3>1, <3>2 DEF ToSet
  <2> QED BY <1>2, <2>1
<1>7. \A i, j \in DOMAIN s : i < j => s[i] # s[j] /\ <<s[j], s[i]>> \notin R
  <2>1. ASSUME NEW i \in DOMAIN s, NEW j \in DOMAIN s, i < j
        PROVE  s[i] # s[j] /\ <<s[j], s[i]>> \notin R
    <3>1. PICK k \in DOMAIN msgs, l \in DOMAIN msgs :
            k # l /\ ~Less(msgs[l], msgs[k]) /\ s[i] = msgs[k] /\ s[j] = msgs[l]
      BY <1>3, <2>1
    <3>2. msgs[k] # msgs[l]
      BY <1>2, <3>1 DEF IsInjective
    <3>3. s[i] \in Uids /\ s[j] \in Uids
      BY <1>3, <2>1
    <3> QED BY <1>4, <3>1, <3>2, <3>3
  <2> QED BY <2>1
<1>8. IsInjective(s)
  <2>1. \A i, j \in DOMAIN s : i = j \/ i < j \/ j < i
    BY <1>3
  <2> QED BY <1>7, <2>1 DEF IsInjective
<1>9. /\ t \in Seq(Uids) /\ IsInjective(t)
      /\ Len(t) = IF Len(s) <= limit THEN Len(s) ELSE limit
      /\ \A i, j \in DOMAIN t : i < j => <<t[j], t[i]>> \notin R
      /\ ToSet(t) \subseteq ToSet(s)
      /\ \A r \in ToSet(t), u \in ToSet(s) : <<u, r>> \in R => u \in ToSet(t)
  BY <1>1, <1>3, <1>7, <1>8, FirstOnes
<1> HIDE DEF t
<1>10. DOMAIN t = 1..Len(t) /\ \A i \in DOMAIN t : t[i] \in Uids
  BY <1>9
<1>11. IsSorted(t, LAMBDA a, b : ~Before(b, a))
  <2>1. \A i, j \in 1..Len(t) : i < j => ~Before(t[j], t[i])
    BY <1>4, <1>5, <1>9, <1>10
  <2> QED BY <2>1 DEF IsSorted
<1>12. \A r \in ToSet(t), u \in matched \cap folder : Before(u, r) => u \in ToSet(t)
  BY <1>1, <1>4, <1>5, <1>6, <1>9
<1>13. ToSet(t) \subseteq folder
  BY <1>6, <1>9
<1>14. ASSUME matched \subseteq folder PROVE Len(t) = Wanted(matched)
  <2>1. matched \cap folder = matched
    BY <1>14
  <2> QED BY <1>2, <1>3, <1>9, <2>1 DEF Wanted
<1> QED BY <1>9, <1>11, <1>12, <1>13, <1>14 DEF t, s

LEMMA FetchSafe == SearchIInv /\ Fetch => SearchIInv'
<1> SUFFICES ASSUME SearchIInv, Fetch PROVE SearchIInv'
  OBVIOUS
<1>1. PICK msgs \in SetToSeqs(ToSet(uids) \cap folder) :
        summaries' = IF LimitBeforeFetch(sorted) THEN OrderByUIDs(msgs)
                                                 ELSE Limited(SortSummaries(msgs))
  BY DEF Fetch
<1>2. phase = "fetch" /\ phase' = "done" /\ UNCHANGED <<request, folder, matched, sorted, uids>>
  BY DEF Fetch
<1>3. /\ Wanted(matched)' = Wanted(matched)
      /\ \A a, b : Before(a, b)' = Before(a, b)
  BY <1>2 DEF request, Wanted, Before, Reversed
<1>4. LimitBeforeFetch(sorted) =>
        /\ ToSet(uids) \subseteq matched
        /\ \A r \in ToSet(uids), u \in matched : Before(u, r) => u \in ToSet(uids)
  BY <1>2 DEF SearchIInv, FetchList
<1>5. /\ summaries' \in Seq(Uids)
      /\ IsSorted(summaries', LAMBDA a, b : ~Before(b, a))
      /\ \A r \in ToSet(summaries'), u \in matched \cap folder :
           Before(u, r) => u \in ToSet(summaries')
      /\ IsInjective(summaries')
      /\ matched \subseteq folder => Len(summaries') = Wanted(matched)
  <2>1. CASE LimitBeforeFetch(sorted)
    BY <1>1, <1>2, <1>4, <2>1, FetchOfFirst
  <2>2. CASE ~LimitBeforeFetch(sorted)
    BY <1>1, <1>2, <2>2, FetchOfAll
  <2> QED BY <2>1, <2>2
<1>6. SearchTypeOK'
  BY <1>2, <1>5 DEF SearchIInv, SearchTypeOK, request
<1>7. InOrder'
  BY <1>3, <1>5 DEF InOrder, IsSorted
<1>8. BestFirst'
  BY <1>2, <1>3, <1>5 DEF BestFirst
<1>9. CutToLimit'
  BY <1>2, <1>3, <1>5, Counted DEF CutToLimit
<1> QED BY <1>2, <1>6, <1>7, <1>8, <1>9 DEF SearchIInv, FetchList

LEMMA SearchStep == SearchIInv /\ [SearchNext]_searchVars => SearchIInv'
<1> SUFFICES ASSUME SearchIInv, [SearchNext]_searchVars PROVE SearchIInv'
  OBVIOUS
<1>1. CASE UNCHANGED searchVars
  BY <1>1 DEF searchVars, request, SearchIInv, SearchTypeOK, FetchList, InOrder, BestFirst,
              CutToLimit, LimitBeforeFetch, Wanted, Before, Reversed, IsSorted
<1>2. CASE SearchFails
  <2>1. SearchTypeOK' /\ phase' = "failed"
    BY <1>2 DEF SearchFails, SearchIInv, SearchTypeOK, request
  <2> QED BY <2>1 DEF SearchIInv, FetchList, InOrder, BestFirst, CutToLimit
<1> QED BY <1>1, <1>2, ServerSortSafe, ClientSortSafe, FetchSafe, ExpungeSafe DEF SearchNext

-----------------------------------------------------------------------------
(* Theorems *)

(***************************************************************************)
(* The inductive invariant of ListUserConfigs (store.go): there and gone   *)
(* stay on their sides of the table and its replicas, and the pages so far *)
(* hold, in order, all of the one up to the start key and none of the      *)
(* other.                                                                  *)
(***************************************************************************)
THEOREM ListingInductive == ListingSpec => []ListingIInv
  BY ListingStart, ListingStep, PTL DEF ListingSpec

(***************************************************************************)
(* A list has every account that was stored all the while, none that was   *)
(* not, and none twice: for any number of accounts and lists, whatever is  *)
(* written between the pages and wherever the pages end.                   *)
(***************************************************************************)
THEOREM ListsOnce == ListingSpec => []ListedOnce
<1>1. ListingIInv => ListedOnce
  BY DEF ListingIInv
<1> QED BY <1>1, ListingInductive, PTL

(***************************************************************************)
(* The inductive invariant of SearchEmails: the list to fetch is what the  *)
(* search found or, where the limit is applied to it, the first of it.     *)
(***************************************************************************)
THEOREM SearchInductive == SearchSpec => []SearchIInv
  BY SearchStart, SearchStep, PTL DEF SearchSpec

(***************************************************************************)
(* The answer is in the order asked for, for any messages, keys and limit, *)
(* however the server breaks ties and in whatever order it answers FETCH.  *)
(***************************************************************************)
THEOREM AnswersInOrder == SearchSpec => []InOrder
<1>1. SearchIInv => InOrder
  BY DEF SearchIInv
<1> QED BY <1>1, SearchInductive, PTL

(***************************************************************************)
(* The limit keeps the first ones of the messages still there, on each of  *)
(* the three ways of sorting.                                              *)
(***************************************************************************)
THEOREM AnswersBest == SearchSpec => []BestFirst
<1>1. SearchIInv => BestFirst
  BY DEF SearchIInv
<1> QED BY <1>1, SearchInductive, PTL

(***************************************************************************)
(* With nothing removed meanwhile the answer is as long as it can be, and  *)
(* has no message twice.                                                   *)
(***************************************************************************)
THEOREM AnswersFull == SearchSpec => []CutToLimit
<1>1. SearchIInv => CutToLimit
  BY DEF SearchIInv
<1> QED BY <1>1, SearchInductive, PTL
=============================================================================
