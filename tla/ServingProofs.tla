---------------------------- MODULE ServingProofs ----------------------------
(***************************************************************************)
(* Proofs about the lists a client is served and about the process that    *)
(* serves them: Listing for lists of any length and limits of any size,    *)
(* Server for any requests.  The two share no state.                       *)
(***************************************************************************)
EXTENDS Listing, Server, FiniteSetTheorems, SequenceTheorems, FunctionTheorems, TLAPS

-----------------------------------------------------------------------------
(***************************************************************************)
(* The place of a row: how many of the found rows come before it.          *)
(***************************************************************************)
Ahead(name, S, i) == {j \in S : Before(name, j, i)}
Place(name, S, i) == Cardinality(Ahead(name, S, i))

LEMMA RowsFinite ==
  ASSUME NEW S \in SUBSET Rows
  PROVE  IsFiniteSet(S) /\ Cardinality(S) \in Nat /\ S \subseteq Int
<1>1. IsFiniteSet(Rows)
  BY NAssumption, FS_Interval DEF Rows
<1>2. IsFiniteSet(S)
  BY <1>1, FS_Subset
<1> QED BY <1>2, FS_CardinalityType, NAssumption DEF Rows

(* No row comes before itself, and of two names one comes before the other. *)
LEMMA BeforeOrders ==
  ASSUME NEW name, NEW i \in Rows, NEW j \in Rows, NEW k \in Rows
  PROVE  /\ ~Before(name, i, i)
         /\ Before(name, i, j) => ~Before(name, j, i)
         /\ Before(name, i, j) /\ Before(name, j, k) => Before(name, i, k)
         /\ name \in ByName /\ i # j => Before(name, i, j) \/ Before(name, j, i)
<1>1. i \in Int /\ j \in Int /\ k \in Int
  BY NAssumption DEF Rows
<1>2. Moment[i] \in Nat /\ Moment[j] \in Nat /\ Moment[k] \in Nat
  BY MomentAssumption
<1> QED BY <1>1, <1>2 DEF Before

LEMMA PlaceType ==
  ASSUME NEW name, NEW S \in SUBSET Rows, NEW i
  PROVE  /\ IsFiniteSet(Ahead(name, S, i))
         /\ Place(name, S, i) \in Nat
<1>1. Ahead(name, S, i) \in SUBSET Rows
  BY DEF Ahead
<1> QED BY <1>1, RowsFinite DEF Place

(* More rows, later places.                                                 *)
LEMMA PlaceGrows ==
  ASSUME NEW name, NEW T \in SUBSET Rows, NEW S \in SUBSET T, NEW i
  PROVE  Place(name, S, i) <= Place(name, T, i)
<1>1. Ahead(name, S, i) \in SUBSET Ahead(name, T, i)
  BY DEF Ahead
<1>2. IsFiniteSet(Ahead(name, T, i))
  BY PlaceType
<1> QED BY <1>1, <1>2, FS_Subset DEF Place

(* Places increase along the list and stay below its length.                *)
LEMMA PlaceOrders ==
  ASSUME NEW name, NEW S \in SUBSET Rows, NEW i \in S, NEW j \in S
  PROVE  /\ Before(name, i, j) => Place(name, S, i) < Place(name, S, j)
         /\ name \in ByName /\ Place(name, S, i) = Place(name, S, j) => i = j
         /\ Place(name, S, i) < Cardinality(S)
<1>2. ASSUME NEW a \in S, NEW b \in S, Before(name, a, b)
      PROVE  Place(name, S, a) < Place(name, S, b)
  <2>1. a \notin Ahead(name, S, a)
    BY BeforeOrders DEF Ahead
  <2>2. Ahead(name, S, a) \cup {a} \in SUBSET Ahead(name, S, b)
    BY <1>2, BeforeOrders DEF Ahead
  <2>3. Cardinality(Ahead(name, S, a) \cup {a}) = Place(name, S, a) + 1
    BY <2>1, PlaceType, FS_AddElement DEF Place
  <2>4. Cardinality(Ahead(name, S, a) \cup {a}) <= Place(name, S, b)
    BY <2>2, PlaceType, FS_Subset DEF Place
  <2> QED BY <2>3, <2>4, PlaceType
<1>3. name \in ByName /\ Place(name, S, i) = Place(name, S, j) => i = j
  BY <1>2, BeforeOrders, PlaceType
<1>4. Place(name, S, i) < Cardinality(S)
  <2>1. Ahead(name, S, i) \in SUBSET S /\ i \in S \ Ahead(name, S, i)
    BY BeforeOrders DEF Ahead
  <2>2. IsFiniteSet(S) /\ Cardinality(S) \in Nat
    BY RowsFinite
  <2>3. Cardinality(Ahead(name, S, i)) <= Cardinality(S)
        /\ (Cardinality(S) = Cardinality(Ahead(name, S, i)) => S = Ahead(name, S, i))
    BY <2>1, <2>2, FS_Subset
  <2> QED BY <2>1, <2>2, <2>3, PlaceType DEF Place
<1> QED BY <1>2, <1>3, <1>4

(* Names can be put in order.                                               *)
LEMMA NamesSort ==
  ASSUME NEW name \in ByName, NEW S \in SUBSET Rows
  PROVE  Sortings(name, S) # {}
<1> DEFINE n == Cardinality(S)
           r == [i \in S |-> Place(name, S, i) + 1]
<1>0. n \in Nat /\ IsFiniteSet(S)
  BY RowsFinite
<1>1. r \in [S -> 1 .. n]
  BY <1>0, PlaceOrders, PlaceType
<1>2. \A i, j \in S : r[i] = r[j] => i = j
  <2> SUFFICES ASSUME NEW i \in S, NEW j \in S, r[i] = r[j] PROVE i = j
    OBVIOUS
  <2>1. Place(name, S, i) = Place(name, S, j)
    BY PlaceType
  <2> QED BY <2>1, PlaceOrders
<1>3. r \in Injection(S, 1 .. n)
  BY <1>1, <1>2, Fun_IsInj
<1>4. IsFiniteSet(1 .. n) /\ Cardinality(1 .. n) = n
  BY <1>0, FS_Interval
<1>5. r \in Surjection(S, 1 .. n)
  BY <1>3, <1>4, FS_Injection
<1>6. \A k \in 1 .. n : \E i \in S : r[i] = k
  <2> HIDE DEF r
  <2> QED BY <1>5 DEF Surjection
<1> DEFINE s == [k \in 1 .. n |-> CHOOSE i \in S : r[i] = k]
<1>7. s \in [1 .. n -> S] /\ \A k \in 1 .. n : r[s[k]] = k
  BY <1>6
<1>8. ASSUME NEW i \in 1 .. n, NEW j \in 1 .. n
      PROVE  /\ i # j => s[i] # s[j]
             /\ i < j => ~Before(name, s[j], s[i])
  <2>1. s[i] \in S /\ s[j] \in S
    BY <1>7
  <2> HIDE DEF s
  <2>2. r[s[i]] = Place(name, S, s[i]) + 1 /\ r[s[j]] = Place(name, S, s[j]) + 1
    BY <2>1
  <2> HIDE DEF r
  <2>3. i < j => Place(name, S, s[i]) < Place(name, S, s[j])
    BY <1>7, <2>2, PlaceType
  <2>4. i < j => ~Before(name, s[j], s[i])
    BY <2>1, <2>3, PlaceOrders, PlaceType
  <2> QED BY <1>7, <2>4
<1>9. DOMAIN s = 1 .. n
  OBVIOUS
<1> HIDE DEF s, r
<1>10. s \in SetToSeqs(S)
  BY <1>7, <1>8 DEF SetToSeqs
<1>11. s \in Sortings(name, S)
  BY <1>8, <1>9, <1>10 DEF Sortings
<1> QED BY <1>11

(* However equal rows are sorted, each row comes after those before it and  *)
(* before those behind it: one that no other equals, at its place.          *)
IsSorting(s, name, S) ==
    /\ s \in Seq(Rows) /\ Len(s) = Cardinality(S)
    /\ \A k \in 1 .. Len(s) :
          /\ s[k] \in S
          /\ InPlace(name, S, s[k], k)
          /\ Alone(name, s[k]) => Place(name, S, s[k]) = k - 1
    /\ \A i \in S : \E k \in 1 .. Len(s) : s[k] = i
    /\ \A k, m \in 1 .. Len(s) : s[k] = s[m] => k = m

LEMMA SortingOfRows ==
  ASSUME NEW name, NEW S \in SUBSET Rows, NEW s \in Sortings(name, S)
  PROVE  IsSorting(s, name, S)
<1> DEFINE n == Cardinality(S)
<1>0. n \in Nat /\ IsFiniteSet(S)
  BY RowsFinite
<1>1. /\ s \in [1 .. n -> S]
      /\ \A i, j \in 1 .. n : i # j => s[i] # s[j]
      /\ \A i, j \in 1 .. n : i < j => ~Before(name, s[j], s[i])
  <2>1. s \in SetToSeqs(S) /\ \A i, j \in DOMAIN s : i < j => ~Before(name, s[j], s[i])
    BY DEF Sortings
  <2>2. s \in [1 .. n -> S] /\ \A i, j \in 1 .. n : i # j => s[i] # s[j]
    BY <2>1 DEF SetToSeqs
  <2> QED BY <2>1, <2>2
<1>2. s \in Injection(1 .. n, S)
  BY <1>1, Fun_IsInj
<1>3. IsFiniteSet(1 .. n) /\ Cardinality(1 .. n) = n
  BY <1>0, FS_Interval
<1>4. s \in Surjection(1 .. n, S)
  BY <1>0, <1>2, <1>3, FS_Injection
<1>5. \A i \in S : \E k \in 1 .. n : s[k] = i
  BY <1>4 DEF Surjection
<1>6. ASSUME NEW m \in 0 .. n
      PROVE  LET First == {s[a] : a \in 1 .. m} IN
             First \in SUBSET S /\ IsFiniteSet(First) /\ Cardinality(First) = m
  <2> DEFINE First == {s[a] : a \in 1 .. m}
             f == [a \in 1 .. m |-> s[a]]
  <2>1. First \in SUBSET S
    BY <1>0, <1>1
  <2>2. IsFiniteSet(First)
    BY <1>0, <2>1, FS_Subset
  <2>3. f \in [1 .. m -> First] /\ \A a, b \in 1 .. m : f[a] = f[b] => a = b
    BY <1>0, <1>1
  <2>4. \A i \in First : \E a \in 1 .. m : f[a] = i
    OBVIOUS
  <2>5. f \in Bijection(1 .. m, First)
    BY <2>3, <2>4, Fun_IsBij
  <2>6. IsFiniteSet(1 .. m) /\ Cardinality(1 .. m) = m
    BY <1>0, FS_Interval
  <2>7. Cardinality(First) = m
    BY <2>5, <2>6, FS_Bijection, Fun_ExistsBij
  <2> QED BY <2>1, <2>2, <2>7
<1>7. ASSUME NEW k \in 1 .. n
      PROVE  /\ InPlace(name, S, s[k], k)
             /\ Alone(name, s[k]) => Place(name, S, s[k]) = k - 1
  <2> DEFINE A == Ahead(name, S, s[k])
             B == {j \in S : ~Before(name, s[k], j)}
             Low == {s[a] : a \in 1 .. k - 1}
             Up == {s[a] : a \in 1 .. k}
  <2>0. k \in Nat /\ k - 1 \in 0 .. n /\ k \in 0 .. n /\ s[k] \in S /\ s[k] \in Rows
    BY <1>0, <1>1
  <2>1. A \in SUBSET Low
    <3> SUFFICES ASSUME NEW i \in A PROVE i \in Low
      OBVIOUS
    <3>1. i \in S /\ Before(name, i, s[k])
      BY DEF Ahead
    <3>2. PICK a \in 1 .. n : s[a] = i
      BY <1>5, <3>1
    <3>3. ~(k < a)
      BY <1>1, <3>1, <3>2
    <3>4. a # k
      BY <2>0, <3>1, <3>2, BeforeOrders
    <3> QED BY <1>0, <2>0, <3>2, <3>3, <3>4
  <2>2. Up \in SUBSET B
    <3> SUFFICES ASSUME NEW a \in 1 .. k PROVE s[a] \in B
      OBVIOUS
    <3>1. a \in 1 .. n /\ s[a] \in S /\ (a = k \/ a < k)
      BY <1>0, <1>1, <2>0
    <3>2. a < k => ~Before(name, s[k], s[a])
      BY <1>1, <3>1
    <3>3. a = k => ~Before(name, s[k], s[a])
      BY <2>0, BeforeOrders
    <3> QED BY <3>1, <3>2, <3>3
  <2>3. IsFiniteSet(Low) /\ Cardinality(Low) = k - 1 /\ Cardinality(Up) = k
    BY <1>6, <2>0
  <2>4. IsFiniteSet(B) /\ Cardinality(B) \in Nat /\ IsFiniteSet(A) /\ Cardinality(A) \in Nat
    <3>1. B \in SUBSET Rows
      OBVIOUS
    <3> QED BY <3>1, RowsFinite, PlaceType DEF Place
  <2>5. Cardinality(A) <= k - 1
    <3> HIDE DEF A, Low
    <3> QED BY <2>1, <2>3, FS_Subset
  <2>6. k <= Cardinality(B)
    <3> HIDE DEF B, Up
    <3> QED BY <2>2, <2>3, <2>4, FS_Subset
  <2>7. A = {j \in S : Before(name, j, s[k])} /\ Place(name, S, s[k]) = Cardinality(A)
    BY DEF Ahead, Place
  <2>8. InPlace(name, S, s[k], k)
    <3>1. Cardinality(A) < k
      BY <2>0, <2>4, <2>5
    <3> QED BY <2>6, <2>7, <3>1 DEF InPlace
  <2>9. ASSUME Alone(name, s[k]) PROVE Place(name, S, s[k]) = k - 1
    <3>1. s[k] \notin A
      BY <2>0, BeforeOrders DEF Ahead
    <3>2. B \in SUBSET A \cup {s[k]}
      BY <2>9 DEF Alone, Ahead
    <3> HIDE DEF A, B
    <3>3. Cardinality(A \cup {s[k]}) = Cardinality(A) + 1 /\ IsFiniteSet(A \cup {s[k]})
      BY <2>4, <3>1, FS_AddElement
    <3>4. Cardinality(B) <= Cardinality(A) + 1
      BY <3>2, <3>3, FS_Subset
    <3> QED BY <2>0, <2>4, <2>5, <2>6, <2>7, <3>4
  <2> QED BY <2>8, <2>9
<1>8. s \in Seq(S) /\ Len(s) = n
  BY <1>0, <1>1
<1>9. s \in Seq(Rows)
  BY <1>8, SeqMonotonic
<1> QED BY <1>0, <1>1, <1>5, <1>7, <1>8, <1>9 DEF IsSorting

-----------------------------------------------------------------------------
(***************************************************************************)
(* A page is the part of the list between two places.                      *)
(***************************************************************************)
PageEnd(n, offset, limit) == IF offset + limit < n THEN offset + limit ELSE n

IsPart(pg, s, offset, end) ==
    /\ pg \in Seq(Rows)
    /\ Len(pg) = IF offset + 1 <= end THEN end - offset ELSE 0
    /\ \A k \in 1 .. end - offset : pg[k] = s[offset + k]

LEMMA PartOfList ==
  ASSUME NEW s \in Seq(Rows), NEW offset \in Nat, NEW end \in 0 .. Len(s)
  PROVE  IsPart(SubSeq(s, offset + 1, end), s, offset, end)
<1> DEFINE page == SubSeq(s, offset + 1, end)
<1>1. \A k \in offset + 1 .. end : s[k] \in Rows
  OBVIOUS
<1>2. offset + 1 \in Int /\ end \in Int
  OBVIOUS
<1>3. /\ page \in Seq(Rows)
      /\ Len(page) = IF offset + 1 <= end THEN end - (offset + 1) + 1 ELSE 0
      /\ \A k \in 1 .. end - (offset + 1) + 1 : page[k] = s[offset + 1 + k - 1]
  BY <1>1, <1>2, SubSeqProperties
<1> HIDE DEF page
<1>4. \A k \in 1 .. end - offset : page[k] = s[offset + k]
  <2> SUFFICES ASSUME NEW k \in 1 .. end - offset PROVE page[k] = s[offset + k]
    OBVIOUS
  <2>1. k \in 1 .. end - (offset + 1) + 1 /\ offset + 1 + k - 1 = offset + k
    BY <1>2
  <2> QED BY <1>3, <2>1
<1>5. IsPart(page, s, offset, end)
  BY <1>2, <1>3, <1>4 DEF IsPart
<1> QED BY <1>5 DEF page

(* A page is as long as it can be, and each row is where it may come.       *)
IsPage(pg, name, S, offset, limit) ==
    /\ pg \in Seq(Rows)
    /\ Len(pg) = IF offset < Cardinality(S)
                 THEN PageEnd(Cardinality(S), offset, limit) - offset ELSE 0
    /\ \A k \in 1 .. Len(pg) :
           /\ pg[k] \in S
           /\ InPlace(name, S, pg[k], offset + k)
           /\ Alone(name, pg[k]) => Place(name, S, pg[k]) = offset + k - 1
           /\ k <= limit
    /\ \A i \in S : /\ Alone(name, i)
                     /\ offset <= Place(name, S, i)
                     /\ Place(name, S, i) < offset + limit
                   => \E k \in 1 .. Len(pg) : pg[k] = i

LEMMA PageOfSorting ==
  ASSUME NEW name, NEW S \in SUBSET Rows, NEW s \in Sortings(name, S),
         NEW offset \in Nat, NEW limit \in Nat \ {0}
  PROVE  IsPage(Page(s, offset, limit), name, S, offset, limit)
<1> DEFINE end == PageEnd(Len(s), offset, limit)
           page == SubSeq(s, offset + 1, end)
<1>1. /\ s \in Seq(Rows) /\ Len(s) = Cardinality(S) /\ Cardinality(S) \in Nat
      /\ \A k \in 1 .. Len(s) :
            /\ s[k] \in Rows /\ s[k] \in S /\ InPlace(name, S, s[k], k)
            /\ Alone(name, s[k]) => Place(name, S, s[k]) = k - 1
      /\ \A i \in S : \E k \in 1 .. Len(s) : s[k] = i
  BY SortingOfRows, RowsFinite DEF IsSorting
<1>2. end \in Nat /\ end <= Len(s) /\ end <= offset + limit
  BY <1>1 DEF PageEnd
<1>3. /\ end = offset + limit \/ end = Len(s)
      /\ offset < Len(s) <=> offset + 1 <= end
      /\ end = PageEnd(Cardinality(S), offset, limit)
  BY <1>1 DEF PageEnd
<1> HIDE DEF end
<1>4. /\ page \in Seq(Rows)
      /\ Len(page) = IF offset + 1 <= end THEN end - offset ELSE 0
      /\ \A k \in 1 .. end - offset : page[k] = s[offset + k]
  <2>1. end \in 0 .. Len(s)
    BY <1>1, <1>2
  <2> QED BY <1>1, <2>1, PartOfList DEF IsPart
<1> HIDE DEF page
<1>5. ASSUME NEW k \in 1 .. Len(page)
      PROVE  /\ page[k] \in S /\ InPlace(name, S, page[k], offset + k)
             /\ Alone(name, page[k]) => Place(name, S, page[k]) = offset + k - 1
             /\ k <= limit
  <2>1. k \in 1 .. end - offset /\ offset + k \in 1 .. Len(s) /\ k <= limit
    BY <1>1, <1>2, <1>4
  <2> QED BY <2>1, <1>1, <1>4
<1>6. ASSUME NEW i \in S, Alone(name, i),
             offset <= Place(name, S, i), Place(name, S, i) < offset + limit
      PROVE  \E k \in 1 .. Len(page) : page[k] = i
  <2>1. PICK m \in 1 .. Len(s) : s[m] = i
    BY <1>1
  <2>2. Place(name, S, i) = m - 1
    BY <2>1, <1>1, <1>6
  <2>a. m \in Nat /\ end \in Nat /\ offset < m /\ m <= end
    BY <2>2, <1>1, <1>2, <1>3, <1>6
  <2>3. m - offset \in 1 .. Len(page) /\ m - offset \in 1 .. end - offset
    BY <2>a, <1>4
  <2>4. page[m - offset] = s[offset + (m - offset)] /\ offset + (m - offset) = m
    BY <2>3, <1>4
  <2> QED BY <2>1, <2>3, <2>4
<1>7. page = Page(s, offset, limit)
  BY DEF page, end, Page, PageEnd
<1>8. Len(page) = IF offset < Cardinality(S)
                  THEN PageEnd(Cardinality(S), offset, limit) - offset ELSE 0
  BY <1>1, <1>3, <1>4
<1>9. IsPage(page, name, S, offset, limit)
  BY <1>4, <1>5, <1>6, <1>8 DEF IsPage
<1> QED BY <1>7, <1>9

(* The web interface counts pages where the API counts rows.                *)
LEMMA Division ==
  ASSUME NEW t \in Nat, NEW l \in Nat \ {0}, NEW p \in Nat \ {0}
  PROVE  /\ (t + l - 1) \div l \in Nat
         /\ p < (t + l - 1) \div l <=> p * l < t
<1> DEFINE c == (t + l - 1) \div l
<1>1. c \in Nat /\ c * l <= t + l - 1 /\ t + l - 1 < (c + 1) * l
  BY Z3
<1> HIDE DEF c
<1>m. ASSUME NEW a \in Nat, NEW b \in Nat, a <= b
      PROVE  a * l <= b * l
  <2>1. b * l = a * l + (b - a) * l /\ b - a \in Nat
    BY <1>m
  <2>2. (b - a) * l \in Nat
    BY <2>1
  <2> QED BY <2>1, <2>2
<1>2. ASSUME p < c PROVE p * l < t
  <2>1. (p + 1) * l <= c * l
    <3>1. p + 1 <= c /\ p + 1 \in Nat
      BY <1>1, <1>2
    <3> QED BY <1>1, <1>m, <3>1
  <2>2. (p + 1) * l = p * l + l
    OBVIOUS
  <2> QED BY <1>1, <2>1, <2>2
<1>3. ASSUME c <= p PROVE t <= p * l
  <2>1. c * l <= p * l
    BY <1>1, <1>3, <1>m
  <2>2. (c + 1) * l = c * l + l
    BY <1>1
  <2> QED BY <1>1, <2>1, <2>2
<1>4. p * l \in Nat
  OBVIOUS
<1> QED BY <1>1, <1>2, <1>3, <1>4 DEF c

LEMMA MaxOfTwo ==
  ASSUME NEW a \in Int, NEW b \in Int
  PROVE  Max({a, b}) = IF a < b THEN b ELSE a
BY DEF Max

LEMMA MinOfTwo ==
  ASSUME NEW a \in Int, NEW b \in Int
  PROVE  Min({a, b}) = IF a < b THEN a ELSE b
BY DEF Min

-----------------------------------------------------------------------------
(***************************************************************************)
(* The state of a walk.                                                    *)
(***************************************************************************)
Plain == {"ListProjects", "ListBuckets", "ListDocuments", "ListDocumentVersions",
          "ListUsers", "ListAPIKeys"}
Stores == Plain \cup {"SearchDocuments", "ListDocumentsByTag", "AuditList"}

Walk == [at : {"done", "ask", "count", "rows", "reply"}, via : {"api", "web"},
         view : {"list", "documentRows", "auditEvents"},
         filter : {"all", "search", "tag", "both"}, store : Stores \cup {"none"},
         limit : Int, offset : Nat, page : Nat \ {0}, total : Nat, shown : Seq(Rows)]
Past == [kept : SUBSET Rows, inserted : BOOLEAN, deleted : BOOLEAN, torn : BOOLEAN,
         failed : BOOLEAN]

TypeInv ==
    /\ list \in ByName \cup NewestFirst
    /\ rows \in [Rows -> {"none", "live", "gone"}]
    /\ walk \in Walk
    /\ seen \in Seq(Rows)
    /\ past \in Past

(* The rows of the list that is walked, and where the next page begins.     *)
Found == Live \cap Hits(walk.filter)
Offset == IF walk.at = "ask" /\ walk.via = "web"
          THEN pageOffset(walk.page, walk.limit) ELSE walk.offset

(* What the handler has read of a request is what the store will read of it *)
(* again, the offset is that of the page, and the store that is asked has   *)
(* the list that is walked.                                                 *)
RequestInv ==
    /\ walk.filter \in Filters
    /\ walk.filter = "all" => walk.view = "list"
    /\ walk.at \in {"count", "rows", "reply"} =>
          /\ walk.limit \in 1 .. MaxPageLimit
          /\ walk.via = "web" => /\ walk.limit \in 1 .. WebMax
                                 /\ walk.offset = pageOffset(walk.page, walk.limit)
    /\ walk.at = "ask" /\ walk.via = "web" =>
          walk.page = 1 \/ walk.limit \in 1 .. WebMax
    /\ walk.at \in {"count", "rows"} /\ OneList =>
          \/ walk.store \in Plain /\ walk.filter = "all"
          \/ walk.store = "SearchDocuments" /\ walk.filter = "search"
          \/ walk.store = "ListDocumentsByTag" /\ walk.filter = "tag"
          \/ walk.store = "AuditList"

(* Whatever was there from the start, is equalled by no other and has its   *)
(* place before the next page was seen.                                     *)
Kept == {i \in past.kept : Alone(list, i)}

SkipInv ==
    /\ past.kept \subseteq Found
    /\ OneList /\ ~past.deleted /\ ~past.torn =>
          /\ walk.at \in {"ask", "count", "rows"} =>
                \A i \in Kept : Place(list, Found, i) < Offset => i \in ToSet(seen)
          /\ walk.at = "rows" => walk.total = Cardinality(Found)
          /\ walk.at = "reply" =>
                /\ \A i \in Kept : Place(list, Found, i) < walk.offset + walk.limit =>
                        i \in ToSet(seen) \cup ToSet(walk.shown)
                /\ walk.total <= walk.offset + walk.limit =>
                        Kept \subseteq ToSet(seen) \cup ToSet(walk.shown)
          /\ Finished => Kept \subseteq ToSet(seen)

(* Whatever was seen, is equalled by no other and is still there has its    *)
(* place before the next page.                                              *)
Known == {i \in Found : Alone(list, i)}
Once(s) == \A i, j \in DOMAIN s : i # j /\ Alone(list, s[i]) => s[i] # s[j]
Apart(s, t) == \A i \in ToSet(s) \cap ToSet(t) : ~Alone(list, i)

TwiceInv ==
    OneList /\ ~past.inserted =>
        /\ Once(seen)
        /\ walk.at \in {"ask", "count", "rows"} =>
              \A i \in ToSet(seen) \cap Known : Place(list, Found, i) < Offset
        /\ walk.at = "reply" =>
              /\ Once(walk.shown)
              /\ Apart(seen, walk.shown)
              /\ \A i \in (ToSet(seen) \cup ToSet(walk.shown)) \cap Known :
                    Place(list, Found, i) < walk.offset + walk.limit

(* While nobody writes, what was seen is the list up to the next page.      *)
QuietInv ==
    OneList /\ ~past.inserted /\ ~past.deleted =>
        LET n == Cardinality(past.kept) IN
        /\ Len(seen) <= n
        /\ \A k \in 1 .. Len(seen) :
              seen[k] \in past.kept /\ InPlace(list, past.kept, seen[k], k)
        /\ walk.at # "done" => /\ past.kept = Found
                               /\ Len(seen) = Offset
                               /\ Offset = 0 \/ Offset < n
        /\ walk.at \in {"rows", "reply"} => walk.total = n
        /\ walk.at = "reply" =>
              IsPage(walk.shown, list, past.kept, walk.offset, walk.limit)
        /\ Finished => Len(seen) = n

ListingInv == TypeInv /\ RequestInv /\ SkipInv /\ TwiceInv /\ QuietInv

-----------------------------------------------------------------------------
(***************************************************************************)
(* What the steps of a walk come down to.                                  *)
(***************************************************************************)
SameWalk == walk'.via = walk.via /\ walk'.filter = walk.filter

LEMMA FoundRows ==
  ASSUME TypeInv
  PROVE  /\ Live \in SUBSET Rows
         /\ Hits(walk.filter) \in SUBSET Rows
         /\ Found \in SUBSET Rows
BY FiltersAssumption DEF TypeInv, Walk, Live, Hits, Found

(* The parameters of a request: what limits and offsets come to.            *)
LEMMA Parameters ==
  ASSUME TypeInv
  PROVE  /\ pageParams(walk).limit \in 1 .. MaxPageLimit
         /\ pageParams(walk).offset = walk.offset
         /\ auditParams(walk).limit \in 1 .. MaxPageLimit
         /\ auditParams(walk).offset = walk.offset
         /\ parsePage(walk).limit \in 1 .. WebMax
         /\ walk.limit \in 1 .. WebMax => parsePage(walk).limit = walk.limit
         /\ parsePage(walk).page = walk.page
         /\ walk.limit \in 1 .. MaxPageLimit =>
               /\ validated(walk).limit = walk.limit /\ validated(walk).offset = walk.offset
               /\ auditParams(walk).limit = walk.limit
BY LimitsAssumption
   DEF TypeInv, Walk, pageParams, auditParams, parsePage, validated, Clamp, NotNegative

LEMMA PageOffsets ==
  ASSUME NEW page \in Nat \ {0}, NEW limit \in Int
  PROVE  /\ page = 1 => pageOffset(page, limit) = 0
         /\ limit \in Nat => /\ pageOffset(page, limit) \in Nat
                             /\ pageOffset(page, limit) + limit = page * limit
                             /\ pageOffset(page + 1, limit) = page * limit
<1>1. page = 1 => (page - 1) * limit = 0
  OBVIOUS
<1>2. ASSUME limit \in Nat
      PROVE  /\ (page - 1) * limit \in Nat
             /\ (page - 1) * limit + limit = page * limit
             /\ (page + 1 - 1) * limit = page * limit
  <2>1. page - 1 \in Nat /\ page + 1 - 1 = page
    OBVIOUS
  <2> QED BY <2>1, <1>2
<1> QED BY <1>1, <1>2 DEF pageOffset

(* A handler asks the store for the page that the client wants.             *)
LEMMA HandlerStep ==
  ASSUME TypeInv, RequestInv, Handler
  PROVE  /\ UNCHANGED <<list, rows, seen, past>>
         /\ walk.at = "ask"
         /\ walk' \in Walk /\ walk'.at = "count" /\ SameWalk
         /\ walk'.view = walk.view
         /\ walk'.limit \in 1 .. MaxPageLimit
         /\ walk'.offset = Offset
         /\ walk.via = "web" => /\ walk'.limit \in 1 .. WebMax
                                /\ walk'.offset = pageOffset(walk'.page, walk'.limit)
         /\ OneList =>
               \/ walk'.store \in Plain /\ walk.filter = "all"
               \/ walk'.store = "SearchDocuments" /\ walk.filter = "search"
               \/ walk'.store = "ListDocumentsByTag" /\ walk.filter = "tag"
               \/ walk'.store = "AuditList"
<1> DEFINE Asks(store, p) ==
      /\ walk.at = "ask"
      /\ walk' = [walk EXCEPT !.at = "count", !.store = store,
                              !.limit = p.limit, !.offset = p.offset]
      /\ UNCHANGED <<list, rows, seen, past>>
<1>1. CASE walk.via = "api"
  <2>1. PICK store \in Stores, p \in {pageParams(walk), auditParams(walk)} :
           /\ Asks(store, p)
           /\ OneList =>
                 \/ store \in Plain /\ walk.filter = "all"
                 \/ store = "SearchDocuments" /\ walk.filter = "search"
                 \/ store = "ListDocumentsByTag" /\ walk.filter = "tag"
                 \/ store = "AuditList"
    BY <1>1 DEF RequestInv, TypeInv, Walk, Handler, ProjectList, BucketList, DocumentList,
          ListVersions, UserList, APIKeyList, AuditList, Api, Ask, Filters, OneList,
          projects, buckets, documents, documentRows, users, apiKeys, auditLog,
          auditEvents, Web, Stores, Plain
  <2> DEFINE l == p.limit
             o == p.offset
  <2>2. l \in 1 .. MaxPageLimit /\ o = walk.offset /\ o \in Nat
    BY Parameters DEF TypeInv, Walk
  <2>3. l \in Int
    BY <2>2, LimitsAssumption
  <2>4. /\ walk.at = "ask"
        /\ walk' = [walk EXCEPT !.at = "count", !.store = store, !.limit = l, !.offset = o]
        /\ UNCHANGED <<list, rows, seen, past>>
    BY <2>1
  <2> HIDE DEF l, o
  <2> QED BY <1>1, <2>1, <2>2, <2>3, <2>4 DEF TypeInv, Walk, SameWalk, Offset
<1>2. CASE walk.via = "web"
  <2> DEFINE l == parsePage(walk).limit
             o == pageOffset(parsePage(walk).page, l)
  <2>1. PICK store \in Stores :
           /\ walk.at = "ask"
           /\ walk' = [walk EXCEPT !.at = "count", !.store = store,
                                   !.limit = l, !.offset = o]
           /\ UNCHANGED <<list, rows, seen, past>>
           /\ OneList =>
                 \/ store \in Plain /\ walk.filter = "all"
                 \/ store = "AuditList"
    BY <1>2 DEF RequestInv, TypeInv, Walk, Handler, ProjectList, BucketList, DocumentList,
          ListVersions, UserList, APIKeyList, AuditList, Api, Ask, Filters, OneList,
          projects, buckets, documents, documentRows, users, apiKeys, auditLog,
          auditEvents, Web, Stores, Plain
  <2>2. /\ l \in 1 .. WebMax /\ parsePage(walk).page = walk.page
        /\ walk.limit \in 1 .. WebMax => l = walk.limit
    BY Parameters
  <2>3. l \in Nat /\ l \in 1 .. MaxPageLimit /\ l \in Int
    BY <2>2, LimitsAssumption
  <2>4. walk.page \in Nat \ {0} /\ walk.limit \in Int
    BY DEF TypeInv, Walk
  <2>5. o = pageOffset(walk.page, l) /\ o \in Nat
    BY <2>2, <2>3, <2>4, PageOffsets
  <2>6. o = Offset
    <3>1. walk.page = 1 \/ walk.limit \in 1 .. WebMax
      BY <1>2, <2>1 DEF RequestInv
    <3>2. CASE walk.page = 1
      BY <3>2, <1>2, <2>1, <2>2, <2>3, <2>4, PageOffsets DEF Offset
    <3>3. CASE walk.limit \in 1 .. WebMax
      BY <3>3, <1>2, <2>1, <2>2 DEF Offset
    <3> QED BY <3>1, <3>2, <3>3
  <2> HIDE DEF l, o
  <2> QED BY <1>2, <2>1, <2>2, <2>3, <2>5, <2>6 DEF TypeInv, Walk, SameWalk
<1> QED BY <1>1, <1>2 DEF TypeInv, Walk

(* A store counts the rows of the list, then reads a page of them.          *)
LEMMA StoreStep ==
  ASSUME TypeInv, RequestInv, Store
  PROVE  /\ UNCHANGED <<list, rows, seen, past>>
         /\ walk' \in Walk /\ SameWalk
         /\ walk'.limit = walk.limit /\ walk'.offset = walk.offset
         /\ walk'.page = walk.page /\ walk'.store = walk.store /\ walk'.view = walk.view
         /\ \/ /\ walk.at = "count" /\ walk'.at = "rows"
               /\ OneList => walk'.total = Cardinality(Found)
            \/ /\ walk.at = "rows" /\ walk'.at = "reply"
               /\ walk'.total = walk.total
               /\ OneList => IsPage(walk'.shown, list, Found, walk.offset, walk.limit)
<1>0. walk.at \in {"count", "rows"}
  BY DEF Store, ListProjects, ListBuckets, ListDocuments, SearchDocuments,
         ListDocumentsByTag, ListDocumentVersions, ListUsers, ListAPIKeys,
         AuditStoreList, List
<1>1. PICK H \in SUBSET Rows, p \in {validated(walk), auditParams(walk)} :
         /\ List(walk.store, H, p)
         /\ OneList => Live \cap H = Found
  <2>1. Rows \in SUBSET Rows /\ Matching \in SUBSET Rows /\ Tagged \in SUBSET Rows
        /\ Hits(walk.filter) \in SUBSET Rows
    BY FoundRows, FiltersAssumption
  <2>2. OneList => \/ walk.store \in Plain /\ walk.filter = "all"
                   \/ walk.store = "SearchDocuments" /\ walk.filter = "search"
                   \/ walk.store = "ListDocumentsByTag" /\ walk.filter = "tag"
                   \/ walk.store = "AuditList"
    BY <1>0 DEF RequestInv
  <2>3. \/ walk.store \in Plain /\ List(walk.store, Rows, validated(walk))
        \/ walk.store = "SearchDocuments" /\ List(walk.store, Matching, validated(walk))
        \/ walk.store = "ListDocumentsByTag" /\ List(walk.store, Tagged, validated(walk))
        \/ /\ walk.store = "AuditList"
           /\ List(walk.store, IF walk.view = "auditEvents" \/ walk.via = "api"
                               THEN Hits(walk.filter) ELSE Rows, auditParams(walk))
    <3>1. \A name, hits, p : List(name, hits, p) => walk.store = name
      BY DEF List
    <3> QED BY <3>1 DEF Store, ListProjects, ListBuckets, ListDocuments, SearchDocuments,
             ListDocumentsByTag, ListDocumentVersions, ListUsers, ListAPIKeys,
             AuditStoreList, Plain
  <2>4. CASE walk.store \in Plain
    BY <2>1, <2>2, <2>3, <2>4 DEF Plain, Found, Hits
  <2>5. CASE walk.store = "SearchDocuments"
    BY <2>1, <2>2, <2>3, <2>5 DEF Plain, Found, Hits
  <2>6. CASE walk.store = "ListDocumentsByTag"
    BY <2>1, <2>2, <2>3, <2>6 DEF Plain, Found, Hits
  <2>7. CASE walk.store = "AuditList"
    <3>1. OneList /\ ~(walk.view = "auditEvents" \/ walk.via = "api") => Hits(walk.filter) = Rows
      BY DEF OneList, Hits
    <3> QED BY <2>1, <2>3, <2>7, <3>1 DEF Plain, Found
  <2> QED BY <2>3, <2>4, <2>5, <2>6, <2>7
<1>2. p.limit = walk.limit /\ p.offset = walk.offset
  BY <1>0, Parameters DEF RequestInv
<1>3. Live \cap H \in SUBSET Rows
  OBVIOUS
<1>4. walk.offset \in Nat /\ walk.limit \in Nat \ {0}
  BY <1>0, LimitsAssumption DEF RequestInv, TypeInv, Walk
<1> DEFINE found == Live \cap H
<1>5. Cardinality(found) \in Nat
  BY <1>3, RowsFinite
<1>6. /\ UNCHANGED <<list, rows, seen, past>>
      /\ \/ /\ walk.at = "count"
            /\ walk' = [walk EXCEPT !.at = "rows", !.total = Cardinality(found)]
         \/ /\ walk.at = "rows"
            /\ \E s \in Sortings(list, found) :
                  walk' = [walk EXCEPT !.at = "reply",
                                       !.shown = Page(s, walk.offset, walk.limit)]
  BY <1>1, <1>2 DEF List
<1>7. OneList => found = Found
  BY <1>1
<1>8. CASE walk.at = "count"
  <2> HIDE DEF found
  <2> QED BY <1>5, <1>6, <1>7, <1>8 DEF TypeInv, Walk, SameWalk
<1>9. CASE walk.at = "rows"
  <2>1. PICK s \in Sortings(list, found) :
           walk' = [walk EXCEPT !.at = "reply", !.shown = Page(s, walk.offset, walk.limit)]
    BY <1>6, <1>9
  <2> DEFINE page == Page(s, walk.offset, walk.limit)
  <2>2. IsPage(page, list, found, walk.offset, walk.limit)
    BY <1>3, <1>4, PageOfSorting
  <2>3. page \in Seq(Rows)
    BY <2>2 DEF IsPage
  <2>4. walk' = [walk EXCEPT !.at = "reply", !.shown = page]
    BY <2>1
  <2> HIDE DEF page, found
  <2>5. /\ walk' \in Walk /\ SameWalk /\ walk'.at = "reply" /\ walk'.shown = page
        /\ walk'.limit = walk.limit /\ walk'.offset = walk.offset
        /\ walk'.page = walk.page /\ walk'.store = walk.store /\ walk'.view = walk.view
        /\ walk'.total = walk.total
    BY <2>3, <2>4 DEF TypeInv, Walk, SameWalk
  <2> QED BY <1>6, <1>7, <1>9, <2>2, <2>5
<1> QED BY <1>0, <1>8, <1>9

LEMMA NoWalkFields ==
  /\ NoWalk \in Walk /\ NoWalk.at = "done" /\ NoWalk.view = "list"
  /\ NoWalk.page = 1 /\ NoWalk.offset = 0
<1>1. PICK none \in Seq(Rows) :
         NoWalk = [at |-> "done", via |-> "api", view |-> "list", filter |-> "all",
                   store |-> "none", limit |-> 0, offset |-> 0, page |-> 1, total |-> 0,
                   shown |-> none]
  <2>1. <<>> \in Seq(Rows)
    OBVIOUS
  <2> QED BY <2>1, Zenon DEF NoWalk
<1> QED BY <1>1 DEF Walk

LEMMA ShownRows ==
  ASSUME TypeInv
  PROVE  /\ Shown \in Seq(Rows)
         /\ Total \in Nat
         /\ OneList => Shown = walk.shown /\ Total = walk.total
<1> DEFINE S == Matching \cap {walk.shown[i] : i \in DOMAIN walk.shown}
<1>1. S \in SUBSET Rows
  BY FiltersAssumption
<1>2. MatchesOf(walk.shown) \in Seq(Rows)
  <2>1. Sortings("documents", S) # {}
    BY <1>1, NamesSort DEF ByName
  <2>2. MatchesOf(walk.shown) \in Sortings("documents", S)
    BY <2>1 DEF MatchesOf
  <2> QED BY <1>1, <2>2, SortingOfRows DEF IsSorting
<1>3. walk.shown \in Seq(Rows) /\ walk.total \in Nat
  BY DEF TypeInv, Walk
<1>4. Shown \in Seq(Rows) /\ Len(Shown) \in Nat
  BY <1>2, <1>3 DEF Shown
<1>5. walk.view = "documentRows" /\ walk.filter = "both" => ~OneList \/ walk.via = "api"
  BY DEF OneList
<1> QED BY <1>3, <1>4 DEF Shown, Total, OneList

(* A client goes on at the row after the page, exactly while the count says *)
(* that there is one.                                                       *)
LEMMA ReplyStep ==
  ASSUME TypeInv, RequestInv, writePaged \/ newWebPagination
  PROVE  /\ UNCHANGED <<list, rows, past>>
         /\ walk.at = "reply"
         /\ seen' \in Seq(Rows)
         /\ OneList => seen' = seen \o walk.shown
         /\ walk' \in Walk /\ SameWalk
         /\ walk.filter = "all" => walk'.view = "list"
         /\ \/ /\ walk'.at = "ask"
               /\ walk.via = "web" => walk'.limit \in 1 .. WebMax
               /\ OneList => /\ Offset' = walk.offset + walk.limit
                             /\ walk.offset + walk.limit < walk.total
            \/ /\ walk'.at = "done"
               /\ OneList => walk.total <= walk.offset + walk.limit
<1>0. walk.at = "reply"
  BY DEF writePaged, newWebPagination, Reply
<1>1. /\ walk.limit \in 1 .. MaxPageLimit
      /\ walk.via = "web" => /\ walk.limit \in 1 .. WebMax
                             /\ walk.offset = pageOffset(walk.page, walk.limit)
      /\ walk.filter = "all" => walk.view = "list"
  BY <1>0 DEF RequestInv
<1>2. /\ walk \in Walk /\ walk.limit \in Nat \ {0} /\ walk.offset \in Nat
      /\ walk.page \in Nat \ {0} /\ walk.total \in Nat
      /\ walk.limit \in Int /\ walk.filter \in {"all", "search", "tag", "both"}
      /\ walk.via \in {"api", "web"}
  BY <1>1, LimitsAssumption DEF TypeInv, Walk
<1> DEFINE none == <<>>
           end == [NoWalk EXCEPT !.filter = walk.filter, !.via = walk.via]
<1>e. none \in Seq(Rows)
  OBVIOUS
<1>3. /\ end \in Walk /\ end.at = "done" /\ end.view = "list"
      /\ end.filter = walk.filter /\ end.via = walk.via
  BY <1>2, NoWalkFields DEF Walk
<1> HIDE DEF none
<1> HIDE DEF end
<1>4. /\ seen' = seen \o Shown
      /\ UNCHANGED <<list, rows, past>>
  BY DEF writePaged, newWebPagination, Reply
<1>5. seen' \in Seq(Rows)
  BY <1>4, ShownRows DEF TypeInv
<1>6. OneList => seen' = seen \o walk.shown
  BY <1>4, ShownRows
<1>7. CASE writePaged
  <2> DEFINE o == walk.offset + walk.limit
             next == [walk EXCEPT !.at = "ask", !.offset = o, !.shown = none]
  <2>1. /\ walk.via = "api"
        /\ walk' = IF o < walk.total THEN next ELSE end
    BY <1>7 DEF writePaged, Reply, hasMore, end, none
  <2>a. o \in Nat
    BY <1>2
  <2> HIDE DEF o
  <2>2. /\ next \in Walk /\ next.at = "ask" /\ next.offset = o /\ next.via = walk.via
        /\ next.filter = walk.filter /\ next.view = walk.view
    <3>1. walk \in Walk
      BY <1>2
    <3> QED BY <3>1, <1>e, <2>a DEF Walk
  <2> HIDE DEF next
  <2>3. CASE o < walk.total
    BY <1>0, <1>1, <1>4, <1>5, <1>6, <2>1, <2>2, <2>3 DEF SameWalk, Offset, o
  <2>4. CASE ~(o < walk.total)
    BY <1>0, <1>1, <1>2, <1>3, <1>4, <1>5, <1>6, <2>1, <2>2, <2>4 DEF SameWalk, o
  <2> QED BY <2>3, <2>4
<1>8. CASE newWebPagination
  <2> DEFINE c == (Total + walk.limit - 1) \div walk.limit
             totalPages == Max({c, 1})
             page == Min({parsePage(walk).page, totalPages})
             next == [walk EXCEPT !.at = "ask", !.view = "list", !.page = page + 1,
                                  !.shown = none]
  <2>1. /\ walk.via = "web"
        /\ walk' = IF page < totalPages THEN next ELSE end
    BY <1>8 DEF newWebPagination, Reply, end, none
  <2>2. c \in Nat /\ (walk.page < c <=> walk.page * walk.limit < Total)
    BY <1>2, ShownRows, Division
  <2> HIDE DEF c
  <2>3. totalPages = (IF c < 1 THEN 1 ELSE c)
    BY <2>2, MaxOfTwo
  <2> HIDE DEF totalPages
  <2>4. page = (IF walk.page < totalPages THEN walk.page ELSE totalPages)
    <3>1. parsePage(walk).page = walk.page
      BY Parameters
    <3>2. totalPages \in Int /\ walk.page \in Int
      BY <2>2, <2>3, <1>2
    <3> QED BY <3>1, <3>2, MinOfTwo
  <2> HIDE DEF page
  <2>5. /\ page < totalPages <=> walk.page < c
        /\ page < totalPages => page = walk.page
    BY <1>2, <2>2, <2>3, <2>4
  <2>6. page \in Nat \ {0}
    BY <1>2, <2>2, <2>3, <2>4
  <2>7. /\ next \in Walk /\ next.at = "ask" /\ next.view = "list" /\ next.page = page + 1
        /\ next.limit = walk.limit /\ next.via = walk.via /\ next.filter = walk.filter
    <3>1. walk \in Walk /\ page + 1 \in Nat \ {0}
      BY <1>2, <2>6
    <3> QED BY <3>1, <1>e DEF Walk
  <2> HIDE DEF next
  <2>8. /\ walk.page * walk.limit = walk.offset + walk.limit
        /\ pageOffset(walk.page + 1, walk.limit) = walk.page * walk.limit
    BY <1>1, <1>2, <2>1, PageOffsets
  <2>9. OneList => Total = walk.total
    BY ShownRows
  <2>10. CASE page < totalPages
    <3>1. Offset' = walk.offset + walk.limit
      BY <2>1, <2>5, <2>7, <2>8, <2>10 DEF Offset
    <3>2. OneList => walk.offset + walk.limit < walk.total
      BY <2>2, <2>5, <2>8, <2>9, <2>10
    <3> QED BY <1>0, <1>1, <1>4, <1>5, <1>6, <2>1, <2>7, <2>10, <3>1, <3>2 DEF SameWalk
  <2>11. CASE ~(page < totalPages)
    <3>1. OneList => ~(walk.offset + walk.limit < walk.total)
      BY <2>2, <2>5, <2>8, <2>9, <2>11
    <3>2. OneList => walk.total <= walk.offset + walk.limit
      BY <3>1, <1>2
    <3> QED BY <1>0, <1>1, <1>3, <1>4, <1>5, <1>6, <2>1, <2>11, <3>2 DEF SameWalk
  <2> QED BY <2>10, <2>11
<1> QED BY <1>7, <1>8

LEMMA BeginStep ==
  ASSUME TypeInv, Begin
  PROVE  /\ UNCHANGED <<list, rows>>
         /\ walk' \in Walk /\ walk'.at = "ask" /\ walk'.filter \in Filters'
         /\ walk'.filter = "all" => walk'.view = "list"
         /\ walk'.page = 1 /\ Offset' = 0
         /\ seen' = <<>> /\ seen' \in Seq(Rows) /\ Len(seen') = 0
         /\ past' \in Past /\ past'.kept = Found'
         /\ ~past'.inserted /\ ~past'.deleted /\ ~past'.torn
<1>1. PICK via \in {"api", "web"}, filter \in Filters, limit \in Asked :
         /\ walk' = [NoWalk EXCEPT
               !.at = "ask", !.via = via, !.filter = filter, !.limit = limit,
               !.view = IF via = "api" \/ filter = "all" THEN "list"
                        ELSE IF list = "documents" THEN "documentRows" ELSE "auditEvents"]
         /\ past' = [NoPast EXCEPT !.kept = Live \cap Hits(filter)]
  BY DEF Begin
<1> DEFINE view == IF via = "api" \/ filter = "all" THEN "list"
                   ELSE IF list = "documents" THEN "documentRows" ELSE "auditEvents"
<1>2. UNCHANGED <<list, rows>> /\ seen' = <<>>
  BY DEF Begin
<1>3. filter \in {"all", "search", "tag", "both"} /\ limit \in Int
  BY AskedAssumption DEF Filters
<1>4. view \in {"list", "documentRows", "auditEvents"} /\ (filter = "all" => view = "list")
  OBVIOUS
<1>5. walk' = [NoWalk EXCEPT !.at = "ask", !.via = via, !.filter = filter, !.limit = limit,
                             !.view = view]
  BY <1>1
<1> HIDE DEF view
<1>6. /\ NoWalk \in Walk /\ NoWalk.page = 1 /\ NoWalk.offset = 0
  BY NoWalkFields
<1>7. /\ walk' \in Walk /\ walk'.at = "ask" /\ walk'.filter = filter /\ walk'.view = view
      /\ walk'.page = 1 /\ walk'.offset = 0 /\ walk'.limit = limit
  BY <1>3, <1>4, <1>5, <1>6 DEF Walk
<1>8. Offset' = 0
  <2>1. pageOffset(walk'.page, walk'.limit) = 0
    BY <1>3, <1>7, PageOffsets
  <2> QED BY <1>7, <2>1 DEF Offset
<1>9. /\ past'.kept = Live \cap Hits(filter) /\ past' \in Past
      /\ ~past'.inserted /\ ~past'.deleted /\ ~past'.torn
  <2>1. Live \cap Hits(filter) \in SUBSET Rows
    BY DEF Live
  <2> QED BY <1>1, <2>1 DEF NoPast, Past
<1>10. Found' = Live \cap Hits(filter)
  BY <1>2, <1>7 DEF Found, Live
<1>11. Filters' = Filters
  BY <1>2 DEF Filters
<1>12. seen' \in Seq(Rows) /\ Len(seen') = 0
  BY <1>2
<1> QED BY <1>2, <1>4, <1>7, <1>8, <1>9, <1>10, <1>11, <1>12

LEMMA FailStep ==
  ASSUME TypeInv, Fail
  PROVE  /\ UNCHANGED <<list, rows, seen>>
         /\ walk' \in Walk /\ walk'.at = "done" /\ walk'.view = "list" /\ SameWalk
         /\ past' \in Past /\ past'.failed
         /\ past'.kept = past.kept /\ past'.inserted = past.inserted
         /\ past'.deleted = past.deleted /\ past'.torn = past.torn
<1>1. NoWalk \in Walk /\ NoWalk.at = "done" /\ NoWalk.view = "list"
  BY NoWalkFields
<1>2. walk' = [NoWalk EXCEPT !.filter = walk.filter, !.via = walk.via]
      /\ past' = [past EXCEPT !.failed = TRUE]
      /\ UNCHANGED <<list, rows, seen>>
  BY DEF Fail
<1>3. walk.filter \in {"all", "search", "tag", "both"} /\ walk.via \in {"api", "web"}
  BY DEF TypeInv, Walk
<1>4. walk' \in Walk /\ walk'.at = "done" /\ walk'.view = "list" /\ SameWalk
  BY <1>1, <1>2, <1>3 DEF Walk, SameWalk
<1> QED BY <1>2, <1>4 DEF TypeInv, Past

(* What others do to the rows while a walk goes on.                         *)
Write == \/ \E i \in Rows : Insert(i) \/ Delete(i)
         \/ \E i, j \in Rows : Rename(i, j)

LEMMA WriteStep ==
  ASSUME TypeInv, Write
  PROVE  /\ UNCHANGED <<list, walk, seen>>
         /\ rows' \in [Rows -> {"none", "live", "gone"}]
         /\ past' \in Past /\ past'.failed = past.failed
         /\ past'.torn = (past.torn \/ Between)
         /\ past'.kept \in SUBSET past.kept
         /\ past.kept \subseteq Found => past'.kept \subseteq Found'
         /\ \/ past'.inserted /\ past'.deleted
            \/ /\ past'.inserted /\ past'.deleted = past.deleted
               /\ past'.kept = past.kept /\ Found \in SUBSET Found'
            \/ /\ past'.deleted /\ past'.inserted = past.inserted
               /\ Found' \in SUBSET Found
<1>0. /\ rows \in [Rows -> {"none", "live", "gone"}] /\ past \in Past
      /\ Between \in BOOLEAN
  BY DEF TypeInv, Between
<1>1. ASSUME NEW i \in Rows, Insert(i)
      PROVE  /\ UNCHANGED <<list, walk, seen>>
             /\ rows' = [rows EXCEPT ![i] = "live"]
             /\ past' = [past EXCEPT !.inserted = TRUE, !.torn = past.torn \/ Between]
             /\ Live' = Live \cup {i}
  <2>1. /\ UNCHANGED <<list, walk, seen>>
        /\ rows' = [rows EXCEPT ![i] = "live"]
        /\ past' = [past EXCEPT !.inserted = TRUE, !.torn = past.torn \/ Between]
    BY <1>1 DEF Insert
  <2> QED BY <1>0, <2>1 DEF Live
<1>2. ASSUME NEW i \in Rows, Delete(i)
      PROVE  /\ UNCHANGED <<list, walk, seen>>
             /\ rows' = [rows EXCEPT ![i] = "gone"]
             /\ past' = [past EXCEPT !.deleted = TRUE, !.kept = past.kept \ {i},
                                     !.torn = past.torn \/ Between]
             /\ Live' = Live \ {i}
  <2>1. /\ UNCHANGED <<list, walk, seen>>
        /\ rows' = [rows EXCEPT ![i] = "gone"]
        /\ past' = [past EXCEPT !.deleted = TRUE, !.kept = past.kept \ {i},
                                !.torn = past.torn \/ Between]
    BY <1>2 DEF Delete
  <2> QED BY <1>0, <2>1 DEF Live
<1>3. ASSUME NEW i \in Rows, NEW j \in Rows, Rename(i, j)
      PROVE  /\ UNCHANGED <<list, walk, seen>>
             /\ rows' = [rows EXCEPT ![i] = "none", ![j] = "live"]
             /\ past' = [past EXCEPT !.inserted = TRUE, !.deleted = TRUE,
                                     !.kept = past.kept \ {i},
                                     !.torn = past.torn \/ Between]
             /\ Live' = (Live \ {i}) \cup {j}
  <2>1. /\ UNCHANGED <<list, walk, seen>>
        /\ rows' = [rows EXCEPT ![i] = "none", ![j] = "live"]
        /\ past' = [past EXCEPT !.inserted = TRUE, !.deleted = TRUE,
                                !.kept = past.kept \ {i},
                                !.torn = past.torn \/ Between]
        /\ rows[i] = "live" /\ rows[j] = "none"
    BY <1>3 DEF Rename
  <2> QED BY <1>0, <2>1 DEF Live
<1>4. CASE \E i \in Rows : Insert(i)
  <2>1. PICK i \in Rows : Insert(i)
    BY <1>4
  <2> QED BY <1>0, <1>1, <2>1 DEF Past, Found
<1>5. CASE \E i \in Rows : Delete(i)
  <2>1. PICK i \in Rows : Delete(i)
    BY <1>5
  <2>2. Found' = Found \ {i} /\ past.kept \in SUBSET Rows
    BY <1>0, <1>2, <2>1 DEF Past, Found
  <2>3. /\ past' \in Past /\ past'.failed = past.failed /\ past'.deleted
        /\ past'.torn = (past.torn \/ Between) /\ past'.kept = past.kept \ {i}
        /\ past'.inserted = past.inserted
    <3> DEFINE t == past.torn \/ Between
               k == past.kept \ {i}
    <3>1. t \in BOOLEAN /\ k \in SUBSET Rows
      BY <1>0 DEF Past
    <3>2. past' = [past EXCEPT !.deleted = TRUE, !.kept = k, !.torn = t]
      BY <1>2, <2>1
    <3> HIDE DEF t, k
    <3>3. /\ past' \in Past /\ past'.failed = past.failed
          /\ past'.torn = t /\ past'.kept = k /\ past'.inserted = past.inserted /\ past'.deleted
      BY <1>0, <3>1, <3>2 DEF Past
    <3> QED BY <3>3 DEF t, k
  <2> QED BY <1>0, <1>2, <2>1, <2>2, <2>3
<1>6. CASE \E i, j \in Rows : Rename(i, j)
  <2>1. PICK i \in Rows, j \in Rows : Rename(i, j)
    BY <1>6
  <2>2. Found \ {i} \in SUBSET Found' /\ past.kept \in SUBSET Rows
    BY <1>0, <1>3, <2>1 DEF Past, Found
  <2>3. /\ past' \in Past /\ past'.failed = past.failed /\ past'.inserted /\ past'.deleted
        /\ past'.torn = (past.torn \/ Between) /\ past'.kept = past.kept \ {i}
    <3> DEFINE t == past.torn \/ Between
               k == past.kept \ {i}
    <3>1. t \in BOOLEAN /\ k \in SUBSET Rows
      BY <1>0 DEF Past
    <3>2. past' = [past EXCEPT !.inserted = TRUE, !.deleted = TRUE, !.kept = k, !.torn = t]
      BY <1>3, <2>1
    <3> HIDE DEF t, k
    <3>3. /\ past' \in Past /\ past'.failed = past.failed
          /\ past'.torn = t /\ past'.kept = k /\ past'.inserted = TRUE /\ past'.deleted
      BY <1>0, <3>1, <3>2 DEF Past
    <3> QED BY <3>3 DEF t, k
  <2> QED BY <1>0, <1>3, <2>1, <2>2, <2>3
<1> QED BY <1>4, <1>5, <1>6 DEF Write

IsJoined(u, s, t) ==
    /\ u \in Seq(Rows) /\ Len(u) = Len(s) + Len(t)
    /\ ToSet(u) = ToSet(s) \cup ToSet(t)
    /\ \A i \in 1 .. Len(s) : u[i] = s[i]
    /\ \A i \in 1 .. Len(t) : u[Len(s) + i] = t[i]
    /\ Once(s) /\ Once(t) /\ Apart(s, t) => Once(u)

LEMMA Joined ==
  ASSUME NEW s \in Seq(Rows), NEW t \in Seq(Rows)
  PROVE  IsJoined(s \o t, s, t)
<1> DEFINE u == s \o t
<1>1. /\ u \in Seq(Rows) /\ Len(u) = Len(s) + Len(t)
      /\ \A i \in 1 .. Len(s) + Len(t) : u[i] = IF i <= Len(s) THEN s[i] ELSE t[i - Len(s)]
      /\ DOMAIN u = 1 .. Len(s) + Len(t) /\ DOMAIN s = 1 .. Len(s) /\ DOMAIN t = 1 .. Len(t)
      /\ Len(s) \in Nat /\ Len(t) \in Nat
  OBVIOUS
<1> HIDE DEF u
<1>2. \A i \in 1 .. Len(s) : u[i] = s[i]
  BY <1>1
<1>3. \A i \in 1 .. Len(t) : u[Len(s) + i] = t[i]
  <2> SUFFICES ASSUME NEW i \in 1 .. Len(t) PROVE u[Len(s) + i] = t[i]
    OBVIOUS
  <2>1. Len(s) + i \in 1 .. Len(s) + Len(t) /\ ~(Len(s) + i <= Len(s))
        /\ Len(s) + i - Len(s) = i
    BY <1>1
  <2> QED BY <1>1, <2>1
<1>4. \A i \in 1 .. Len(u) :
         \/ i \in 1 .. Len(s) /\ u[i] = s[i]
         \/ i - Len(s) \in 1 .. Len(t) /\ u[i] = t[i - Len(s)]
  BY <1>1
<1>5. ToSet(u) = ToSet(s) \cup ToSet(t)
  <2>1. ASSUME NEW x \in ToSet(u) PROVE x \in ToSet(s) \cup ToSet(t)
    BY <1>1, <1>4 DEF ToSet
  <2>2. ASSUME NEW x \in ToSet(s) PROVE x \in ToSet(u)
    BY <1>1, <1>2 DEF ToSet
  <2>3. ASSUME NEW x \in ToSet(t) PROVE x \in ToSet(u)
    <3>1. PICK i \in 1 .. Len(t) : t[i] = x
      BY <1>1 DEF ToSet
    <3>2. Len(s) + i \in DOMAIN u
      BY <1>1
    <3> QED BY <1>3, <3>1, <3>2 DEF ToSet
  <2> QED BY <2>1, <2>2, <2>3
<1>6. ASSUME Once(s), Once(t), Apart(s, t)
      PROVE  Once(u)
  <2> SUFFICES ASSUME NEW i \in 1 .. Len(u), NEW j \in 1 .. Len(u),
                      Alone(list, u[i]), u[i] = u[j]
               PROVE  i = j
    BY <1>1 DEF Once
  <2>1. \A a \in 1 .. Len(s), b \in 1 .. Len(t) : s[a] = t[b] => ~Alone(list, s[a])
    BY <1>1, <1>6 DEF ToSet, Apart
  <2>2. \A a, b \in 1 .. Len(s) : s[a] = s[b] /\ Alone(list, s[a]) => a = b
    BY <1>1, <1>6 DEF Once
  <2>3. \A a, b \in 1 .. Len(t) : t[a] = t[b] /\ Alone(list, t[a]) => a = b
    BY <1>1, <1>6 DEF Once
  <2>4. CASE i \in 1 .. Len(s) /\ j \in 1 .. Len(s)
    BY <1>2, <2>2, <2>4
  <2>5. CASE i \in 1 .. Len(s) /\ j \notin 1 .. Len(s)
    BY <1>4, <2>1, <2>5
  <2>6. CASE i \notin 1 .. Len(s) /\ j \in 1 .. Len(s)
    BY <1>4, <2>1, <2>6
  <2>7. CASE i \notin 1 .. Len(s) /\ j \notin 1 .. Len(s)
    <3>1. i - Len(s) = j - Len(s)
      BY <1>4, <2>3, <2>7
    <3> QED BY <1>1, <3>1
  <2> QED BY <2>4, <2>5, <2>6, <2>7
<1>7. IsJoined(u, s, t)
  BY <1>1, <1>2, <1>3, <1>5, <1>6 DEF IsJoined
<1> QED BY <1>7 DEF u

Replies == writePaged \/ newWebPagination

LEMMA NextCases ==
  ASSUME [Next]_vars
  PROVE  Begin \/ Handler \/ Store \/ Replies \/ Fail \/ Write \/ UNCHANGED vars
BY DEF Next, Replies, Write

(* A step of the walk leaves the list where it was.                         *)
LEMMA SameList ==
  ASSUME UNCHANGED <<list, rows>>, SameWalk
  PROVE  /\ Found' = Found /\ (OneList' <=> OneList) /\ Filters' = Filters
         /\ Live' = Live
BY DEF SameWalk, Found, Live, OneList, Filters

-----------------------------------------------------------------------------
(***************************************************************************)
(* The invariant is inductive.                                             *)
(***************************************************************************)
LEMMA ListingInit == Init => ListingInv
<1> SUFFICES ASSUME Init PROVE ListingInv
  OBVIOUS
<1>1. walk = NoWalk /\ walk \in Walk /\ walk.at = "done" /\ walk.view = "list"
  BY NoWalkFields DEF Init
<1>2. past \in Past /\ past.kept = {} /\ seen \in Seq(Rows) /\ seen = <<>> /\ Len(seen) = 0
  BY DEF Init, NoPast, Past
<1>3. walk.filter = "all"
  BY <1>1, Zenon DEF NoWalk
<1>4. TypeInv
  BY <1>1, <1>2 DEF TypeInv, Init
<1>5. RequestInv
  BY <1>1, <1>3 DEF RequestInv, Filters
<1>6. SkipInv
  BY <1>1, <1>2 DEF SkipInv, Kept
<1>7. TwiceInv
  BY <1>1, <1>2 DEF TwiceInv, Once
<1>8. QuietInv
  <2>1. Cardinality(past.kept) = 0
    BY <1>2, FS_EmptySet
  <2> QED BY <1>1, <1>2, <2>1 DEF QuietInv
<1> QED BY <1>4, <1>5, <1>6, <1>7, <1>8 DEF ListingInv

LEMMA TypeStep ==
  ASSUME TypeInv, RequestInv, [Next]_vars
  PROVE  TypeInv'
<1>0. /\ list \in ByName \cup NewestFirst /\ rows \in [Rows -> {"none", "live", "gone"}]
      /\ walk \in Walk /\ seen \in Seq(Rows) /\ past \in Past
  BY DEF TypeInv
<1>1. CASE Begin
  BY <1>0, <1>1, BeginStep DEF TypeInv
<1>2. CASE Handler
  BY <1>0, <1>2, HandlerStep DEF TypeInv
<1>3. CASE Store
  BY <1>0, <1>3, StoreStep DEF TypeInv
<1>4. CASE Replies
  BY <1>0, <1>4, ReplyStep DEF TypeInv, Replies
<1>5. CASE Fail
  BY <1>0, <1>5, FailStep DEF TypeInv
<1>6. CASE Write
  BY <1>0, <1>6, WriteStep DEF TypeInv
<1>7. CASE UNCHANGED vars
  BY <1>0, <1>7 DEF TypeInv, vars
<1> QED BY <1>1, <1>2, <1>3, <1>4, <1>5, <1>6, <1>7, NextCases

LEMMA RequestStep ==
  ASSUME TypeInv, RequestInv, [Next]_vars
  PROVE  RequestInv'
<1>1. CASE Begin
  BY <1>1, BeginStep, LimitsAssumption DEF RequestInv
<1>2. CASE Handler
  <2>1. /\ SameWalk /\ UNCHANGED <<list, rows>> /\ walk'.at = "count"
        /\ walk'.view = walk.view /\ walk'.limit \in 1 .. MaxPageLimit
        /\ walk.via = "web" => /\ walk'.limit \in 1 .. WebMax
                               /\ walk'.offset = pageOffset(walk'.page, walk'.limit)
        /\ OneList =>
               \/ walk'.store \in Plain /\ walk.filter = "all"
               \/ walk'.store = "SearchDocuments" /\ walk.filter = "search"
               \/ walk'.store = "ListDocumentsByTag" /\ walk.filter = "tag"
               \/ walk'.store = "AuditList"
    BY <1>2, HandlerStep
  <2> QED BY <2>1, SameList DEF RequestInv, SameWalk
<1>3. CASE Store
  <2>1. /\ SameWalk /\ UNCHANGED <<list, rows>> /\ walk'.at \in {"rows", "reply"}
        /\ walk.at \in {"count", "rows"}
        /\ walk'.view = walk.view /\ walk'.limit = walk.limit /\ walk'.offset = walk.offset
        /\ walk'.page = walk.page /\ walk'.store = walk.store
    BY <1>3, StoreStep
  <2> QED BY <2>1, SameList DEF RequestInv, SameWalk
<1>4. CASE Replies
  <2>1. /\ SameWalk /\ UNCHANGED <<list, rows>> /\ walk'.at \in {"ask", "done"}
        /\ walk.filter = "all" => walk'.view = "list"
        /\ walk'.at = "ask" /\ walk.via = "web" => walk'.limit \in 1 .. WebMax
    BY <1>4, ReplyStep DEF Replies
  <2> QED BY <2>1, SameList DEF RequestInv, SameWalk
<1>5. CASE Fail
  <2>1. /\ UNCHANGED <<list, rows>> /\ SameWalk
        /\ walk'.at = "done" /\ walk'.view = "list"
    BY <1>5, FailStep
  <2> QED BY <2>1, SameList DEF RequestInv, SameWalk
<1>6. CASE Write
  <2>1. UNCHANGED <<list, walk>>
    BY <1>6, WriteStep
  <2> QED BY <2>1 DEF RequestInv, OneList, Filters
<1>7. CASE UNCHANGED vars
  BY <1>7 DEF RequestInv, vars, OneList, Filters
<1> QED BY <1>1, <1>2, <1>3, <1>4, <1>5, <1>6, <1>7, NextCases

(* A page brings exactly the rows between its offset and the next one, but  *)
(* for those that others equal.                                             *)
LEMMA PageRows ==
  ASSUME NEW S \in SUBSET Rows, NEW offset \in Nat, NEW limit \in Nat \ {0},
         NEW page, IsPage(page, list, S, offset, limit)
  PROVE  /\ page \in Seq(Rows)
         /\ Once(page)
         /\ \A i \in ToSet(page) :
               /\ i \in S
               /\ Alone(list, i) => /\ offset <= Place(list, S, i)
                                    /\ Place(list, S, i) < offset + limit
         /\ \A i \in S : /\ Alone(list, i)
                          /\ offset <= Place(list, S, i)
                          /\ Place(list, S, i) < offset + limit
                        => i \in ToSet(page)
<1>1. /\ page \in Seq(Rows)
      /\ \A k \in 1 .. Len(page) :
             /\ page[k] \in S /\ k <= limit
             /\ Alone(list, page[k]) => Place(list, S, page[k]) = offset + k - 1
      /\ \A i \in S : /\ Alone(list, i)
                       /\ offset <= Place(list, S, i)
                       /\ Place(list, S, i) < offset + limit
                     => \E k \in 1 .. Len(page) : page[k] = i
  BY DEF IsPage
<1>2. DOMAIN page = 1 .. Len(page) /\ Len(page) \in Nat
  BY <1>1
<1>3. Once(page)
  <2> SUFFICES ASSUME NEW i \in 1 .. Len(page), NEW j \in 1 .. Len(page),
                      Alone(list, page[i]), page[i] = page[j]
               PROVE  i = j
    BY <1>2 DEF Once
  <2>1. offset + i - 1 = offset + j - 1
    BY <1>1
  <2> QED BY <1>2, <2>1
<1>4. ASSUME NEW i \in ToSet(page)
      PROVE  /\ i \in S
             /\ Alone(list, i) => /\ offset <= Place(list, S, i)
                                  /\ Place(list, S, i) < offset + limit
  <2>1. PICK k \in 1 .. Len(page) : page[k] = i
    BY <1>2 DEF ToSet
  <2> QED BY <1>1, <1>2, <2>1
<1>5. ASSUME NEW i \in S, Alone(list, i),
             offset <= Place(list, S, i), Place(list, S, i) < offset + limit
      PROVE  i \in ToSet(page)
  BY <1>1, <1>2, <1>5 DEF ToSet
<1> QED BY <1>1, <1>3, <1>4, <1>5

LEMMA SkipStep ==
  ASSUME TypeInv, RequestInv, SkipInv, [Next]_vars
  PROVE  SkipInv'
<1> DEFINE Still == OneList /\ ~past.deleted /\ ~past.torn
<1>0. /\ Found \in SUBSET Rows /\ past.kept \subseteq Found
      /\ Kept \subseteq Found /\ \A i \in Kept : Alone(list, i)
      /\ walk.offset \in Nat /\ walk.limit \in Int /\ walk.total \in Nat
      /\ walk.shown \in Seq(Rows) /\ seen \in Seq(Rows)
  BY FoundRows DEF TypeInv, Walk, SkipInv, Kept
<1>t. Found' \in SUBSET Rows
  BY DEF Found, Live
<1>1. CASE Begin
  <2>1. past'.kept = Found' /\ walk'.at = "ask" /\ Offset' = 0
    BY <1>1, BeginStep
  <2>2. \A i \in Kept' : ~(Place(list', Found', i) < Offset')
    BY <1>t, <2>1, PlaceType
  <2> QED BY <2>1, <2>2 DEF SkipInv, Kept, Finished
<1>2. CASE Handler
  <2>1. /\ UNCHANGED <<list, rows, seen, past>> /\ walk.at = "ask" /\ walk'.at = "count"
        /\ SameWalk /\ walk'.offset = Offset
    BY <1>2, HandlerStep
  <2>2. Found' = Found /\ (OneList' <=> OneList) /\ Offset' = Offset
    BY <2>1, SameList DEF Offset
  <2> QED BY <2>1, <2>2 DEF SkipInv, Kept, Finished
<1>3. CASE Store
  <2>1. /\ UNCHANGED <<list, rows, seen, past>> /\ SameWalk
        /\ walk'.limit = walk.limit /\ walk'.offset = walk.offset
        /\ \/ /\ walk.at = "count" /\ walk'.at = "rows"
              /\ OneList => walk'.total = Cardinality(Found)
           \/ /\ walk.at = "rows" /\ walk'.at = "reply"
              /\ walk'.total = walk.total
              /\ OneList => IsPage(walk'.shown, list, Found, walk.offset, walk.limit)
    BY <1>3, StoreStep
  <2>2. Found' = Found /\ (OneList' <=> OneList)
    BY <2>1, SameList
  <2>3. CASE walk.at = "count"
    BY <2>1, <2>2, <2>3 DEF SkipInv, Kept, Finished, Offset
  <2>4. CASE walk.at = "rows"
    <3>1. walk.limit \in Nat \ {0}
      BY <2>4, LimitsAssumption DEF RequestInv
    <3>2. ASSUME Still
          PROVE  /\ \A i \in Kept : Place(list, Found, i) < walk.offset + walk.limit =>
                        i \in ToSet(seen) \cup ToSet(walk'.shown)
                 /\ walk.total <= walk.offset + walk.limit =>
                        Kept \subseteq ToSet(seen) \cup ToSet(walk'.shown)
      <4>1. /\ \A i \in Kept : Place(list, Found, i) < walk.offset => i \in ToSet(seen)
            /\ walk.total = Cardinality(Found)
        BY <2>4, <3>2 DEF SkipInv, Offset
      <4>2. ASSUME NEW i \in Kept, Place(list, Found, i) < walk.offset + walk.limit
            PROVE  i \in ToSet(seen) \cup ToSet(walk'.shown)
        <5>1. i \in Found /\ Place(list, Found, i) \in Nat
          BY <1>0, PlaceType
        <5>2. CASE Place(list, Found, i) < walk.offset
          BY <4>1, <5>2
        <5>3. CASE walk.offset <= Place(list, Found, i)
          <6>1. IsPage(walk'.shown, list, Found, walk.offset, walk.limit)
            BY <2>1, <2>4, <3>2
          <6>2. i \in ToSet(walk'.shown)
            BY <1>0, <3>1, <4>2, <5>1, <5>3, <6>1, PageRows
          <6> QED BY <6>2
        <5> QED BY <1>0, <5>1, <5>2, <5>3
      <4>3. ASSUME walk.total <= walk.offset + walk.limit, NEW i \in Kept
            PROVE  i \in ToSet(seen) \cup ToSet(walk'.shown)
        <5>1. i \in Found /\ Place(list, Found, i) \in Nat
          BY <1>0, PlaceType
        <5>2. Place(list, Found, i) < Cardinality(Found) /\ Cardinality(Found) \in Nat
          BY <1>0, <5>1, PlaceOrders, RowsFinite
        <5>3. Place(list, Found, i) < walk.offset + walk.limit
          BY <1>0, <3>1, <4>1, <4>3, <5>1, <5>2
        <5> QED BY <4>2, <5>3
      <4> QED BY <4>2, <4>3
    <3> QED BY <2>1, <2>2, <2>4, <3>2 DEF SkipInv, Kept, Finished
  <2> QED BY <2>1, <2>3, <2>4
<1>4. CASE Replies
  <2>1. /\ UNCHANGED <<list, rows, past>> /\ walk.at = "reply" /\ SameWalk
        /\ OneList => seen' = seen \o walk.shown
        /\ \/ /\ walk'.at = "ask"
              /\ OneList => /\ Offset' = walk.offset + walk.limit
                            /\ walk.offset + walk.limit < walk.total
           \/ /\ walk'.at = "done"
              /\ OneList => walk.total <= walk.offset + walk.limit
    BY <1>4, ReplyStep DEF Replies
  <2>2. Found' = Found /\ (OneList' <=> OneList)
    BY <2>1, SameList
  <2>3. OneList => ToSet(seen') = ToSet(seen) \cup ToSet(walk.shown)
    <3> DEFINE u == seen \o walk.shown
    <3>1. IsJoined(u, seen, walk.shown)
      BY <1>0, Joined
    <3>2. OneList => seen' = u
      BY <2>1
    <3> HIDE DEF u
    <3> QED BY <3>1, <3>2 DEF IsJoined
  <2>4. CASE walk'.at = "ask"
    <3>1. ASSUME Still
          PROVE  \A i \in Kept : Place(list, Found, i) < Offset' => i \in ToSet(seen')
      <4>1. \A i \in Kept : Place(list, Found, i) < walk.offset + walk.limit =>
                 i \in ToSet(seen) \cup ToSet(walk.shown)
        BY <2>1, <3>1 DEF SkipInv
      <4> QED BY <2>1, <2>3, <2>4, <3>1, <4>1
    <3> QED BY <2>1, <2>2, <2>4, <3>1 DEF SkipInv, Kept, Finished
  <2>5. CASE walk'.at = "done"
    BY <2>1, <2>2, <2>3, <2>5 DEF SkipInv, Kept, Finished
  <2> QED BY <2>1, <2>4, <2>5
<1>5. CASE Fail
  <2>1. /\ UNCHANGED <<list, rows, seen>> /\ SameWalk /\ walk'.at = "done"
        /\ past'.failed /\ past'.kept = past.kept
    BY <1>5, FailStep
  <2> QED BY <1>0, <2>1, SameList DEF SkipInv, Kept, Finished
<1>6. CASE Write
  <2>1. /\ UNCHANGED <<list, walk, seen>> /\ past'.failed = past.failed
        /\ past'.torn = (past.torn \/ Between)
        /\ past'.kept \subseteq Found'
        /\ \/ past'.deleted
           \/ /\ past'.deleted = past.deleted /\ past'.kept = past.kept
              /\ Found \in SUBSET Found'
    BY <1>0, <1>6, WriteStep
  <2>2. /\ OneList' <=> OneList
        /\ Offset' = Offset /\ (Finished' <=> Finished)
    BY <1>6, <2>1, WriteStep DEF OneList, Offset, Finished
  <2>3. CASE past'.deleted
    BY <2>1, <2>3 DEF SkipInv
  <2>4. CASE ~past'.deleted
    <3>1. Found \in SUBSET Found' /\ past'.kept = past.kept
          /\ past'.deleted = past.deleted
      BY <2>1, <2>4
    <3>2. \A i \in Kept : /\ Place(list, Found, i) <= Place(list, Found', i)
                               /\ Place(list, Found, i) \in Nat
                               /\ Place(list, Found', i) \in Nat
      BY <1>0, <1>t, <3>1, PlaceGrows, PlaceType
    <3>3. ~past'.torn => ~past.torn /\ walk.at # "rows"
      BY <2>1 DEF Between, TypeInv, Past
    <3>4. \A i \in Kept, x \in Int :
             Place(list, Found', i) < x => Place(list, Found, i) < x
      BY <3>2
    <3>5. walk.offset + walk.limit \in Int
      BY <1>0
    <3>6. walk.at \in {"ask", "count", "rows"} => Offset \in Int
      <4>1. walk.page \in Int /\ walk.limit \in Int
        BY DEF TypeInv, Walk
      <4>2. pageOffset(walk.page, walk.limit) \in Int
        BY <4>1 DEF pageOffset
      <4> QED BY <1>0, <4>2 DEF Offset
    <3> QED BY <2>1, <2>2, <3>1, <3>3, <3>4, <3>5, <3>6 DEF SkipInv, Kept
  <2> QED BY <2>3, <2>4
<1>7. CASE UNCHANGED vars
  BY <1>7 DEF SkipInv, Kept, vars, OneList, Offset, Finished, Found, Live
<1> QED BY <1>1, <1>2, <1>3, <1>4, <1>5, <1>6, <1>7, NextCases

LEMMA TwiceStep ==
  ASSUME TypeInv, RequestInv, TwiceInv, [Next]_vars
  PROVE  TwiceInv'
<1> DEFINE Quiet == OneList /\ ~past.inserted
<1>0. /\ Found \in SUBSET Rows
      /\ walk.offset \in Nat /\ walk.limit \in Int /\ walk.total \in Nat
      /\ walk.shown \in Seq(Rows) /\ seen \in Seq(Rows)
  BY FoundRows DEF TypeInv, Walk
<1>t. Found' \in SUBSET Rows
  BY DEF Found, Live
<1>o. Quiet => Once(seen)
  BY DEF TwiceInv
<1>k. Known \in SUBSET Found /\ \A i \in Known : Alone(list, i)
  BY DEF Known
<1>1. CASE Begin
  <2>1. walk'.at = "ask" /\ seen' = <<>>
    BY <1>1, BeginStep
  <2>2. DOMAIN seen' = {} /\ ToSet(seen') = {}
    BY <2>1 DEF ToSet
  <2> QED BY <2>1, <2>2 DEF TwiceInv, Once
<1>2. CASE Handler
  <2>1. /\ UNCHANGED <<list, rows, seen, past>> /\ walk.at = "ask" /\ walk'.at = "count"
        /\ SameWalk /\ walk'.offset = Offset
    BY <1>2, HandlerStep
  <2>2. Found' = Found /\ (OneList' <=> OneList) /\ Offset' = Offset
    BY <2>1, SameList DEF Offset
  <2> QED BY <2>1, <2>2 DEF TwiceInv, Once, Known
<1>3. CASE Store
  <2>1. /\ UNCHANGED <<list, rows, seen, past>> /\ SameWalk
        /\ walk'.limit = walk.limit /\ walk'.offset = walk.offset
        /\ \/ /\ walk.at = "count" /\ walk'.at = "rows"
           \/ /\ walk.at = "rows" /\ walk'.at = "reply"
              /\ OneList => IsPage(walk'.shown, list, Found, walk.offset, walk.limit)
    BY <1>3, StoreStep
  <2>2. Found' = Found /\ (OneList' <=> OneList)
    BY <2>1, SameList
  <2>3. CASE walk.at = "count"
    BY <2>1, <2>2, <2>3 DEF TwiceInv, Once, Known, Offset
  <2>4. CASE walk.at = "rows"
    <3>1. walk.limit \in Nat \ {0}
      BY <2>4, LimitsAssumption DEF RequestInv
    <3>2. ASSUME Quiet
          PROVE  /\ Once(walk'.shown)
                 /\ Apart(seen, walk'.shown)
                 /\ \A i \in (ToSet(seen) \cup ToSet(walk'.shown)) \cap Known :
                       Place(list, Found, i) < walk.offset + walk.limit
      <4> DEFINE page == walk'.shown
      <4>1. IsPage(page, list, Found, walk.offset, walk.limit)
        BY <2>1, <2>4, <3>2
      <4> HIDE DEF page
      <4>2. /\ Once(page)
            /\ \A i \in ToSet(page) :
                  /\ i \in Found
                  /\ Alone(list, i) => /\ walk.offset <= Place(list, Found, i)
                                       /\ Place(list, Found, i) < walk.offset + walk.limit
        BY <1>0, <3>1, <4>1, PageRows
      <4>3. \A i \in ToSet(seen) \cap Known : Place(list, Found, i) < walk.offset
        BY <2>4, <3>2 DEF TwiceInv, Offset
      <4>4. ASSUME NEW i \in ToSet(seen), i \in ToSet(page), Alone(list, i) PROVE FALSE
        <5>1. i \in Known /\ walk.offset <= Place(list, Found, i)
          BY <4>2, <4>4 DEF Known
        <5>2. Place(list, Found, i) < walk.offset /\ Place(list, Found, i) \in Nat
          BY <1>0, <4>3, <4>4, <5>1, PlaceType
        <5> QED BY <1>0, <5>1, <5>2
      <4>5. ASSUME NEW i \in (ToSet(seen) \cup ToSet(page)) \cap Known
            PROVE  Place(list, Found, i) < walk.offset + walk.limit
        <5>1. Place(list, Found, i) \in Nat /\ Alone(list, i)
          BY <1>0, <1>k, PlaceType
        <5>2. CASE i \in ToSet(seen)
          BY <1>0, <3>1, <4>3, <5>1, <5>2
        <5>3. CASE i \in ToSet(page)
          BY <4>2, <5>1, <5>3
        <5> QED BY <5>2, <5>3
      <4>6. Apart(seen, page)
        BY <4>4 DEF Apart
      <4> QED BY <4>2, <4>5, <4>6 DEF page
    <3> QED BY <2>1, <2>2, <2>4, <3>2, <1>o DEF TwiceInv, Once, Apart, Known
  <2> QED BY <2>1, <2>3, <2>4
<1>4. CASE Replies
  <2>1. /\ UNCHANGED <<list, rows, past>> /\ walk.at = "reply" /\ SameWalk
        /\ OneList => seen' = seen \o walk.shown
        /\ walk'.at \in {"ask", "done"}
        /\ walk'.at = "ask" /\ OneList => Offset' = walk.offset + walk.limit
    BY <1>4, ReplyStep DEF Replies
  <2>2. Found' = Found /\ (OneList' <=> OneList)
    BY <2>1, SameList
  <2>3. ASSUME Quiet
        PROVE  /\ Once(seen')
               /\ walk'.at = "ask" =>
                     \A i \in ToSet(seen') \cap Known : Place(list, Found, i) < Offset'
    <3> DEFINE u == seen \o walk.shown
    <3>1. IsJoined(u, seen, walk.shown)
      BY <1>0, Joined
    <3>2. seen' = u
      BY <2>1, <2>3
    <3> HIDE DEF u
    <3>4. /\ Once(walk.shown)
          /\ Apart(seen, walk.shown)
          /\ \A i \in (ToSet(seen) \cup ToSet(walk.shown)) \cap Known :
                Place(list, Found, i) < walk.offset + walk.limit
      BY <2>1, <2>3 DEF TwiceInv
    <3>5. Once(u) /\ ToSet(u) = ToSet(seen) \cup ToSet(walk.shown)
      BY <1>o, <2>3, <3>1, <3>4 DEF IsJoined
    <3> QED BY <2>1, <2>3, <3>2, <3>4, <3>5
  <2>4. Known' = Known
    BY <2>1, <2>2 DEF Known
  <2>5. (Once(seen))' <=> Once(seen')
    BY <2>1 DEF Once
  <2> QED BY <2>1, <2>2, <2>3, <2>4, <2>5 DEF TwiceInv
<1>5. CASE Fail
  <2>1. /\ UNCHANGED <<list, rows, seen>> /\ SameWalk /\ walk'.at = "done"
        /\ past'.inserted = past.inserted
    BY <1>5, FailStep
  <2> QED BY <1>o, <2>1, SameList DEF TwiceInv, Once
<1>6. CASE Write
  <2>1. /\ UNCHANGED <<list, walk, seen>>
        /\ \/ past'.inserted
           \/ past'.inserted = past.inserted /\ Found' \in SUBSET Found
    BY <1>6, WriteStep
  <2>2. (OneList' <=> OneList) /\ Offset' = Offset
    BY <2>1 DEF OneList, Offset
  <2>3. CASE past'.inserted
    BY <2>3 DEF TwiceInv
  <2>4. CASE ~past'.inserted
    <3>1. /\ Found' \in SUBSET Found /\ past'.inserted = past.inserted
          /\ Known' \in SUBSET Known /\ Known' \in SUBSET Found'
      BY <2>1, <2>4 DEF Known
    <3>2. \A i : /\ Place(list, Found', i) <= Place(list, Found, i)
                 /\ Place(list, Found, i) \in Nat
                 /\ Place(list, Found', i) \in Nat
      BY <1>0, <1>t, <3>1, PlaceGrows, PlaceType
    <3>3. \A i \in Found', x \in Int :
             i \in Found /\ (Place(list, Found, i) < x => Place(list, Found', i) < x)
      BY <3>1, <3>2
    <3>4. walk.offset + walk.limit \in Int
      BY <1>0
    <3>5. walk.at \in {"ask", "count", "rows"} => Offset \in Int
      <4>1. walk.page \in Int /\ walk.limit \in Int
        BY DEF TypeInv, Walk
      <4>2. pageOffset(walk.page, walk.limit) \in Int
        BY <4>1 DEF pageOffset
      <4> QED BY <1>0, <4>2 DEF Offset
    <3>6. walk.at \in {"ask", "count", "rows"} /\ Quiet =>
             \A i \in ToSet(seen) \cap Known' : Place(list, Found', i) < Offset
      BY <3>1, <3>3, <3>5 DEF TwiceInv
    <3>7. walk.at = "reply" /\ Quiet =>
             /\ Once(walk.shown)
             /\ Apart(seen, walk.shown)
             /\ \A i \in (ToSet(seen) \cup ToSet(walk.shown)) \cap Known' :
                   Place(list, Found', i) < walk.offset + walk.limit
      BY <3>1, <3>3, <3>4 DEF TwiceInv
    <3>8. /\ (Once(seen))' <=> Once(seen)
          /\ (Once(walk.shown))' <=> Once(walk.shown)
          /\ (Apart(seen, walk.shown))' <=> Apart(seen, walk.shown)
      BY <2>1 DEF Once, Apart
    <3> QED BY <1>o, <2>1, <2>2, <3>1, <3>6, <3>7, <3>8 DEF TwiceInv
  <2> QED BY <2>3, <2>4
<1>7. CASE UNCHANGED vars
  BY <1>7 DEF TwiceInv, Once, Apart, Known, vars, OneList, Offset, Found, Live
<1> QED BY <1>1, <1>2, <1>3, <1>4, <1>5, <1>6, <1>7, NextCases

LEMMA QuietStep ==
  ASSUME TypeInv, RequestInv, QuietInv, [Next]_vars
  PROVE  QuietInv'
<1> DEFINE Calm == OneList /\ ~past.inserted /\ ~past.deleted
           n == Cardinality(past.kept)
<1>0. /\ past.kept \in SUBSET Rows
      /\ walk.offset \in Nat /\ walk.limit \in Int /\ walk.total \in Nat
      /\ walk.shown \in Seq(Rows) /\ seen \in Seq(Rows) /\ n \in Nat
  <2>1. past.kept \in SUBSET Rows
    BY DEF TypeInv, Past
  <2> QED BY <2>1, RowsFinite DEF TypeInv, Walk
<1>q. Calm => /\ Len(seen) <= n
              /\ \A k \in 1 .. Len(seen) :
                    seen[k] \in past.kept /\ InPlace(list, past.kept, seen[k], k)
  BY DEF QuietInv
<1>1. CASE Begin
  <2>1. /\ walk'.at = "ask" /\ seen' = <<>> /\ Len(seen') = 0 /\ Offset' = 0
        /\ past'.kept = Found' /\ past' \in Past
    BY <1>1, BeginStep
  <2>2. Cardinality(past'.kept) \in Nat
    <3>1. past'.kept \in SUBSET Rows
      BY <2>1 DEF Past
    <3> QED BY <3>1, RowsFinite
  <2> QED BY <2>1, <2>2 DEF QuietInv, Finished
<1>2. CASE Handler
  <2>1. /\ UNCHANGED <<list, rows, seen, past>> /\ walk.at = "ask" /\ walk'.at = "count"
        /\ SameWalk /\ walk'.offset = Offset
    BY <1>2, HandlerStep
  <2>2. Found' = Found /\ (OneList' <=> OneList) /\ Offset' = Offset
    BY <2>1, SameList DEF Offset
  <2> QED BY <2>1, <2>2 DEF QuietInv, Finished
<1>3. CASE Store
  <2>1. /\ UNCHANGED <<list, rows, seen, past>> /\ SameWalk
        /\ walk'.limit = walk.limit /\ walk'.offset = walk.offset
        /\ \/ /\ walk.at = "count" /\ walk'.at = "rows"
              /\ OneList => walk'.total = Cardinality(Found)
           \/ /\ walk.at = "rows" /\ walk'.at = "reply"
              /\ walk'.total = walk.total
              /\ OneList => IsPage(walk'.shown, list, Found, walk.offset, walk.limit)
    BY <1>3, StoreStep
  <2>2. Found' = Found /\ (OneList' <=> OneList)
    BY <2>1, SameList
  <2>3. Offset' = Offset /\ Offset = walk.offset
    BY <2>1 DEF Offset
  <2>4. CASE walk.at = "count"
    BY <2>1, <2>2, <2>3, <2>4 DEF QuietInv, Finished
  <2>5. CASE walk.at = "rows"
    BY <2>1, <2>2, <2>3, <2>5 DEF QuietInv, Finished
  <2> QED BY <2>1, <2>4, <2>5
<1>4. CASE Replies
  <2>1. /\ UNCHANGED <<list, rows, past>> /\ walk.at = "reply" /\ SameWalk
        /\ OneList => seen' = seen \o walk.shown
        /\ \/ /\ walk'.at = "ask"
              /\ OneList => /\ Offset' = walk.offset + walk.limit
                            /\ walk.offset + walk.limit < walk.total
           \/ /\ walk'.at = "done"
              /\ OneList => walk.total <= walk.offset + walk.limit
    BY <1>4, ReplyStep DEF Replies
  <2>2. Found' = Found /\ (OneList' <=> OneList)
    BY <2>1, SameList
  <2>3. walk.limit \in Nat \ {0}
    BY <2>1, LimitsAssumption DEF RequestInv
  <2>4. ASSUME Calm
        PROVE  /\ Len(seen') <= n
               /\ \A k \in 1 .. Len(seen') :
                     seen'[k] \in past.kept /\ InPlace(list, past.kept, seen'[k], k)
               /\ walk'.at = "ask" => Len(seen') = Offset' /\ Offset' < n
               /\ walk'.at = "done" => Len(seen') = n
    <3> DEFINE end == PageEnd(n, walk.offset, walk.limit)
               u == seen \o walk.shown
    <3>1. /\ Len(seen) = walk.offset
          /\ walk.offset = 0 \/ walk.offset < n
          /\ walk.total = n
          /\ IsPage(walk.shown, list, past.kept, walk.offset, walk.limit)
      BY <2>1, <2>4 DEF QuietInv, Offset
    <3>2. IsJoined(u, seen, walk.shown)
      BY <1>0, Joined
    <3>3. seen' = u
      BY <2>1, <2>4
    <3> HIDE DEF u
    <3>4. end = IF walk.offset + walk.limit < n THEN walk.offset + walk.limit ELSE n
      BY DEF PageEnd
    <3>5. /\ Len(walk.shown) = IF walk.offset < n THEN end - walk.offset ELSE 0
          /\ \A k \in 1 .. Len(walk.shown) :
                /\ walk.shown[k] \in past.kept
                /\ InPlace(list, past.kept, walk.shown[k], walk.offset + k)
      BY <3>1 DEF IsPage
    <3> HIDE DEF n, end
    <3>6. walk.offset \in Nat /\ walk.limit \in Nat \ {0} /\ n \in Nat /\ walk.offset <= n
      BY <1>0, <2>3, <3>1
    <3>7. end \in walk.offset .. n /\ Len(walk.shown) = end - walk.offset
      BY <3>4, <3>5, <3>6
    <3>8. Len(u) = end
      BY <1>0, <3>1, <3>2, <3>7 DEF IsJoined
    <3>9. ASSUME NEW k \in 1 .. end
          PROVE  u[k] \in past.kept /\ InPlace(list, past.kept, u[k], k)
      <4>1. CASE k <= Len(seen)
        <5>1. k \in 1 .. Len(seen)
          BY <1>0, <3>7, <4>1
        <5> QED BY <1>q, <2>4, <3>2, <5>1 DEF IsJoined
      <4>2. CASE ~(k <= Len(seen))
        <5>1. k - walk.offset \in 1 .. Len(walk.shown)
              /\ walk.offset + (k - walk.offset) = k
          BY <1>0, <3>1, <3>7, <4>2
        <5>2. u[Len(seen) + (k - walk.offset)] = walk.shown[k - walk.offset]
          BY <3>2, <5>1 DEF IsJoined
        <5> QED BY <3>1, <3>5, <5>1, <5>2
      <4> QED BY <4>1, <4>2
    <3>10. walk'.at = "ask" => end = Offset' /\ Offset' < n
      BY <1>0, <2>1, <2>4, <3>1, <3>4
    <3>11. walk'.at = "done" => end = n
      BY <1>0, <2>1, <2>3, <2>4, <3>1, <3>4
    <3> QED BY <3>3, <3>6, <3>7, <3>8, <3>9, <3>10, <3>11
  <2>5. past.kept = Found \/ ~Calm
    BY <2>1 DEF QuietInv
  <2> QED BY <2>1, <2>2, <2>4, <2>5 DEF QuietInv, Finished
<1>5. CASE Fail
  <2>1. /\ UNCHANGED <<list, rows, seen>> /\ SameWalk /\ walk'.at = "done" /\ past'.failed
        /\ past'.kept = past.kept /\ past'.inserted = past.inserted
        /\ past'.deleted = past.deleted
    BY <1>5, FailStep
  <2> QED BY <1>q, <2>1, SameList DEF QuietInv, Finished
<1>6. CASE Write
  <2>1. past'.inserted \/ past'.deleted
    BY <1>6, WriteStep
  <2> QED BY <2>1 DEF QuietInv
<1>7. CASE UNCHANGED vars
  BY <1>7 DEF QuietInv, vars, OneList, Offset, Found, Live, Finished
<1> QED BY <1>1, <1>2, <1>3, <1>4, <1>5, <1>6, <1>7, NextCases

(* In every state of a walk each row that was there from the start and has  *)
(* its place before the next page was seen, what was seen has its place     *)
(* before it, and a walk that nobody disturbs has seen the list so far.     *)
THEOREM ListingCorrect == Spec => []ListingInv
<1>1. Init => ListingInv
  BY ListingInit
<1>2. ListingInv /\ [Next]_vars => ListingInv'
  BY TypeStep, RequestStep, SkipStep, TwiceStep, QuietStep DEF ListingInv
<1> QED BY <1>1, <1>2, PTL DEF Spec

-----------------------------------------------------------------------------
(***************************************************************************)
(* What follows for the clients.                                           *)
(***************************************************************************)

(* While nobody writes, the pages that a client of any of the seven lists   *)
(* is shown are the list cut in pieces, whatever limit it asks for: as many *)
(* rows as there are, each where its version, time or name puts it, and no  *)
(* page empty.                                                              *)
THEOREM QuietWalksAreExact == Spec => []QuietWalkExact
<1>1. ListingInv => QuietWalkExact
  <2> SUFFICES ASSUME ListingInv, OneList, ~past.inserted, ~past.deleted
               PROVE  /\ \A k \in DOMAIN seen :
                            /\ seen[k] \in past.kept
                            /\ InPlace(list, past.kept, seen[k], k)
                      /\ Finished => Len(seen) = Cardinality(past.kept)
                      /\ walk.at = "reply" /\ past.kept # {} => walk.shown # <<>>
    BY DEF QuietWalkExact
  <2> DEFINE n == Cardinality(past.kept)
  <2>1. /\ past.kept \in SUBSET Rows /\ walk.offset \in Nat /\ walk.limit \in Int
        /\ DOMAIN seen = 1 .. Len(seen) /\ walk.shown \in Seq(Rows)
    BY DEF ListingInv, TypeInv, Walk, Past
  <2>2. /\ \A k \in 1 .. Len(seen) :
              seen[k] \in past.kept /\ InPlace(list, past.kept, seen[k], k)
        /\ Finished => Len(seen) = n
        /\ walk.at = "reply" =>
              /\ IsPage(walk.shown, list, past.kept, walk.offset, walk.limit)
              /\ walk.offset = 0 \/ walk.offset < n
    BY DEF ListingInv, QuietInv, Offset
  <2>3. ASSUME walk.at = "reply", past.kept # {} PROVE walk.shown # <<>>
    <3>1. walk.limit \in Nat \ {0}
      BY <2>3, LimitsAssumption DEF ListingInv, RequestInv
    <3>2. n \in Nat /\ n # 0
      BY <2>1, <2>3, RowsFinite, FS_EmptySet
    <3>3. Len(walk.shown) = IF walk.offset < n THEN PageEnd(n, walk.offset, walk.limit) - walk.offset
                            ELSE 0
      BY <2>2, <2>3 DEF IsPage
    <3>4. walk.offset = 0 \/ walk.offset < n
      BY <2>2, <2>3
    <3> HIDE DEF n
    <3>5. walk.offset < n /\ PageEnd(n, walk.offset, walk.limit) > walk.offset
      BY <2>1, <3>1, <3>2, <3>4 DEF PageEnd
    <3>6. PageEnd(n, walk.offset, walk.limit) \in Nat
      BY <2>1, <3>1, <3>2 DEF PageEnd
    <3>7. Len(walk.shown) # 0
      BY <2>1, <3>3, <3>5, <3>6
    <3> QED BY <3>7
  <2> QED BY <2>1, <2>2, <2>3
<1> QED BY <1>1, ListingCorrect, PTL

(* Rows that appear while a client walks never make it skip one that was    *)
(* there all the time and that no other equals.                             *)
THEOREM WalksSkipNothing == Spec => []NoneSkipped
<1>1. ListingInv => NoneSkipped
  BY DEF ListingInv, SkipInv, Kept, NoneSkipped, ToSet
<1> QED BY <1>1, ListingCorrect, PTL

(* Rows that are deleted while a client walks never make it see one twice   *)
(* that no other equals.                                                    *)
THEOREM WalksRepeatNothing == Spec => []NoneTwice
<1>1. ListingInv => NoneTwice
  BY DEF ListingInv, TwiceInv, Once, NoneTwice
<1> QED BY <1>1, ListingCorrect, PTL


-----------------------------------------------------------------------------
(***************************************************************************)
(* What the audit trail calls a route.  A path ends in a name, or in a     *)
(* name and a parameter.                                                   *)
(***************************************************************************)
Segments == {"projects", "buckets", "documents", "versions", "restore", "tags", "properties",
             "users", "password", "apikeys", "revoke", Id}
Ends(path, name, k) ==
    /\ path \in Seq(Segments) /\ name \in Segments /\ name # Id
    /\ k \in {0, 1} /\ Len(path) >= k + 1
    /\ path[Len(path) - k] = name /\ (k = 1 => path[Len(path)] = Id)

LEMMA NamedAt ==
  ASSUME NEW path, NEW name, NEW k, Ends(path, name, k)
  PROVE  /\ path[Named(path)] = name
         /\ Named(path) = Len(path) <=> k = 0
<1> DEFINE named == {i \in DOMAIN path : path[i] # Id}
           m == Len(path) - k
<1>1. /\ DOMAIN path = 1 .. Len(path) /\ Len(path) \in Nat /\ k \in {0, 1}
      /\ Len(path) >= k + 1
  BY DEF Ends
<1>2. m \in named /\ m \in Int /\ path[m] = name
  BY <1>1 DEF Ends
<1>3. \A i \in named : i <= m /\ i \in Int
  <2> SUFFICES ASSUME NEW i \in named PROVE i <= m /\ i \in Int
    OBVIOUS
  <2>1. i \in 1 .. Len(path) /\ path[i] # Id
    BY <1>1
  <2>2. k = 1 => i # Len(path)
    BY <2>1 DEF Ends
  <2> QED BY <1>1, <2>1, <2>2
<1>4. (m = Len(path)) <=> (k = 0)
  <2> DEFINE l == Len(path)
  <2>1. l \in Nat /\ k \in {0, 1}
    BY <1>1
  <2> HIDE DEF l
  <2>2. (l - k = l) <=> (k = 0)
    BY <2>1
  <2> QED BY <2>2 DEF l
<1> HIDE DEF named, m
<1>5. Max(named) = m
  <2>1. \E x \in named : \A y \in named : x >= y
    BY <1>2, <1>3
  <2>2. Max(named) \in named /\ \A y \in named : Max(named) >= y
    BY <2>1 DEF Max
  <2>3. Max(named) >= m /\ Max(named) <= m /\ Max(named) \in Int
    BY <1>2, <1>3, <2>2
  <2> QED BY <1>2, <2>3
<1>6. Named(path) = m
  BY <1>5 DEF Named, named
<1> QED BY <1>2, <1>4, <1>6

LEMMA EndsIn ==
  ASSUME NEW head \in Seq(Segments), NEW name \in Segments, name # Id
  PROVE  /\ Ends(head \o <<name>>, name, 0)
         /\ Ends(head \o <<name, Id>>, name, 1)
<1>1. Id \in Segments
  BY DEF Segments
<1>2. /\ head \o <<name>> \in Seq(Segments)
      /\ Len(head \o <<name>>) = Len(head) + 1 /\ Len(head) \in Nat
      /\ (head \o <<name>>)[Len(head) + 1] = name
  OBVIOUS
<1>3. /\ head \o <<name, Id>> \in Seq(Segments)
      /\ Len(head \o <<name, Id>>) = Len(head) + 2
      /\ (head \o <<name, Id>>)[Len(head) + 1] = name
      /\ (head \o <<name, Id>>)[Len(head) + 2] = Id
  BY <1>1
<1>4. Ends(head \o <<name>>, name, 0)
  BY <1>2 DEF Ends
<1>5. Ends(head \o <<name, Id>>, name, 1)
  <2> DEFINE u == head \o <<name, Id>>
  <2>1. /\ u \in Seq(Segments) /\ Len(u) = Len(head) + 2 /\ Len(head) \in Nat
        /\ u[Len(head) + 1] = name /\ u[Len(head) + 2] = Id
    BY <1>2, <1>3
  <2> HIDE DEF u
  <2>2. Ends(u, name, 1)
    BY <2>1 DEF Ends
  <2> QED BY <2>2 DEF u
<1> QED BY <1>4, <1>5

LEMMA PathsEnd ==
  /\ Ends(<<"projects">>, "projects", 0) /\ Ends(Project, "projects", 1)
  /\ Ends(Project \o <<"buckets">>, "buckets", 0) /\ Ends(Bucket, "buckets", 1)
  /\ Ends(Bucket \o <<"documents">>, "documents", 0)
  /\ Ends(Document, "documents", 1)
  /\ Ends(Document \o <<"versions", Id, "restore">>, "restore", 0)
  /\ Ends(Document \o <<"tags">>, "tags", 0)
  /\ Ends(Document \o <<"tags", Id>>, "tags", 1)
  /\ Ends(Document \o <<"properties">>, "properties", 0)
  /\ Ends(Document \o <<"properties", Id>>, "properties", 1)
  /\ Ends(<<"users", Id, "password">>, "password", 0)
  /\ Ends(<<"apikeys">>, "apikeys", 0)
  /\ Ends(<<"apikeys", Id, "revoke">>, "revoke", 0)
<1>1. /\ Project \in Seq(Segments) /\ Len(Project) = 2
      /\ Project[1] = "projects" /\ Project[2] = Id
  BY DEF Project, Segments
<1>2. Bucket \in Seq(Segments) /\ Ends(Bucket, "buckets", 1)
      /\ Ends(Project \o <<"buckets">>, "buckets", 0)
  <2>1. "buckets" # Id /\ "buckets" \in Segments
    BY DEF Id, Segments
  <2>2. /\ Ends(Project \o <<"buckets", Id>>, "buckets", 1)
        /\ Ends(Project \o <<"buckets">>, "buckets", 0)
    BY <1>1, <2>1, EndsIn
  <2> QED BY <2>2 DEF Bucket, Ends
<1>3. Document \in Seq(Segments) /\ Ends(Document, "documents", 1)
      /\ Ends(Bucket \o <<"documents">>, "documents", 0)
  <2>1. "documents" # Id /\ "documents" \in Segments
    BY DEF Id, Segments
  <2>2. /\ Ends(Bucket \o <<"documents", Id>>, "documents", 1)
        /\ Ends(Bucket \o <<"documents">>, "documents", 0)
    BY <1>2, <2>1, EndsIn
  <2> QED BY <2>2 DEF Document, Ends
<1>4. /\ Ends(Document \o <<"tags">>, "tags", 0)
      /\ Ends(Document \o <<"tags", Id>>, "tags", 1)
      /\ Ends(Document \o <<"properties">>, "properties", 0)
      /\ Ends(Document \o <<"properties", Id>>, "properties", 1)
  <2>1. "tags" # Id /\ "properties" # Id /\ {"tags", "properties"} \subseteq Segments
    BY DEF Id, Segments
  <2> QED BY <1>3, <2>1, EndsIn
<1>5. Ends(Document \o <<"versions", Id, "restore">>, "restore", 0)
  <2> DEFINE u == Document \o <<"versions", Id, "restore">>
  <2>1. /\ u \in Seq(Segments) /\ Len(u) = Len(Document) + 3 /\ Len(Document) \in Nat
        /\ u[Len(Document) + 3] = "restore"
    <3>1. {"versions", Id, "restore"} \subseteq Segments
      BY DEF Segments
    <3> QED BY <1>3, <3>1
  <2>a. "restore" # Id /\ "restore" \in Segments
    BY DEF Id, Segments
  <2> HIDE DEF u
  <2>2. Ends(u, "restore", 0)
    BY <2>1, <2>a DEF Ends
  <2> QED BY <2>2 DEF u
<1>6. Ends(Project, "projects", 1)
  <2>1. "projects" # Id /\ "projects" \in Segments
    BY DEF Id, Segments
  <2> QED BY <1>1, <2>1 DEF Ends
<1>7. Ends(<<"projects">>, "projects", 0) /\ Ends(<<"apikeys">>, "apikeys", 0)
  BY DEF Ends, Id, Segments
<1>8. /\ Ends(<<"users", Id, "password">>, "password", 0)
      /\ Ends(<<"apikeys", Id, "revoke">>, "revoke", 0)
  BY DEF Ends, Id, Segments
<1> QED BY <1>2, <1>3, <1>4, <1>5, <1>6, <1>7, <1>8

Action(method, name, k) ==
    CASE name = "restore" -> <<"document", "version", "restore">>
      [] name = "tags" ->
            <<"document", "tag", IF k = 0 THEN "replace"
                                 ELSE IF method = "POST" THEN "add" ELSE "remove">>
      [] name = "properties" ->
            <<"document", "property", IF k = 0 THEN "replace"
                                      ELSE IF method = "PUT" THEN "set" ELSE "delete">>
      [] OTHER -> <<singularize(name), methodVerb(method)>>

LEMMA ActionOfEnd ==
  ASSUME NEW method, NEW path, NEW name, NEW k, Ends(path, name, k)
  PROVE  deriveAction(method, path) = Action(method, name, k)
<1>1. path[Named(path)] = name /\ (Named(path) = Len(path) <=> k = 0)
  BY NamedAt
<1> QED BY <1>1 DEF deriveAction, Action

(* The route that an action is about.                                       *)
Changes == {route \in Routes : route[1] # "GET"}
Told(action) ==
    CASE action = <<"project", "create">> -> <<"POST", <<"projects">>>>
      [] action = <<"project", "update">> -> <<"PUT", Project>>
      [] action = <<"project", "delete">> -> <<"DELETE", Project>>
      [] action = <<"bucket", "create">> -> <<"POST", Project \o <<"buckets">>>>
      [] action = <<"bucket", "update">> -> <<"PUT", Bucket>>
      [] action = <<"bucket", "delete">> -> <<"DELETE", Bucket>>
      [] action = <<"document", "create">> -> <<"POST", Bucket \o <<"documents">>>>
      [] action = <<"document", "update">> -> <<"PUT", Document>>
      [] action = <<"document", "delete">> -> <<"DELETE", Document>>
      [] action = <<"document", "version", "restore">> ->
            <<"POST", Document \o <<"versions", Id, "restore">>>>
      [] action = <<"document", "tag", "replace">> -> <<"PUT", Document \o <<"tags">>>>
      [] action = <<"document", "tag", "add">> -> <<"POST", Document \o <<"tags", Id>>>>
      [] action = <<"document", "tag", "remove">> -> <<"DELETE", Document \o <<"tags", Id>>>>
      [] action = <<"document", "property", "replace">> ->
            <<"PUT", Document \o <<"properties">>>>
      [] action = <<"document", "property", "set">> ->
            <<"PUT", Document \o <<"properties", Id>>>>
      [] action = <<"document", "property", "delete">> ->
            <<"DELETE", Document \o <<"properties", Id>>>>
      [] action = <<"password", "patch">> -> <<"PATCH", <<"users", Id, "password">>>>
      [] action = <<"apikeys", "create">> -> <<"POST", <<"apikeys">>>>
      [] action = <<"revoke", "create">> -> <<"POST", <<"apikeys", Id, "revoke">>>>
      [] OTHER -> <<>>

LEMMA ActionTells ==
  ASSUME NEW route \in Changes
  PROVE  Told(deriveAction(route[1], route[2])) = route
<1> DEFINE a == deriveAction(route[1], route[2])
<1>0. route \in Routes /\ route[1] # "GET"
  BY DEF Changes
<1>1. CASE route = <<"POST", <<"projects">>>>
  <2>1. route[1] = "POST" /\ route[2] = <<"projects">>
    BY <1>1
  <2>2. a = Action("POST", "projects", 0)
    BY <2>1, PathsEnd, ActionOfEnd
  <2>3. a = <<"project", "create">>
    BY <2>2 DEF Action, singularize, methodVerb
  <2> HIDE DEF a
  <2>4. Told(a) = <<"POST", <<"projects">>>>
    BY <2>3 DEF Told
  <2> QED BY <1>1, <2>4 DEF a
<1>2. CASE route = <<"PUT", Project>>
  <2>1. route[1] = "PUT" /\ route[2] = Project
    BY <1>2
  <2>2. a = Action("PUT", "projects", 1)
    BY <2>1, PathsEnd, ActionOfEnd
  <2>3. a = <<"project", "update">>
    BY <2>2 DEF Action, singularize, methodVerb
  <2> HIDE DEF a
  <2>4. Told(a) = <<"PUT", Project>>
    BY <2>3 DEF Told
  <2> QED BY <1>2, <2>4 DEF a
<1>3. CASE route = <<"DELETE", Project>>
  <2>1. route[1] = "DELETE" /\ route[2] = Project
    BY <1>3
  <2>2. a = Action("DELETE", "projects", 1)
    BY <2>1, PathsEnd, ActionOfEnd
  <2>3. a = <<"project", "delete">>
    BY <2>2 DEF Action, singularize, methodVerb
  <2> HIDE DEF a
  <2>4. Told(a) = <<"DELETE", Project>>
    BY <2>3 DEF Told
  <2> QED BY <1>3, <2>4 DEF a
<1>4. CASE route = <<"POST", Project \o <<"buckets">>>>
  <2>1. route[1] = "POST" /\ route[2] = Project \o <<"buckets">>
    BY <1>4
  <2>2. a = Action("POST", "buckets", 0)
    BY <2>1, PathsEnd, ActionOfEnd
  <2>3. a = <<"bucket", "create">>
    BY <2>2 DEF Action, singularize, methodVerb
  <2> HIDE DEF a
  <2>4. Told(a) = <<"POST", Project \o <<"buckets">>>>
    BY <2>3 DEF Told
  <2> QED BY <1>4, <2>4 DEF a
<1>5. CASE route = <<"PUT", Bucket>>
  <2>1. route[1] = "PUT" /\ route[2] = Bucket
    BY <1>5
  <2>2. a = Action("PUT", "buckets", 1)
    BY <2>1, PathsEnd, ActionOfEnd
  <2>3. a = <<"bucket", "update">>
    BY <2>2 DEF Action, singularize, methodVerb
  <2> HIDE DEF a
  <2>4. Told(a) = <<"PUT", Bucket>>
    BY <2>3 DEF Told
  <2> QED BY <1>5, <2>4 DEF a
<1>6. CASE route = <<"DELETE", Bucket>>
  <2>1. route[1] = "DELETE" /\ route[2] = Bucket
    BY <1>6
  <2>2. a = Action("DELETE", "buckets", 1)
    BY <2>1, PathsEnd, ActionOfEnd
  <2>3. a = <<"bucket", "delete">>
    BY <2>2 DEF Action, singularize, methodVerb
  <2> HIDE DEF a
  <2>4. Told(a) = <<"DELETE", Bucket>>
    BY <2>3 DEF Told
  <2> QED BY <1>6, <2>4 DEF a
<1>7. CASE route = <<"POST", Bucket \o <<"documents">>>>
  <2>1. route[1] = "POST" /\ route[2] = Bucket \o <<"documents">>
    BY <1>7
  <2>2. a = Action("POST", "documents", 0)
    BY <2>1, PathsEnd, ActionOfEnd
  <2>3. a = <<"document", "create">>
    BY <2>2 DEF Action, singularize, methodVerb
  <2> HIDE DEF a
  <2>4. Told(a) = <<"POST", Bucket \o <<"documents">>>>
    BY <2>3 DEF Told
  <2> QED BY <1>7, <2>4 DEF a
<1>8. CASE route = <<"PUT", Document>>
  <2>1. route[1] = "PUT" /\ route[2] = Document
    BY <1>8
  <2>2. a = Action("PUT", "documents", 1)
    BY <2>1, PathsEnd, ActionOfEnd
  <2>3. a = <<"document", "update">>
    BY <2>2 DEF Action, singularize, methodVerb
  <2> HIDE DEF a
  <2>4. Told(a) = <<"PUT", Document>>
    BY <2>3 DEF Told
  <2> QED BY <1>8, <2>4 DEF a
<1>9. CASE route = <<"DELETE", Document>>
  <2>1. route[1] = "DELETE" /\ route[2] = Document
    BY <1>9
  <2>2. a = Action("DELETE", "documents", 1)
    BY <2>1, PathsEnd, ActionOfEnd
  <2>3. a = <<"document", "delete">>
    BY <2>2 DEF Action, singularize, methodVerb
  <2> HIDE DEF a
  <2>4. Told(a) = <<"DELETE", Document>>
    BY <2>3 DEF Told
  <2> QED BY <1>9, <2>4 DEF a
<1>10. CASE route = <<"POST", Document \o <<"versions", Id, "restore">>>>
  <2>1. route[1] = "POST" /\ route[2] = Document \o <<"versions", Id, "restore">>
    BY <1>10
  <2>2. a = Action("POST", "restore", 0)
    BY <2>1, PathsEnd, ActionOfEnd
  <2>3. a = <<"document", "version", "restore">>
    BY <2>2 DEF Action, singularize, methodVerb
  <2> HIDE DEF a
  <2>4. Told(a) = <<"POST", Document \o <<"versions", Id, "restore">>>>
    BY <2>3 DEF Told
  <2> QED BY <1>10, <2>4 DEF a
<1>11. CASE route = <<"PUT", Document \o <<"tags">>>>
  <2>1. route[1] = "PUT" /\ route[2] = Document \o <<"tags">>
    BY <1>11
  <2>2. a = Action("PUT", "tags", 0)
    BY <2>1, PathsEnd, ActionOfEnd
  <2>3. a = <<"document", "tag", "replace">>
    BY <2>2 DEF Action, singularize, methodVerb
  <2> HIDE DEF a
  <2>4. Told(a) = <<"PUT", Document \o <<"tags">>>>
    BY <2>3 DEF Told
  <2> QED BY <1>11, <2>4 DEF a
<1>12. CASE route = <<"POST", Document \o <<"tags", Id>>>>
  <2>1. route[1] = "POST" /\ route[2] = Document \o <<"tags", Id>>
    BY <1>12
  <2>2. a = Action("POST", "tags", 1)
    BY <2>1, PathsEnd, ActionOfEnd
  <2>3. a = <<"document", "tag", "add">>
    BY <2>2 DEF Action, singularize, methodVerb
  <2> HIDE DEF a
  <2>4. Told(a) = <<"POST", Document \o <<"tags", Id>>>>
    BY <2>3 DEF Told
  <2> QED BY <1>12, <2>4 DEF a
<1>13. CASE route = <<"DELETE", Document \o <<"tags", Id>>>>
  <2>1. route[1] = "DELETE" /\ route[2] = Document \o <<"tags", Id>>
    BY <1>13
  <2>2. a = Action("DELETE", "tags", 1)
    BY <2>1, PathsEnd, ActionOfEnd
  <2>3. a = <<"document", "tag", "remove">>
    BY <2>2 DEF Action, singularize, methodVerb
  <2> HIDE DEF a
  <2>4. Told(a) = <<"DELETE", Document \o <<"tags", Id>>>>
    BY <2>3 DEF Told
  <2> QED BY <1>13, <2>4 DEF a
<1>14. CASE route = <<"PUT", Document \o <<"properties">>>>
  <2>1. route[1] = "PUT" /\ route[2] = Document \o <<"properties">>
    BY <1>14
  <2>2. a = Action("PUT", "properties", 0)
    BY <2>1, PathsEnd, ActionOfEnd
  <2>3. a = <<"document", "property", "replace">>
    BY <2>2 DEF Action, singularize, methodVerb
  <2> HIDE DEF a
  <2>4. Told(a) = <<"PUT", Document \o <<"properties">>>>
    BY <2>3 DEF Told
  <2> QED BY <1>14, <2>4 DEF a
<1>15. CASE route = <<"PUT", Document \o <<"properties", Id>>>>
  <2>1. route[1] = "PUT" /\ route[2] = Document \o <<"properties", Id>>
    BY <1>15
  <2>2. a = Action("PUT", "properties", 1)
    BY <2>1, PathsEnd, ActionOfEnd
  <2>3. a = <<"document", "property", "set">>
    BY <2>2 DEF Action, singularize, methodVerb
  <2> HIDE DEF a
  <2>4. Told(a) = <<"PUT", Document \o <<"properties", Id>>>>
    BY <2>3 DEF Told
  <2> QED BY <1>15, <2>4 DEF a
<1>16. CASE route = <<"DELETE", Document \o <<"properties", Id>>>>
  <2>1. route[1] = "DELETE" /\ route[2] = Document \o <<"properties", Id>>
    BY <1>16
  <2>2. a = Action("DELETE", "properties", 1)
    BY <2>1, PathsEnd, ActionOfEnd
  <2>3. a = <<"document", "property", "delete">>
    BY <2>2 DEF Action, singularize, methodVerb
  <2> HIDE DEF a
  <2>4. Told(a) = <<"DELETE", Document \o <<"properties", Id>>>>
    BY <2>3 DEF Told
  <2> QED BY <1>16, <2>4 DEF a
<1>17. CASE route = <<"PATCH", <<"users", Id, "password">>>>
  <2>1. route[1] = "PATCH" /\ route[2] = <<"users", Id, "password">>
    BY <1>17
  <2>2. a = Action("PATCH", "password", 0)
    BY <2>1, PathsEnd, ActionOfEnd
  <2>3. a = <<"password", "patch">>
    BY <2>2 DEF Action, singularize, methodVerb
  <2> HIDE DEF a
  <2>4. Told(a) = <<"PATCH", <<"users", Id, "password">>>>
    BY <2>3 DEF Told
  <2> QED BY <1>17, <2>4 DEF a
<1>18. CASE route = <<"POST", <<"apikeys">>>>
  <2>1. route[1] = "POST" /\ route[2] = <<"apikeys">>
    BY <1>18
  <2>2. a = Action("POST", "apikeys", 0)
    BY <2>1, PathsEnd, ActionOfEnd
  <2>3. a = <<"apikeys", "create">>
    BY <2>2 DEF Action, singularize, methodVerb
  <2> HIDE DEF a
  <2>4. Told(a) = <<"POST", <<"apikeys">>>>
    BY <2>3 DEF Told
  <2> QED BY <1>18, <2>4 DEF a
<1>19. CASE route = <<"POST", <<"apikeys", Id, "revoke">>>>
  <2>1. route[1] = "POST" /\ route[2] = <<"apikeys", Id, "revoke">>
    BY <1>19
  <2>2. a = Action("POST", "revoke", 0)
    BY <2>1, PathsEnd, ActionOfEnd
  <2>3. a = <<"revoke", "create">>
    BY <2>2 DEF Action, singularize, methodVerb
  <2> HIDE DEF a
  <2>4. Told(a) = <<"POST", <<"apikeys", Id, "revoke">>>>
    BY <2>3 DEF Told
  <2> QED BY <1>19, <2>4 DEF a
<1>20. CASE route \in OneRoutes
  <2>1. PICK method \in {"PUT", "DELETE", "GET"}, path \in {Project, Bucket, Document} :
           route = <<method, path>>
    BY <1>20 DEF OneRoutes
  <2>2. route[1] = method
    BY <2>1
  <2>3. method \in {"PUT", "DELETE"}
    BY <1>0, <2>2
  <2> QED BY <2>1, <2>3, <1>2, <1>3, <1>5, <1>6, <1>8, <1>9
<1>21. CASE route \in OtherRoutes
  BY <1>21, <1>1, <1>4, <1>7, <1>10, <1>11, <1>12, <1>13, <1>14, <1>15, <1>16, <1>17,
     <1>18, <1>19 DEF OtherRoutes
<1> QED BY <1>0, <1>20, <1>21 DEF Routes

(* No two routes that change something share an action.                     *)
LEMMA ActionsDiffer ==
  ASSUME NEW a \in Changes, NEW b \in Changes,
         deriveAction(a[1], a[2]) = deriveAction(b[1], b[2])
  PROVE  a = b
<1>1. Told(deriveAction(a[1], a[2])) = a /\ Told(deriveAction(b[1], b[2])) = b
  BY ActionTells
<1> QED BY <1>1

-----------------------------------------------------------------------------
(***************************************************************************)
(* The process: where main is says whether the database is open, and who   *)
(* may still use it.                                                       *)
(***************************************************************************)
Mains == {"down", "open", "migrate", "storage", "lead", "bootstrap", "serve", "drain",
          "stopLeader", "close"}

ProcessInv ==
    /\ main \in Mains
    /\ listening => main = "serve"
    /\ main \in {"down", "open"} => Active = {}
    /\ main \in Mains \ {"down", "open", "close"} => ~closed
    /\ main \in {"stopLeader", "close"} /\ Active # {} => expired

States == {"new", "handler", "middleware", "answered", "cut"}
RequestsTyped ==
    /\ req \in [Requests -> [at : States, route : Routes, done : BOOLEAN, ok : BOOLEAN]]
    /\ event \in [Requests -> {"none", "pending", "logged", "lost"}]

(* What an event is about: a request that was answered with success after   *)
(* its change.                                                              *)
Success(r) == /\ r \in Requests /\ req[r].at = "answered" /\ req[r].route \in Changes
              /\ req[r].done /\ req[r].ok
EventsInv ==
    /\ \A r \in Requests : req[r].at = "middleware" /\ Recorded(r) => req[r].done
    /\ \A r \in Requests : event[r] = "pending" => Success(r)
    /\ \A e \in log : /\ Success(e[1])
                      /\ e[2] = deriveAction(req[e[1]].route[1], req[e[1]].route[2])

ServerInv == ProcessInv /\ RequestsTyped /\ EventsInv

LEMMA ServerStarts == ServerInit => ServerInv
<1> SUFFICES ASSUME ServerInit PROVE ServerInv
  OBVIOUS
<1>1. NoRequest \in [at : States, route : Routes, done : BOOLEAN, ok : BOOLEAN]
      /\ NoRequest.at = "new"
  <2>1. <<"GET", Project>> \in Routes
    BY DEF Routes, OneRoutes
  <2> QED BY <2>1 DEF NoRequest, States
<1>2. /\ req = [r \in Requests |-> NoRequest] /\ event = [r \in Requests |-> "none"]
      /\ log = {} /\ main = "down" /\ listening = FALSE
  BY DEF ServerInit
<1>3. RequestsTyped
  BY <1>1, <1>2 DEF RequestsTyped
<1>4. \A r \in Requests : req[r].at = "new"
  BY <1>1, <1>2
<1>5. ProcessInv
  BY <1>2, <1>4 DEF ProcessInv, Mains, Active
<1>6. EventsInv
  BY <1>2, <1>4 DEF EventsInv
<1> QED BY <1>3, <1>5, <1>6 DEF ServerInv

(* main goes on: nothing happens to the requests.                           *)
LEMMA MainSteps ==
  ASSUME ServerInv, Main \/ Signal \/ Crash, ~Exit
  PROVE  ProcessInv' /\ UNCHANGED requests
<1>1. UNCHANGED requests
  BY DEF Main, Signal, Crash, Load, Open, Migrate, NewStorage, StartLeader, EnsureAdmin,
         Prepare, ListenAndServe, Shutdown, StopLeader, Close, Return, requests
<1>2. Active' = Active
  BY <1>1 DEF Active, requests
<1>3. ProcessInv
  BY DEF ServerInv
<1>4. CASE Load \/ Migrate \/ NewStorage \/ StartLeader \/ EnsureAdmin
  BY <1>2, <1>3, <1>4 DEF ProcessInv, Mains, Load, Migrate, NewStorage, StartLeader,
     EnsureAdmin, Prepare
<1>5. CASE Open \/ ListenAndServe
  BY <1>2, <1>3, <1>5 DEF ProcessInv, Mains, Open, ListenAndServe
<1>6. CASE Signal \/ Shutdown \/ StopLeader
  BY <1>2, <1>3, <1>6 DEF ProcessInv, Mains, Signal, Shutdown, StopLeader
<1>7. CASE Close
  BY <1>2, <1>3, <1>7 DEF ProcessInv, Mains, Close
<1> QED BY <1>1, <1>4, <1>5, <1>6, <1>7 DEF Main, Crash, Return

(* The process ends: no handler is left, and what was answered stays so.    *)
LEMMA ExitStep ==
  ASSUME ServerInv, Exit
  PROVE  ServerInv'
<1>0. /\ req \in [Requests -> [at : States, route : Routes, done : BOOLEAN, ok : BOOLEAN]]
      /\ event \in [Requests -> {"none", "pending", "logged", "lost"}]
  BY DEF ServerInv, RequestsTyped
<1>1. ASSUME NEW r \in Requests
      PROVE  /\ req'[r] \in [at : States, route : Routes, done : BOOLEAN, ok : BOOLEAN]
             /\ req'[r].at \in {"new", "answered", "cut"}
             /\ req'[r].at \in {"new", "answered"} => req'[r] = req[r]
             /\ req[r].at = "answered" => req'[r] = req[r]
  <2>1. req'[r] = IF r \in Active THEN [req[r] EXCEPT !.at = "cut"] ELSE req[r]
    BY DEF Exit
  <2>2. req[r] \in [at : States, route : Routes, done : BOOLEAN, ok : BOOLEAN]
    BY <1>0
  <2>3. CASE r \in Active
    BY <2>1, <2>2, <2>3 DEF Active, States
  <2>4. CASE r \notin Active
    BY <2>1, <2>2, <2>4 DEF Active, States
  <2> QED BY <2>3, <2>4
<1>2. RequestsTyped'
  BY <1>0, <1>1 DEF RequestsTyped, Exit
<1>3. Active' = {}
  BY <1>1 DEF Active
<1>4. ProcessInv'
  BY <1>3 DEF ProcessInv, Exit, Mains
<1>5. /\ log' = log
      /\ \A r \in Requests : event'[r] = "pending" => event[r] = "pending"
  BY <1>0 DEF Exit
<1>6. \A r : Success(r) => Success(r)' /\ req'[r] = req[r]
  BY <1>1 DEF Success
<1>7. EventsInv'
  BY <1>1, <1>5, <1>6 DEF EventsInv, ServerInv, Success
<1> QED BY <1>2, <1>4, <1>7 DEF ServerInv

(* A request goes on: those that were answered stay as they are.            *)
LEMMA RequestSteps ==
  ASSUME ServerInv, NEW r \in Requests,
         Accept(r) \/ Change(r) \/ Handled(r) \/ Middleware(r)
  PROVE  ServerInv'
<1> DEFINE Req == [at : States, route : Routes, done : BOOLEAN, ok : BOOLEAN]
<1>0. /\ req \in [Requests -> Req]
      /\ event \in [Requests -> {"none", "pending", "logged", "lost"}]
      /\ req[r] \in Req
  BY DEF ServerInv, RequestsTyped
<1>1. UNCHANGED <<main, listening, closed, expired, log>>
  BY DEF Accept, Change, Handled, Middleware
<1>2. ASSUME NEW x \in Requests, x # r PROVE req'[x] = req[x] /\ event'[x] = event[x]
  BY <1>0, <1>2 DEF Accept, Change, Handled, Middleware
<1>3. req[r].at # "answered" /\ event[r] # "pending"
  <2>1. req[r].at # "answered"
    BY DEF Accept, Change, Handled, Middleware
  <2> QED BY <2>1 DEF ServerInv, EventsInv, Success
<1>4. /\ req' \in [Requests -> Req]
      /\ event' \in [Requests -> {"none", "pending", "logged", "lost"}]
      /\ req'[r].at \in {"handler", "middleware"} => r \in Active \/ main = "serve"
      /\ req'[r].at = "middleware" /\ Recorded(r)' => req'[r].done
      /\ event'[r] = "pending" => Success(r)'
  <2>1. CASE Accept(r)
    <3>1. PICK route \in Served :
             req' = [req EXCEPT ![r].at = "handler", ![r].route = route]
      BY <2>1 DEF Accept
    <3>2. req'[r] = [req[r] EXCEPT !.at = "handler", !.route = route] /\ route \in Routes
      BY <1>0, <3>1, ServedAssumption
    <3>3. req'[r] \in Req /\ req'[r].at = "handler"
      BY <1>0, <3>2 DEF States
    <3>4. event' = event /\ main = "serve"
      BY <2>1 DEF Accept, ServerInv, ProcessInv
    <3> QED BY <1>0, <1>3, <3>1, <3>3, <3>4
  <2>2. CASE Change(r)
    <3>1. req'[r] = [req[r] EXCEPT !.done = TRUE] /\ req[r].at = "handler" /\ event' = event
      BY <1>0, <2>2 DEF Change
    <3>2. req'[r] \in Req /\ req'[r].at = "handler"
      BY <1>0, <3>1
    <3> QED BY <1>0, <1>3, <2>2, <3>1, <3>2 DEF Change, Active
  <2>3. CASE Handled(r)
    <3>1. PICK ok \in {req[r].done \/ (req[r].route[1] = "GET" /\ ~closed), FALSE} :
             req' = [req EXCEPT ![r].at = "middleware", ![r].ok = ok]
      BY <2>3 DEF Handled
    <3>2. ok \in BOOLEAN /\ (ok => req[r].done \/ req[r].route[1] = "GET")
      BY <1>0, <3>1
    <3>3. req'[r] = [req[r] EXCEPT !.at = "middleware", !.ok = ok]
          /\ req[r].at = "handler" /\ event' = event
      BY <1>0, <2>3, <3>1 DEF Handled
    <3>4. /\ req'[r] \in Req /\ req'[r].at = "middleware" /\ req'[r].ok = ok
          /\ req'[r].done = req[r].done /\ req'[r].route = req[r].route
      BY <1>0, <3>2, <3>3 DEF States
    <3>5. Recorded(r)' => req'[r].done
      BY <3>2, <3>4 DEF Recorded
    <3> QED BY <1>0, <1>3, <3>1, <3>3, <3>4, <3>5 DEF Active
  <2>4. CASE Middleware(r)
    <3>1. /\ req' = [req EXCEPT ![r].at = "answered"] /\ req[r].at = "middleware"
          /\ event' = [event EXCEPT ![r] = IF Recorded(r) THEN "pending" ELSE "none"]
      BY <2>4 DEF Middleware
    <3>2. req'[r] = [req[r] EXCEPT !.at = "answered"]
      BY <1>0, <3>1
    <3>3. /\ req'[r] \in Req /\ req'[r].at = "answered" /\ req'[r].ok = req[r].ok
          /\ req'[r].done = req[r].done /\ req'[r].route = req[r].route
      BY <1>0, <3>2 DEF States
    <3>4. Recorded(r) => Success(r)'
      BY <1>0, <3>1, <3>3 DEF Success, Recorded, ServerInv, EventsInv, Changes
    <3> QED BY <1>0, <3>1, <3>3, <3>4
  <2> QED BY <2>1, <2>2, <2>3, <2>4
<1>5. Active' \subseteq Active \/ main = "serve"
  BY <1>2, <1>4 DEF Active
<1>6. ProcessInv'
  BY <1>1, <1>5 DEF ServerInv, ProcessInv, Mains
<1>7. \A x : Success(x) => Success(x)' /\ req'[x] = req[x]
  BY <1>2, <1>3 DEF Success
<1>8. EventsInv'
  <2>1. \A x \in Requests : req'[x].at = "middleware" /\ Recorded(x)' => req'[x].done
    BY <1>2, <1>4 DEF ServerInv, EventsInv, Recorded
  <2>2. \A x \in Requests : event'[x] = "pending" => Success(x)'
    BY <1>2, <1>4, <1>7 DEF ServerInv, EventsInv
  <2>3. \A e \in log' : /\ Success(e[1])'
                        /\ e[2] = deriveAction(req'[e[1]].route[1], req'[e[1]].route[2])
    BY <1>1, <1>7 DEF ServerInv, EventsInv
  <2> QED BY <2>1, <2>2, <2>3 DEF EventsInv
<1> QED BY <1>4, <1>6, <1>8 DEF ServerInv, RequestsTyped

(* The goroutine of an event reads a request that nobody changes any more.  *)
LEMMA RecordStep ==
  ASSUME ServerInv, NEW r \in Requests, Record(r)
  PROVE  ServerInv'
<1>1. UNCHANGED <<main, listening, closed, expired, req>> /\ Success(r)
  BY DEF Record, ServerInv, EventsInv
<1>2. /\ event' \in [Requests -> {"none", "pending", "logged", "lost"}]
      /\ \A x \in Requests : event'[x] = "pending" => event[x] = "pending"
  BY DEF Record, ServerInv, RequestsTyped
<1>3. \A e \in log' :
         e \in log \/ e = <<r, deriveAction(req[r].route[1], req[r].route[2])>>
  BY DEF Record
<1>4. ProcessInv' /\ RequestsTyped'
  BY <1>1, <1>2 DEF ServerInv, ProcessInv, RequestsTyped, Active
<1>5. \A x : Success(x)' <=> Success(x)
  BY <1>1 DEF Success
<1>6. EventsInv'
  <2>1. \A x \in Requests : req'[x].at = "middleware" /\ Recorded(x)' => req'[x].done
    BY <1>1 DEF ServerInv, EventsInv, Recorded
  <2>2. \A x \in Requests : event'[x] = "pending" => Success(x)'
    BY <1>2, <1>5 DEF ServerInv, EventsInv
  <2>3. \A e \in log' : /\ Success(e[1])'
                        /\ e[2] = deriveAction(req'[e[1]].route[1], req'[e[1]].route[2])
    BY <1>1, <1>3, <1>5 DEF ServerInv, EventsInv
  <2> QED BY <2>1, <2>2, <2>3 DEF EventsInv
<1> QED BY <1>4, <1>6 DEF ServerInv

LEMMA ServerInductive == ServerInv /\ [ServerNext]_serverVars => ServerInv'
<1> SUFFICES ASSUME ServerInv, [ServerNext]_serverVars PROVE ServerInv'
  OBVIOUS
<1>1. CASE Exit
  BY <1>1, ExitStep
<1>2. CASE (Main \/ Signal \/ Crash) /\ ~Exit
  <2>1. ProcessInv' /\ UNCHANGED requests
    BY <1>2, MainSteps
  <2> QED BY <2>1 DEF ServerInv, RequestsTyped, EventsInv, Success, Recorded, requests
<1>3. CASE \E r \in Requests :
              Accept(r) \/ Change(r) \/ Handled(r) \/ Middleware(r) \/ Record(r)
  BY <1>3, RequestSteps, RecordStep
<1>4. CASE UNCHANGED serverVars
  BY <1>4 DEF serverVars, ServerInv, ProcessInv, RequestsTyped, EventsInv, Success, Recorded, Active
<1> QED BY <1>1, <1>2, <1>3, <1>4 DEF ServerNext

LEMMA ServerAlways == ServerSpec => []ServerInv
<1>1. ServerInit => ServerInv
  BY ServerStarts
<1> QED BY <1>1, ServerInductive, PTL DEF ServerSpec

(* main closes the database under a handler only if the shutdown ran out of *)
(* its 30 s, wherever in its start or its end the process is.               *)
THEOREM HandlersAreDrained == ServerSpec => []DrainedBeforeClose
<1>1. ServerInv => DrainedBeforeClose
  BY DEF ServerInv, ProcessInv, DrainedBeforeClose, Mains
<1> QED BY <1>1, ServerAlways, PTL

(* However late its goroutine runs, an event of the audit trail tells what  *)
(* a request did that was answered with success, and its action is that of  *)
(* no other route.                                                          *)
THEOREM EventsAreTrue == ServerSpec => []EventsTell
<1>1. ServerInv => EventsTell
  <2> SUFFICES ASSUME ServerInv, NEW e \in log
               PROVE  /\ req[e[1]].done /\ req[e[1]].ok
                      /\ \A route \in Routes :
                            route[1] # "GET" /\ deriveAction(route[1], route[2]) = e[2] =>
                                route = req[e[1]].route
    BY DEF EventsTell
  <2>1. /\ Success(e[1])
        /\ e[2] = deriveAction(req[e[1]].route[1], req[e[1]].route[2])
    BY DEF ServerInv, EventsInv
  <2>2. ASSUME NEW route \in Routes, route[1] # "GET",
               deriveAction(route[1], route[2]) = e[2]
        PROVE  route = req[e[1]].route
    <3>1. route \in Changes /\ req[e[1]].route \in Changes
      BY <2>1, <2>2 DEF Success, Changes
    <3> QED BY <2>1, <2>2, <3>1, ActionsDiffer
  <2> QED BY <2>1, <2>2 DEF Success
<1> QED BY <1>1, ServerAlways, PTL

=============================================================================
