------------------------- MODULE CatalogSyncProofs -------------------------
(***************************************************************************)
(* Theorems about CatalogSync, for any ids, page size and bounds: the      *)
(* pages of a refresh are contiguous, an undisturbed refresh is complete   *)
(* although the catalog grows while its pages are fetched, no outage       *)
(* clears the map, and the types.                                          *)
(*                                                                         *)
(* The argument: an insertion moves an entry only to the right, so an      *)
(* entry that has been in the catalog since the refresh began and is now   *)
(* among the first (page - 1) * PageSize of its list was there, or further *)
(* left, when those pages were fetched, hence has been fetched.            *)
(***************************************************************************)
EXTENDS CatalogSync, SequenceTheorems, FiniteSetTheorems, TLAPS

Fetching == [pc: {"fetch"}, list: Lists, page: Nat \ {0}, count: Nat, items: SUBSET Ids]
Applying == [pc: {"apply"}, items: SUBSET Ids]

ShapeInv ==
  /\ catalog \in [Lists -> Seq(Ids)]
  /\ refresh \in {Waiting} \cup Fetching \cup Applying
  /\ stayed \subseteq Ids

(* The histories bracket the catalog. *)
HistoryInv ==
  /\ stayed \subseteq Listed(catalog)
  /\ refresh # Waiting => /\ Listed(catalog) \subseteq seen
                          /\ refresh.items \subseteq seen

(* Of the first n entries of list l, items has those that stayed. *)
Within(l, n, items) ==
  \A i \in 1..Len(catalog[l]) :
    i <= n /\ catalog[l][i] \in stayed => catalog[l][i] \in items

CompleteInv ==
  ~disrupted =>
    /\ refresh.pc = "fetch" =>
         /\ Within(refresh.list, (refresh.page - 1) * PageSize, refresh.items)
         /\ refresh.list = "sub" => Within("main", Len(catalog["main"]), refresh.items)
    /\ refresh.pc = "apply" => stayed \subseteq refresh.items

IInv == ShapeInv /\ PagesContiguous /\ HistoryInv /\ CompleteInv

----------------------------------------------------------------------------
(* Sequences. *)

(* A sequence of S as the set of its entries. *)
LEMMA RangeIs ==
  ASSUME NEW S, NEW s \in Seq(S)
  PROVE  Range(s) = { s[i] : i \in 1..Len(s) } /\ Range(s) \subseteq S
<1>1. DOMAIN s = 1..Len(s) /\ s \in [1..Len(s) -> S]
  BY LenProperties
<1> QED
  BY <1>1 DEF Range

(* Inserting moves no entry to the left. *)
LEMMA InsertShifts ==
  ASSUME NEW S, NEW s \in Seq(S), NEW i \in 1..(Len(s) + 1), NEW k \in S
  PROVE  /\ InsertAt(s, i, k) \in Seq(S)
         /\ Len(InsertAt(s, i, k)) = Len(s) + 1
         /\ \A j \in 1..(Len(s) + 1) :
              InsertAt(s, i, k)[j] = IF j < i THEN s[j] ELSE IF j = i THEN k ELSE s[j - 1]
<1> DEFINE a == SubSeq(s, 1, i - 1)
           c == SubSeq(s, i, Len(s))
<1>1. Len(s) \in Nat /\ s \in [1..Len(s) -> S]
  BY LenProperties
<1>2. /\ a \in Seq(S) /\ Len(a) = i - 1
      /\ \A j \in 1..(i - 1) : a[j] = s[j]
  <2>1. \A j \in 1..(i - 1) : s[j] \in S
    BY <1>1
  <2> QED
    BY <1>1, <2>1, SubSeqProperties
<1>3. /\ c \in Seq(S) /\ Len(c) = Len(s) - i + 1
      /\ \A j \in 1..(Len(s) - i + 1) : c[j] = s[i + j - 1]
  <2>1. \A j \in i..Len(s) : s[j] \in S
    BY <1>1
  <2> QED
    BY <1>1, <2>1, SubSeqProperties
<1> DEFINE b == a \o <<k>>
<1>4. /\ b \in Seq(S) /\ Len(b) = i
      /\ \A j \in 1..i : b[j] = IF j < i THEN s[j] ELSE k
  <2>1. <<k>> \in Seq(S) /\ Len(<<k>>) = 1 /\ <<k>>[1] = k
    OBVIOUS
  <2>2. /\ b \in Seq(S) /\ Len(b) = Len(a) + Len(<<k>>)
        /\ \A j \in 1..(Len(a) + Len(<<k>>)) :
             b[j] = IF j <= Len(a) THEN a[j] ELSE <<k>>[j - Len(a)]
    BY <1>2, <2>1, ConcatProperties
  <2> HIDE DEF a, b
  <2> QED
    BY <1>1, <1>2, <2>1, <2>2
<1>5. /\ b \o c \in Seq(S) /\ Len(b \o c) = Len(b) + Len(c)
      /\ \A j \in 1..(Len(b) + Len(c)) :
           (b \o c)[j] = IF j <= Len(b) THEN b[j] ELSE c[j - Len(b)]
  BY <1>3, <1>4, ConcatProperties
<1>6. InsertAt(s, i, k) = b \o c
  BY DEF InsertAt
<1> HIDE DEF a, b, c
<1> QED
  BY <1>1, <1>3, <1>4, <1>5, <1>6

(* An insertion keeps the entries, none of them further to the left. *)
LEMMA InsertKeeps ==
  ASSUME NEW S, NEW s \in Seq(S), NEW i \in 1..(Len(s) + 1), NEW k \in S
  PROVE  /\ InsertAt(s, i, k) \in Seq(S)
         /\ Range(InsertAt(s, i, k)) = Range(s) \cup {k}
         /\ \A j \in 1..Len(InsertAt(s, i, k)) :
              \/ InsertAt(s, i, k)[j] = k
              \/ \E h \in 1..Len(s) : h <= j /\ s[h] = InsertAt(s, i, k)[j]
<1>1. PICK t : t = InsertAt(s, i, k)
  OBVIOUS
<1>2. PICK n \in Nat : n = Len(s)
  BY LenProperties
<1>3. /\ t \in Seq(S) /\ Len(t) = n + 1 /\ i \in 1..(n + 1)
      /\ \A j \in 1..(n + 1) : t[j] = IF j < i THEN s[j] ELSE IF j = i THEN k ELSE s[j - 1]
  BY <1>1, <1>2, InsertShifts
<1>4. ASSUME NEW j \in 1..(n + 1), t[j] # k PROVE \E h \in 1..n : h <= j /\ s[h] = t[j]
  <2>1. CASE j < i
    <3>1. j \in 1..n /\ j <= j /\ t[j] = s[j]
      BY <1>3, <2>1
    <3> QED
      BY <3>1, Zenon
  <2>2. CASE j > i
    <3>1. j - 1 \in 1..n /\ j - 1 <= j /\ t[j] = s[j - 1]
      BY <1>3, <2>2
    <3> QED
      BY <3>1, Zenon
  <2> QED
    BY <1>3, <1>4, <2>1, <2>2
<1>5. Range(s) = { s[j] : j \in 1..n } /\ Range(t) = { t[j] : j \in 1..(n + 1) }
  BY <1>2, <1>3, RangeIs
<1>6. Range(t) \subseteq Range(s) \cup {k}
  BY <1>4, <1>5
<1>7. k \in Range(t)
  BY <1>3, <1>5
<1>8. ASSUME NEW j \in 1..n PROVE s[j] \in Range(t)
  <2>1. CASE j < i
    <3>1. j \in 1..(n + 1) /\ t[j] = s[j]
      BY <1>3, <2>1
    <3> QED
      BY <1>5, <3>1
  <2>2. CASE j >= i
    <3>1. j + 1 \in 1..(n + 1) /\ ~(j + 1 < i) /\ j + 1 # i /\ (j + 1) - 1 = j
      BY <1>3, <2>2
    <3>2. t[j + 1] = s[j]
      BY <1>3, <3>1
    <3> QED
      BY <1>5, <3>1, <3>2
  <2> QED
    BY <1>3, <2>1, <2>2
<1>9. Range(t) = Range(s) \cup {k}
  BY <1>5, <1>6, <1>7, <1>8
<1> QED
  BY <1>1, <1>2, <1>3, <1>4, <1>9

(* Removing moves the entries behind it one to the left. *)
LEMMA RemoveShifts ==
  ASSUME NEW S, NEW s \in Seq(S), NEW i \in 1..Len(s)
  PROVE  /\ RemoveAt(s, i) \in Seq(S) /\ Len(RemoveAt(s, i)) = Len(s) - 1
         /\ \A j \in 1..(Len(s) - 1) :
              RemoveAt(s, i)[j] = IF j < i THEN s[j] ELSE s[j + 1]
<1> DEFINE a == SubSeq(s, 1, i - 1)
           c == SubSeq(s, i + 1, Len(s))
           r == RemoveAt(s, i)
<1>0. Len(s) \in Nat /\ i \in Nat /\ 1 <= i /\ i <= Len(s)
  BY LenProperties
<1>1. Len(s) \in Nat /\ s \in [1..Len(s) -> S]
  BY LenProperties
<1>2. /\ a \in Seq(S) /\ Len(a) = i - 1
      /\ \A j \in 1..(i - 1) : a[j] = s[j]
  <2>1. \A j \in 1..(i - 1) : s[j] \in S
    BY <1>1
  <2> QED
    BY <1>1, <2>1, SubSeqProperties
<1>3. /\ c \in Seq(S) /\ Len(c) = Len(s) - i
      /\ \A j \in 1..(Len(s) - i) : c[j] = s[i + j]
  <2>1. \A j \in (i + 1)..Len(s) : s[j] \in S
    BY <1>1
  <2>2. i + 1 \in Int /\ Len(s) \in Int
    BY <1>1
  <2>3. /\ c \in Seq(S) /\ Len(c) = IF i + 1 <= Len(s) THEN Len(s) - (i + 1) + 1 ELSE 0
        /\ \A j \in 1..(Len(s) - (i + 1) + 1) : c[j] = s[(i + 1) + j - 1]
    BY <2>1, <2>2, SubSeqProperties
  <2> HIDE DEF c
  <2>4. Len(c) = Len(s) - i
    <3>1. /\ i + 1 <= Len(s) => Len(s) - (i + 1) + 1 = Len(s) - i
          /\ ~(i + 1 <= Len(s)) => 0 = Len(s) - i
      BY <1>0
    <3> QED
      BY <2>3, <3>1
  <2>5. ASSUME NEW j \in 1..(Len(s) - i) PROVE c[j] = s[i + j]
    <3>1. j \in 1..(Len(s) - (i + 1) + 1) /\ (i + 1) + j - 1 = i + j
      BY <1>1
    <3>2. c[j] = s[(i + 1) + j - 1]
      BY <2>3, <3>1
    <3> QED
      BY <3>1, <3>2
  <2> QED
    BY <2>3, <2>4, <2>5
<1>4. /\ a \o c \in Seq(S) /\ Len(a \o c) = Len(a) + Len(c)
      /\ \A j \in 1..(Len(a) + Len(c)) :
           (a \o c)[j] = IF j <= Len(a) THEN a[j] ELSE c[j - Len(a)]
  BY <1>2, <1>3, ConcatProperties
<1>5. r = a \o c
  BY DEF RemoveAt
<1> HIDE DEF a, c, r
<1>6. /\ r \in Seq(S) /\ Len(r) = Len(s) - 1
      /\ \A j \in 1..(Len(s) - 1) : r[j] = IF j < i THEN s[j] ELSE s[j + 1]
  <2>1. ASSUME NEW j \in 1..(Len(s) - 1) PROVE r[j] = IF j < i THEN s[j] ELSE s[j + 1]
    <3>1. j \in 1..(Len(a) + Len(c))
      BY <1>1, <1>2, <1>3
    <3>2. CASE j < i
      BY <1>1, <1>2, <1>4, <1>5, <3>1, <3>2
    <3>3. CASE j >= i
      <4>1. j - (i - 1) \in 1..(Len(s) - i) /\ i + (j - (i - 1)) = j + 1
        BY <1>1, <3>3
      <4>2. c[j - (i - 1)] = s[j + 1]
        BY <1>3, <4>1
      <4> QED
        BY <1>1, <1>2, <1>4, <1>5, <3>1, <3>3, <4>2
    <3> QED
      BY <1>1, <3>2, <3>3
  <2>2. r \in Seq(S)
    BY <1>4, <1>5
  <2>3. Len(r) = Len(s) - 1
    <3>1. (i - 1) + (Len(s) - i) = Len(s) - 1
      BY <1>1
    <3> QED
      BY <1>2, <1>3, <1>4, <1>5, <3>1
  <2> QED
    BY <2>1, <2>2, <2>3
<1> QED
  BY <1>6 DEF r

(* A removal takes one entry away and adds none. *)
LEMMA RemoveKeeps ==
  ASSUME NEW S, NEW s \in Seq(S), NEW i \in 1..Len(s)
  PROVE  /\ RemoveAt(s, i) \in Seq(S)
         /\ Range(RemoveAt(s, i)) \subseteq Range(s)
         /\ Range(s) \ {s[i]} \subseteq Range(RemoveAt(s, i))
<1>1. PICK r : r = RemoveAt(s, i)
  OBVIOUS
<1>2. PICK n \in Nat : n = Len(s)
  BY LenProperties
<1>3. i \in 1..n /\ i \in Nat
  BY <1>2
<1>6. /\ r \in Seq(S) /\ Len(r) = Len(s) - 1
      /\ \A j \in 1..(Len(s) - 1) : r[j] = IF j < i THEN s[j] ELSE s[j + 1]
  BY <1>1, RemoveShifts
<1>7. Range(s) = { s[j] : j \in 1..Len(s) } /\ Range(r) = { r[j] : j \in 1..(Len(s) - 1) }
  BY <1>6, RangeIs
<1>8. Range(r) \subseteq Range(s)
  BY <1>2, <1>3, <1>6, <1>7
<1>9. ASSUME NEW x \in Range(s) \ {s[i]} PROVE x \in Range(r)
  <2>1. PICK j \in 1..Len(s) : x = s[j]
    BY <1>7
  <2>2. j # i
    BY <2>1
  <2>3. CASE j < i
    <3>1. j \in 1..(Len(s) - 1) /\ r[j] = x
      BY <1>2, <1>3, <1>6, <2>1, <2>3
    <3> QED
      BY <3>1, <1>7
  <2>4. CASE j > i
    <3>1. j - 1 \in 1..(Len(s) - 1) /\ r[j - 1] = x
      BY <1>2, <1>3, <1>6, <2>1, <2>4
    <3> QED
      BY <3>1, <1>7
  <2> QED
    BY <1>2, <1>3, <2>2, <2>3, <2>4
<1> QED
  BY <1>1, <1>6, <1>8, <1>9

(* The window of z entries after the first b. *)
LEMMA WindowIs ==
  ASSUME NEW S, NEW s \in Seq(S), NEW b \in Nat, NEW z \in Nat \ {0}
  PROVE  LET g == SubSeq(s, b + 1, IF b + z < Len(s) THEN b + z ELSE Len(s)) IN
         /\ Range(g) \subseteq Range(s)
         /\ Len(g) = IF b >= Len(s) THEN 0 ELSE IF b + z <= Len(s) THEN z ELSE Len(s) - b
         /\ \A i \in 1..Len(s) : b < i /\ i <= b + z => s[i] \in Range(g)
<1>1. PICK n \in Nat : n = Len(s) /\ s \in [1..n -> S]
  BY LenProperties
<1>2. PICK m \in Int : m = IF b + z < n THEN b + z ELSE n
  OBVIOUS
<1>3. m <= n /\ m <= b + z /\ (m = n \/ m = b + z)
  BY <1>2
<1>4. PICK g : g = SubSeq(s, b + 1, m)
  OBVIOUS
<1>5. /\ g \in Seq(S) /\ Len(g) = IF b + 1 <= m THEN m - (b + 1) + 1 ELSE 0
      /\ \A j \in 1..(m - (b + 1) + 1) : g[j] = s[(b + 1) + j - 1]
  <2>1. b + 1 \in Int /\ \A j \in (b + 1)..m : j \in 1..n
    BY <1>3
  <2>2. \A j \in (b + 1)..m : s[j] \in S
    BY <1>1, <2>1, Zenon
  <2> QED
    BY <1>4, <2>1, <2>2, SubSeqProperties
<1>6. Len(g) = IF b + 1 <= m THEN m - b ELSE 0
  BY <1>5
<1>7. ASSUME NEW j \in 1..(m - b) PROVE g[j] = s[b + j]
  <2>1. j \in 1..(m - (b + 1) + 1) /\ (b + 1) + j - 1 = b + j
    OBVIOUS
  <2>2. g[j] = s[(b + 1) + j - 1]
    BY <1>5, <2>1
  <2> QED
    BY <2>1, <2>2
<1>8. Range(g) = { g[j] : j \in 1..Len(g) } /\ Range(s) = { s[j] : j \in 1..n }
  BY <1>1, <1>5, RangeIs
<1>9. ASSUME NEW j \in 1..Len(g) PROVE g[j] \in Range(s)
  <2>1. j \in 1..(m - b) /\ b + j \in 1..n
    BY <1>3, <1>6
  <2> QED
    BY <1>7, <1>8, <2>1
<1>10. ASSUME NEW i \in 1..n, b < i, i <= b + z PROVE s[i] \in Range(g)
  <2>1. i <= m /\ i - b \in 1..(m - b) /\ b + (i - b) = i
    BY <1>3, <1>10
  <2>2. i - b \in 1..Len(g)
    BY <1>6, <2>1
  <2> QED
    BY <1>7, <1>8, <2>1, <2>2
<1>11. Len(g) = IF b >= n THEN 0 ELSE IF b + z <= n THEN z ELSE n - b
  BY <1>3, <1>6
<1>12. Range(g) \subseteq Range(s)
  BY <1>8, <1>9
<1>13. g = SubSeq(s, b + 1, IF b + z < Len(s) THEN b + z ELSE Len(s))
  BY <1>1, <1>2, <1>4, Zenon
<1> QED
  BY <1>1, <1>10, <1>11, <1>12, <1>13, Zenon

----------------------------------------------------------------------------
(* The catalog. *)

(* The pages before page p. *)
LEMMA PagesBefore ==
  ASSUME NEW p \in Nat \ {0}
  PROVE  (p - 1) * PageSize \in Nat /\ p * PageSize = (p - 1) * PageSize + PageSize
<1>1. PageSize \in Nat /\ p - 1 \in Nat
  BY CatalogAssumption
<1> QED
  BY <1>1

(* A page has the entries of its window that the list has. *)
LEMMA PageIs ==
  ASSUME NEW l, catalog[l] \in Seq(Ids), NEW p \in Nat \ {0},
         NEW b \in Nat, b = (p - 1) * PageSize
  PROVE  /\ Range(Page(l, p)) \subseteq Range(catalog[l])
         /\ Len(Page(l, p)) = IF b >= Len(catalog[l]) THEN 0
                              ELSE IF b + PageSize <= Len(catalog[l]) THEN PageSize
                              ELSE Len(catalog[l]) - b
         /\ \A i \in 1..Len(catalog[l]) :
              b < i /\ i <= b + PageSize => catalog[l][i] \in Range(Page(l, p))
<1>1. PageSize \in Nat \ {0}
  BY CatalogAssumption
<1>2. p * PageSize = b + PageSize
  BY PagesBefore
<1>3. (b + PageSize) - PageSize + 1 = b + 1
  BY <1>1
<1>4. Page(l, p) = SubSeq(catalog[l], b + 1,
                          IF b + PageSize < Len(catalog[l]) THEN b + PageSize
                          ELSE Len(catalog[l]))
  BY <1>2, <1>3, Zenon DEF Page
<1> QED
  BY <1>1, <1>4, WindowIs, Zenon

(* What is in the catalog, entry by entry. *)
LEMMA ListedIs ==
  ASSUME ShapeInv
  PROVE  /\ Listed(catalog) = Range(catalog["main"]) \cup Range(catalog["sub"])
         /\ \A x \in Listed(catalog) :
              \E l \in Lists : \E i \in 1..Len(catalog[l]) : x = catalog[l][i]
         /\ \A l \in Lists : \A i \in 1..Len(catalog[l]) : catalog[l][i] \in Listed(catalog)
<1>1. Listed(catalog) = Range(catalog["main"]) \cup Range(catalog["sub"])
  BY DEF Listed, Lists
<1>2. \A l \in Lists : Range(catalog[l]) = { catalog[l][i] : i \in 1..Len(catalog[l]) }
  BY RangeIs DEF ShapeInv
<1> QED
  BY <1>1, <1>2 DEF Lists

----------------------------------------------------------------------------
(* The invariant. *)

(* The poller starts with no refresh under way. *)
LEMMA InitIInv == Init => IInv
<1> SUFFICES ASSUME Init PROVE IInv
  OBVIOUS
<1>1. catalog \in [Lists -> Seq(Ids)]
  <2>1. Listings \subseteq Seq(Ids)
    BY DEF Listings
  <2> QED
    BY <2>1 DEF Init
<1>2. refresh = Waiting /\ refresh.pc = "wait" /\ stayed = {}
  BY DEF Init, Waiting
<1> QED
  BY <1>1, <1>2 DEF IInv, ShapeInv, PagesContiguous, HistoryInv, CompleteInv

(* A step that leaves the refresh and the catalog alone. *)
LEMMA FrameIInv ==
  ASSUME IInv, UNCHANGED <<catalog, refresh, history>>
  PROVE  IInv'
BY DEF IInv, ShapeInv, PagesContiguous, HistoryInv, CompleteInv, Within, history

(* A refresh starts with no page and the catalog as its history. *)
LEMMA StartRefreshIInv ==
  ASSUME IInv, StartRefresh
  PROVE  IInv'
<1>1. /\ catalog \in [Lists -> Seq(Ids)] /\ catalog' = catalog
      /\ refresh' = [pc |-> "fetch", list |-> "main", page |-> 1, count |-> 0, items |-> {}]
      /\ stayed' = Listed(catalog) /\ seen' = Listed(catalog)
  BY DEF IInv, ShapeInv, StartRefresh
<1>2. /\ refresh'.pc = "fetch" /\ refresh'.list = "main" /\ refresh'.page = 1
      /\ refresh'.count = 0 /\ refresh'.items = {}
  BY <1>1
<1>3. (1 - 1) * PageSize = 0
  BY CatalogAssumption
<1>4. ShapeInv'
  <2>1. refresh' \in Fetching
    BY <1>1 DEF Fetching, Lists
  <2>2. \A l \in Lists : Range(catalog[l]) \subseteq Ids
    BY <1>1, RangeIs
  <2>3. Listed(catalog) \subseteq Ids
    BY <2>2 DEF Listed
  <2> QED
    BY <1>1, <2>1, <2>3 DEF ShapeInv
<1>5. PagesContiguous'
  BY <1>2, <1>3 DEF PagesContiguous
<1>6. HistoryInv'
  BY <1>1, <1>2 DEF HistoryInv
<1>7. CompleteInv'
  <2>1. \A i \in 1..Len(catalog["main"]) : ~(i <= 0)
    OBVIOUS
  <2> QED
    BY <1>1, <1>2, <1>3, <2>1 DEF CompleteInv, Within
<1> QED
  BY <1>4, <1>5, <1>6, <1>7 DEF IInv

(* A list that has ended with the items it should have, or with a failure. *)
LEMMA EndOfListIInv ==
  ASSUME IInv, refresh.pc = "fetch", NEW items, EndOfList(items),
         UNCHANGED <<catalog, stayed, seen>>,
         items \subseteq Ids \cap seen, refresh.items \subseteq items,
         ~disrupted' => ~disrupted /\ Within(refresh.list, Len(catalog[refresh.list]), items)
  PROVE  IInv'
<1>1. /\ catalog \in [Lists -> Seq(Ids)] /\ stayed \subseteq Ids
      /\ stayed \subseteq Listed(catalog) /\ Listed(catalog) \subseteq seen
      /\ refresh \in Fetching
  BY DEF IInv, ShapeInv, HistoryInv, Waiting, Applying
<1>2. CASE refresh.list = "main"
  <2>1. /\ refresh' \in Fetching /\ refresh'.pc = "fetch" /\ refresh'.list = "sub"
        /\ refresh'.page = 1 /\ refresh'.count = 0 /\ refresh'.items = items
    <3>1. refresh' = [refresh EXCEPT !.list = "sub", !.page = 1, !.count = 0, !.items = items]
      BY <1>2 DEF EndOfList
    <3>2. refresh = [pc |-> "fetch", list |-> refresh.list, page |-> refresh.page,
                     count |-> refresh.count, items |-> refresh.items]
      BY <1>1 DEF Fetching
    <3>3. refresh' = [pc |-> "fetch", list |-> "sub", page |-> 1, count |-> 0, items |-> items]
      BY <3>1, <3>2
    <3>4. items \in SUBSET Ids
      OBVIOUS
    <3> QED
      BY <3>3, <3>4 DEF Fetching, Lists
  <2>2. (1 - 1) * PageSize = 0
    BY CatalogAssumption
  <2>3. ShapeInv' /\ HistoryInv'
    BY <1>1, <2>1 DEF ShapeInv, HistoryInv
  <2>4. PagesContiguous'
    BY <2>1, <2>2 DEF PagesContiguous
  <2>5. CompleteInv'
    <3>1. \A i \in 1..Len(catalog["sub"]) : ~(i <= 0)
      OBVIOUS
    <3> QED
      BY <1>2, <2>1, <2>2, <3>1 DEF CompleteInv, Within
  <2> QED
    BY <2>3, <2>4, <2>5 DEF IInv
<1>3. CASE refresh.list = "sub" /\ items = {}
  <2>1. refresh' = Waiting /\ refresh'.pc = "wait"
    BY <1>3 DEF EndOfList, Waiting
  <2> QED
    BY <1>1, <2>1 DEF IInv, ShapeInv, PagesContiguous, HistoryInv, CompleteInv
<1>4. CASE refresh.list = "sub" /\ items # {}
  <2>1. refresh' \in Applying /\ refresh'.pc = "apply" /\ refresh'.items = items
    BY <1>4 DEF EndOfList, Applying
  <2>2. ShapeInv' /\ HistoryInv' /\ PagesContiguous'
    BY <1>1, <2>1 DEF ShapeInv, HistoryInv, PagesContiguous
  <2>3. ASSUME ~disrupted', NEW x \in stayed PROVE x \in items
    <3>1. /\ Within("main", Len(catalog["main"]), items)
          /\ Within("sub", Len(catalog["sub"]), items)
      BY <1>4, <2>3 DEF IInv, CompleteInv, Within
    <3>2. PICK l \in Lists : \E i \in 1..Len(catalog[l]) : x = catalog[l][i]
      BY <1>1, ListedIs DEF IInv
    <3>3. PICK i \in 1..Len(catalog[l]) : x = catalog[l][i]
      BY <3>2
    <3>4. Within(l, Len(catalog[l]), items) /\ i <= Len(catalog[l])
      BY <3>1 DEF Lists
    <3> QED
      BY <2>3, <3>3, <3>4 DEF Within
  <2>4. CompleteInv'
    BY <2>1, <2>3 DEF CompleteInv
  <2> QED
    BY <2>2, <2>4 DEF IInv
<1> QED
  BY <1>1, <1>2, <1>3, <1>4 DEF Fetching, Lists

(* A page adds its window, so what has been fetched stays contiguous. *)
LEMMA FetchPageIInv ==
  ASSUME IInv, FetchPage
  PROVE  IInv'
<1> DEFINE l == refresh.list
           p == refresh.page
           page == Page(l, p)
           count == refresh.count + Len(page)
           items == refresh.items \cup Range(page)
           len == Len(catalog[l])
<1>1. /\ catalog \in [Lists -> Seq(Ids)] /\ refresh \in Fetching /\ refresh.pc = "fetch"
      /\ UNCHANGED <<catalog, stayed, seen, disrupted>>
      /\ Listed(catalog) \subseteq seen /\ refresh.items \subseteq seen
  BY DEF IInv, ShapeInv, HistoryInv, FetchPage, history, Waiting, Applying
<1>2. l \in Lists /\ p \in Nat \ {0} /\ refresh.items \subseteq Ids /\ catalog[l] \in Seq(Ids)
  BY <1>1 DEF Fetching
<1>3. PICK b \in Nat : b = (p - 1) * PageSize /\ p * PageSize = b + PageSize
  BY <1>2, PagesBefore
<1>4. refresh.count = b
  BY <1>1, <1>3 DEF IInv, PagesContiguous
<1>5. len \in Nat /\ PageSize \in Nat \ {0}
  BY <1>2, LenProperties, CatalogAssumption
<1>6. /\ Range(page) \subseteq Range(catalog[l])
      /\ Len(page) = IF b >= len THEN 0 ELSE IF b + PageSize <= len THEN PageSize ELSE len - b
      /\ \A i \in 1..len : b < i /\ i <= b + PageSize => catalog[l][i] \in Range(page)
  BY <1>2, <1>3, PageIs
<1>7. items \subseteq Ids \cap seen
  <2>1. Range(catalog[l]) \subseteq Ids /\ Range(catalog[l]) \subseteq Listed(catalog)
    BY <1>2, RangeIs DEF Listed
  <2> QED
    BY <1>1, <1>2, <1>6, <2>1
<1>8. ~disrupted => Within(l, b + PageSize, items)
  <2>1. ~disrupted => Within(l, b, refresh.items)
    BY <1>1, <1>3 DEF IInv, CompleteInv
  <2>2. \A i \in 1..len : i <= b \/ b < i
    BY <1>3, <1>5
  <2> QED
    BY <1>6, <2>1, <2>2 DEF Within
<1>9. CASE LastPage(count, len) /\ EndOfList(items)
  <2>1. len <= b + PageSize
    <3>1. b + Len(page) >= len
      BY <1>4, <1>9 DEF LastPage
    <3> HIDE DEF page, len
    <3> QED
      BY <1>5, <1>6, <3>1
  <2>2. ~disrupted => Within(l, len, items)
    <3>1. \A i \in 1..len : i <= b + PageSize
      BY <1>5, <2>1
    <3> QED
      BY <1>8, <3>1 DEF Within
  <2> HIDE DEF items
  <2>3. refresh.items \subseteq items
    BY DEF items
  <2> QED
    BY <1>1, <1>7, <1>9, <2>2, <2>3, EndOfListIInv
<1>10. CASE /\ ~LastPage(count, len)
            /\ refresh' = [refresh EXCEPT !.page = @ + 1, !.count = count, !.items = items]
  <2>1. count = b + PageSize
    <3>1. ~(b + Len(page) >= len)
      BY <1>4, <1>10 DEF LastPage
    <3>2. count = b + Len(page)
      BY <1>4
    <3> HIDE DEF page, len, count
    <3> QED
      BY <1>5, <1>6, <3>1, <3>2
  <2> HIDE DEF items, count
  <2>2. p + 1 \in Nat \ {0} /\ count \in Nat /\ items \in SUBSET Ids
    BY <1>2, <1>5, <1>7, <2>1
  <2>3. /\ refresh' \in Fetching
        /\ refresh'.pc = "fetch" /\ refresh'.list = l /\ refresh'.page = p + 1
        /\ refresh'.count = count /\ refresh'.items = items
    <3>1. PICK n \in Nat \ {0} : n = p + 1
      BY <2>2
    <3>2. refresh' = [refresh EXCEPT !.page = n, !.count = count, !.items = items]
      BY <1>10, <3>1
    <3>3. refresh \in Fetching /\ l = refresh.list
      BY <1>1
    <3> HIDE DEF l, p, page, len
    <3> QED
      BY <2>2, <3>1, <3>2, <3>3 DEF Fetching
  <2>4. ((p + 1) - 1) * PageSize = b + PageSize
    <3>1. (p + 1) - 1 = p
      BY <1>2
    <3> QED
      BY <1>3, <3>1
  <2>5. ShapeInv' /\ HistoryInv'
    BY <1>1, <1>7, <2>3 DEF IInv, ShapeInv, HistoryInv
  <2>6. PagesContiguous'
    BY <2>1, <2>3, <2>4 DEF PagesContiguous
  <2>7. CompleteInv'
    <3>1. ASSUME ~disrupted, l = "sub" PROVE Within("main", Len(catalog["main"]), items)
      BY <1>1, <3>1 DEF IInv, CompleteInv, Within, items
    <3> QED
      BY <1>1, <1>8, <2>3, <2>4, <3>1 DEF CompleteInv, Within
  <2> QED
    BY <2>5, <2>6, <2>7 DEF IInv
<1> QED
  BY <1>9, <1>10 DEF FetchPage

(* A failed page ends the list and marks the refresh. *)
LEMMA FetchFailsIInv ==
  ASSUME IInv, FetchFails
  PROVE  IInv'
<1>1. /\ refresh.pc = "fetch" /\ EndOfList(refresh.items) /\ disrupted' = TRUE
      /\ UNCHANGED <<catalog, stayed, seen>>
  BY DEF FetchFails
<1>2. refresh.items \subseteq Ids \cap seen
  BY <1>1 DEF IInv, ShapeInv, HistoryInv, Waiting, Fetching, Applying
<1> QED
  BY <1>1, <1>2, EndOfListIInv

(* Once applied, a refresh promises nothing more. *)
LEMMA ApplyIInv ==
  ASSUME IInv, Apply
  PROVE  IInv'
<1>1. /\ refresh' = Waiting /\ refresh'.pc = "wait"
      /\ UNCHANGED <<catalog, stayed, seen, disrupted>>
  BY DEF Apply, Waiting, history
<1> QED
  BY <1>1 DEF IInv, ShapeInv, PagesContiguous, HistoryInv, CompleteInv

(* An insertion moves no entry into the pages already fetched but the new one. *)
LEMMA InsertIInv ==
  ASSUME IInv, NEW l \in Lists, NEW i \in 1..(Len(catalog[l]) + 1), NEW k \in Ids,
         Insert(l, i, k)
  PROVE  IInv'
<1>1. /\ catalog \in [Lists -> Seq(Ids)] /\ catalog[l] \in Seq(Ids)
      /\ catalog' = [catalog EXCEPT ![l] = InsertAt(catalog[l], i, k)]
      /\ k \notin stayed /\ seen' = seen \cup {k}
      /\ UNCHANGED <<refresh, stayed, disrupted>>
  BY DEF IInv, ShapeInv, HistoryInv, Insert
<1>2. PICK t \in Seq(Ids) :
        /\ catalog' = [catalog EXCEPT ![l] = t]
        /\ Range(t) = Range(catalog[l]) \cup {k}
        /\ \A j \in 1..Len(t) :
             t[j] = k \/ \E h \in 1..Len(catalog[l]) : h <= j /\ catalog[l][h] = t[j]
  <2>1. PICK s \in Seq(Ids) : s = catalog[l]
    BY <1>1
  <2>2. i \in 1..(Len(s) + 1)
    BY <2>1
  <2> DEFINE t == InsertAt(s, i, k)
  <2>3. /\ t \in Seq(Ids)
        /\ Range(t) = Range(s) \cup {k}
        /\ \A j \in 1..Len(t) : t[j] = k \/ \E h \in 1..Len(s) : h <= j /\ s[h] = t[j]
    <3>1. t \in Seq(Ids)
      BY <2>2, InsertKeeps
    <3>2. Range(t) = Range(s) \cup {k}
      BY <2>2, InsertKeeps
    <3>3. ASSUME NEW j \in 1..Len(t)
          PROVE  t[j] = k \/ \E h \in 1..Len(s) : h <= j /\ s[h] = t[j]
      BY <2>2, InsertKeeps
    <3> QED
      BY <3>1, <3>2, <3>3
  <2>4. catalog' = [catalog EXCEPT ![l] = t]
    BY <1>1, <2>1
  <2> HIDE DEF t
  <2> QED
    BY <2>1, <2>3, <2>4
<1>3. /\ catalog' \in [Lists -> Seq(Ids)] /\ catalog'[l] = t
      /\ \A m \in Lists : m # l => catalog'[m] = catalog[m]
  BY <1>1, <1>2
<1>4. Listed(catalog') = Listed(catalog) \cup {k}
  BY <1>2, <1>3 DEF Listed
<1>5. ShapeInv' /\ HistoryInv' /\ PagesContiguous'
  BY <1>1, <1>3, <1>4 DEF IInv, ShapeInv, HistoryInv, PagesContiguous
<1>6. ASSUME NEW m \in Lists, NEW j \in 1..Len(catalog'[m]), catalog'[m][j] \in stayed
      PROVE  \E h \in 1..Len(catalog[m]) : h <= j /\ catalog[m][h] = catalog'[m][j]
  <2>1. CASE m = l
    BY <1>1, <1>2, <1>3, <1>6, <2>1
  <2>2. CASE m # l
    <3>1. j \in 1..Len(catalog[m]) /\ j <= j
      BY <1>3, <2>2
    <3> QED
      BY <1>3, <2>2, <3>1
  <2> QED
    BY <2>1, <2>2
<1>7. ASSUME NEW m \in Lists, NEW b \in Int, Within(m, b, refresh.items),
             NEW j \in 1..Len(catalog'[m]), j <= b, catalog'[m][j] \in stayed
      PROVE  catalog'[m][j] \in refresh.items
  <2>1. PICK h \in 1..Len(catalog[m]) : h <= j /\ catalog[m][h] = catalog'[m][j]
    BY <1>6, <1>7
  <2>2. h <= b
    BY <1>7, <2>1
  <2> QED
    BY <1>7, <2>1, <2>2 DEF Within
<1>8. ASSUME Within("main", Len(catalog["main"]), refresh.items),
             NEW j \in 1..Len(catalog'["main"]), catalog'["main"][j] \in stayed
      PROVE  catalog'["main"][j] \in refresh.items
  <2>1. PICK h \in 1..Len(catalog["main"]) : catalog["main"][h] = catalog'["main"][j]
    BY <1>6, <1>8 DEF Lists
  <2>2. h <= Len(catalog["main"])
    OBVIOUS
  <2> QED
    BY <1>8, <2>1, <2>2 DEF Within
<1>9. CompleteInv'
  <2>1. ASSUME ~disrupted, refresh.pc = "fetch"
        PROVE  \A j \in 1..Len(catalog'[refresh.list]) :
                 j <= (refresh.page - 1) * PageSize /\ catalog'[refresh.list][j] \in stayed
                   => catalog'[refresh.list][j] \in refresh.items
    <3>1. refresh.list \in Lists /\ refresh.page \in Nat \ {0}
      BY <2>1 DEF IInv, ShapeInv, Waiting, Fetching, Applying
    <3>2. PICK b \in Nat : b = (refresh.page - 1) * PageSize
      BY <3>1, PagesBefore
    <3>3. Within(refresh.list, b, refresh.items)
      BY <2>1, <3>2 DEF IInv, CompleteInv
    <3> QED
      BY <1>7, <3>1, <3>2, <3>3
  <2>2. ASSUME ~disrupted, refresh.pc = "fetch", refresh.list = "sub"
        PROVE  \A j \in 1..Len(catalog'["main"]) :
                 catalog'["main"][j] \in stayed => catalog'["main"][j] \in refresh.items
    BY <1>8, <2>2 DEF IInv, CompleteInv
  <2>3. ~disrupted /\ refresh.pc = "apply" => stayed \subseteq refresh.items
    BY DEF IInv, CompleteInv
  <2> QED
    BY <1>1, <2>1, <2>2, <2>3 DEF CompleteInv, Within
<1> QED
  BY <1>5, <1>9 DEF IInv

(* A deletion marks the refresh and can only shorten its history. *)
LEMMA DeleteIInv ==
  ASSUME IInv, NEW l \in Lists, NEW i \in 1..Len(catalog[l]), Delete(l, i)
  PROVE  IInv'
<1>1. /\ catalog \in [Lists -> Seq(Ids)] /\ catalog[l] \in Seq(Ids)
      /\ catalog' = [catalog EXCEPT ![l] = RemoveAt(catalog[l], i)]
      /\ stayed' = stayed \ {catalog[l][i]} /\ disrupted' = TRUE
      /\ UNCHANGED <<refresh, seen>>
      /\ stayed \subseteq Listed(catalog)
  BY DEF IInv, ShapeInv, HistoryInv, Delete
<1>2. PICK t \in Seq(Ids) :
        /\ catalog' = [catalog EXCEPT ![l] = t]
        /\ Range(t) \subseteq Range(catalog[l])
        /\ Range(catalog[l]) \ {catalog[l][i]} \subseteq Range(t)
  <2>1. PICK t : t = RemoveAt(catalog[l], i)
    OBVIOUS
  <2> QED
    BY <1>1, <2>1, RemoveKeeps
<1>3. /\ catalog' \in [Lists -> Seq(Ids)] /\ catalog'[l] = t
      /\ \A m \in Lists : m # l => catalog'[m] = catalog[m]
  BY <1>1, <1>2
<1>4. /\ Listed(catalog') \subseteq Listed(catalog)
      /\ Listed(catalog) \ {catalog[l][i]} \subseteq Listed(catalog')
  BY <1>2, <1>3 DEF Listed
<1>5. ShapeInv' /\ HistoryInv' /\ PagesContiguous' /\ CompleteInv'
  BY <1>1, <1>3, <1>4 DEF IInv, ShapeInv, HistoryInv, PagesContiguous, CompleteInv
<1> QED
  BY <1>5 DEF IInv

(* One lemma per action. *)
LEMMA NextIInv == IInv /\ [Next]_vars => IInv'
<1> SUFFICES ASSUME IInv, [Next]_vars PROVE IInv'
  OBVIOUS
<1>1. CASE Refresh
  BY <1>1, StartRefreshIInv, FetchPageIInv, FetchFailsIInv, ApplyIInv DEF Refresh
<1>2. CASE (\E k \in Ids : ForceFetch(k)) \/ ForceInsert \/ UNCHANGED vars
  BY <1>2, FrameIInv DEF ForceFetch, ForceInsert, vars
<1>3. ASSUME NEW l \in Lists, NEW i \in 1..(Len(catalog[l]) + 1), NEW k \in Ids, Insert(l, i, k)
      PROVE  IInv'
  BY <1>3, InsertIInv
<1>4. ASSUME NEW l \in Lists, NEW i \in 1..Len(catalog[l]), Delete(l, i) PROVE IInv'
  BY <1>4, DeleteIInv
<1> QED
  BY <1>1, <1>2, <1>3, <1>4 DEF Next

(* The invariant holds in every state of the specification. *)
LEMMA Invariance == Spec => []IInv
BY InitIInv, NextIInv, PTL DEF Spec

----------------------------------------------------------------------------
(* Every page before the one fetch_page asks for was full, for any page    *)
(* size and whatever happened to the catalog between the calls.            *)
THEOREM PagesContiguousHolds == Spec => []PagesContiguous
<1>1. IInv => PagesContiguous
  BY DEF IInv
<1> QED
  BY <1>1, Invariance, PTL

(* What refresh_servers_once applies: no server that was out of the        *)
(* catalog all the time it fetched and, if no page failed and nothing was  *)
(* deleted, every server that was in it all that time.                     *)
THEOREM AppliedCatalogHolds == Spec => AppliedCatalog
<1> DEFINE Holds == Applied => /\ tracked' \subseteq seen
                               /\ ~disrupted => stayed \subseteq tracked'
<1>1. IInv /\ [Next]_vars => [Holds]_vars
  <2> SUFFICES ASSUME IInv, [Next]_vars, Applied
               PROVE  /\ tracked' \subseteq seen
                      /\ ~disrupted => stayed \subseteq tracked'
    OBVIOUS
  <2>1. refresh.pc = "apply" /\ refresh'.pc = "wait"
    BY DEF Applied
  <2>2. refresh.items \subseteq seen /\ (~disrupted => stayed \subseteq refresh.items)
    BY <2>1 DEF IInv, HistoryInv, CompleteInv, Waiting
  <2>3. CASE Apply
    <3>1. tracked' = refresh.items
      BY <2>3 DEF Apply
    <3> QED
      BY <2>2, <3>1
  <2>4. CASE StartRefresh \/ FetchPage \/ FetchFails
    BY <2>1, <2>4 DEF StartRefresh, FetchPage, FetchFails, Waiting
  <2>5. CASE ~Refresh
    BY <2>1, <2>5 DEF Next, ForceFetch, ForceInsert, Insert, Delete, vars
  <2> QED
    BY <2>3, <2>4, <2>5 DEF Refresh
<1> QED
  BY <1>1, Invariance, PTL DEF Spec, AppliedCatalog

----------------------------------------------------------------------------
(* Type correctness: TypeOK needs, beyond itself, nothing but the shape of *)
(* a refresh; that a listing has no more entries than there are ids is     *)
(* counted only at the end, from its entries being different.              *)

(* No server is listed twice. *)
ListsTyped ==
  /\ \A l \in Lists : IsInjective(catalog[l])
  /\ Range(catalog["main"]) \cap Range(catalog["sub"]) = {}

SyncTyped ==
  /\ tracked \subseteq Ids
  /\ refresh.pc = "apply" => refresh.items # {}
  /\ asked = {} \/ \E k \in Ids : asked = {k}

HistoryTyped ==
  /\ stayed \subseteq seen /\ seen \subseteq Ids /\ disrupted \in BOOLEAN
  /\ edits \in 0..MaxEdits /\ failures \in 0..MaxFailures /\ pings \in 0..MaxPings

Types == ListsTyped /\ SyncTyped /\ HistoryTyped

(* A listing is a sequence of different ids. *)
LEMMA ListingIs ==
  ASSUME NEW s
  PROVE  s \in Listings <=> s \in Seq(Ids) /\ IsInjective(s)
<1>1. ASSUME s \in Listings PROVE s \in Seq(Ids) /\ IsInjective(s)
  <2>1. Cardinality(Ids) \in Nat
    BY FS_CardinalityType, CatalogAssumption
  <2>2. PICK n \in 0..Cardinality(Ids) : s \in [1..n -> Ids]
    BY <1>1 DEF Listings
  <2>3. n \in Nat
    BY <2>1, <2>2
  <2> QED
    BY <1>1, <2>2, <2>3 DEF Listings
<1>2. ASSUME s \in Seq(Ids), IsInjective(s) PROVE s \in Listings
  <2>1. PICK n \in Nat : n = Len(s) /\ s \in [1..n -> Ids]
    BY <1>2, LenProperties
  <2>2. s \in Injection(1..n, Ids)
    BY <1>2, <2>1 DEF Injection
  <2>3. Cardinality(1..n) <= Cardinality(Ids)
    BY <2>2, FS_Injection, CatalogAssumption
  <2>4. Cardinality(1..n) = n
    <3>1. Cardinality(1..n) = IF 1 > n THEN 0 ELSE n - 1 + 1
      BY FS_Interval
    <3> QED
      BY <3>1
  <2>5. Cardinality(Ids) \in Nat
    BY FS_CardinalityType, CatalogAssumption
  <2>6. n \in 0..Cardinality(Ids)
    BY <2>3, <2>4, <2>5
  <2> QED
    BY <1>2, <2>1, <2>6 DEF Listings
<1> QED
  BY <1>1, <1>2

(* An entry that is not there yet leaves the entries different. *)
LEMMA InsertInjective ==
  ASSUME NEW S, NEW s \in Seq(S), NEW i \in 1..(Len(s) + 1), NEW k \in S,
         IsInjective(s), k \notin Range(s)
  PROVE  IsInjective(InsertAt(s, i, k))
<1>1. PICK t : t = InsertAt(s, i, k)
  OBVIOUS
<1>2. PICK n \in Nat : n = Len(s)
  BY LenProperties
<1>3. /\ t \in Seq(S) /\ Len(t) = n + 1 /\ i \in 1..(n + 1)
      /\ \A j \in 1..(n + 1) : t[j] = IF j < i THEN s[j] ELSE IF j = i THEN k ELSE s[j - 1]
  <2>1. InsertAt(s, i, k) \in Seq(S) /\ Len(InsertAt(s, i, k)) = Len(s) + 1
    BY InsertShifts
  <2>2. ASSUME NEW j \in 1..(Len(s) + 1)
        PROVE  InsertAt(s, i, k)[j] = IF j < i THEN s[j] ELSE IF j = i THEN k ELSE s[j - 1]
    BY InsertShifts
  <2> QED
    BY <1>1, <1>2, <2>1, <2>2, Zenon
<1>4. /\ DOMAIN t = 1..(n + 1)
      /\ \A j \in 1..n : s[j] # k
      /\ \A a, b \in 1..n : s[a] = s[b] => a = b
  <2>1. DOMAIN s = 1..n /\ DOMAIN t = 1..(n + 1)
    BY <1>2, <1>3, LenProperties
  <2>2. Range(s) = { s[j] : j \in 1..n }
    BY <1>2, RangeIs
  <2> QED
    BY <2>1, <2>2 DEF IsInjective
<1>5. ASSUME NEW j \in 1..(n + 1), j # i
      PROVE  /\ (IF j < i THEN j ELSE j - 1) \in 1..n
             /\ t[j] = s[IF j < i THEN j ELSE j - 1]
  BY <1>3, <1>5
<1>6. ASSUME NEW a \in 1..(n + 1), NEW b \in 1..(n + 1), t[a] = t[b] PROVE a = b
  <2>1. CASE a = i /\ b = i
    BY <2>1
  <2>2. CASE a # i /\ b # i
    <3>1. (IF a < i THEN a ELSE a - 1) = (IF b < i THEN b ELSE b - 1)
      BY <1>4, <1>5, <1>6, <2>2
    <3> QED
      BY <1>3, <2>2, <3>1
  <2>3. t[i] = k /\ \A j \in 1..(n + 1) : j # i => t[j] # k
    BY <1>3, <1>4, <1>5
  <2> QED
    BY <1>6, <2>1, <2>2, <2>3
<1> QED
  BY <1>1, <1>4, <1>6 DEF IsInjective

(* A removal leaves the entries different. *)
LEMMA RemoveInjective ==
  ASSUME NEW S, NEW s \in Seq(S), NEW i \in 1..Len(s), IsInjective(s)
  PROVE  IsInjective(RemoveAt(s, i))
<1>1. PICK t : t = RemoveAt(s, i)
  OBVIOUS
<1>2. PICK n \in Nat : n = Len(s)
  BY LenProperties
<1>3. /\ t \in Seq(S) /\ Len(t) = n - 1 /\ i \in 1..n
      /\ \A j \in 1..(n - 1) : t[j] = IF j < i THEN s[j] ELSE s[j + 1]
  <2>1. RemoveAt(s, i) \in Seq(S) /\ Len(RemoveAt(s, i)) = Len(s) - 1
    BY RemoveShifts
  <2>2. ASSUME NEW j \in 1..(Len(s) - 1)
        PROVE  RemoveAt(s, i)[j] = IF j < i THEN s[j] ELSE s[j + 1]
    BY RemoveShifts
  <2> QED
    BY <1>1, <1>2, <2>1, <2>2, Zenon
<1>4. DOMAIN t = 1..(n - 1) /\ \A a, b \in 1..n : s[a] = s[b] => a = b
  <2>1. DOMAIN s = 1..n /\ DOMAIN t = 1..(n - 1)
    BY <1>2, <1>3, LenProperties
  <2> QED
    BY <2>1 DEF IsInjective
<1>5. ASSUME NEW j \in 1..(n - 1)
      PROVE  /\ (IF j < i THEN j ELSE j + 1) \in 1..n
             /\ t[j] = s[IF j < i THEN j ELSE j + 1]
  BY <1>3
<1>6. ASSUME NEW a \in 1..(n - 1), NEW b \in 1..(n - 1), t[a] = t[b] PROVE a = b
  <2>1. (IF a < i THEN a ELSE a + 1) = (IF b < i THEN b ELSE b + 1)
    BY <1>4, <1>5, <1>6
  <2> QED
    BY <1>3, <2>1
<1> QED
  BY <1>1, <1>4, <1>6 DEF IsInjective

(* The poller tracks nothing when it starts. *)
LEMMA InitTypes == Init => Types
<1> SUFFICES ASSUME Init PROVE Types
  OBVIOUS
<1>1. ListsTyped
  BY ListingIs DEF Init, ListsTyped, Lists
<1>2. SyncTyped
  BY DEF Init, SyncTyped, Waiting
<1>3. HistoryTyped
  <2>1. 0 \in 0..MaxEdits /\ 0 \in 0..MaxFailures /\ 0 \in 0..MaxPings
    BY CatalogAssumption
  <2> QED
    BY <2>1 DEF Init, HistoryTyped
<1> QED
  BY <1>1, <1>2, <1>3 DEF Types

(* What is in the catalog are ids. *)
LEMMA ListedAreIds ==
  ASSUME ShapeInv
  PROVE  /\ Listed(catalog) \subseteq Ids
         /\ \A l \in Lists : Range(catalog[l]) \subseteq Listed(catalog)
<1>1. \A l \in Lists : Range(catalog[l]) \subseteq Ids
  BY RangeIs DEF ShapeInv
<1> QED
  BY <1>1 DEF Listed

(* The refresh applies no empty set: EndOfList takes that for a failure. *)
LEMMA RefreshTypes ==
  ASSUME IInv, Types, Refresh
  PROVE  Types'
<1>1. CASE StartRefresh
  <2>1. Listed(catalog) \subseteq Ids
    BY ListedAreIds DEF IInv
  <2> QED
    BY <1>1, <2>1 DEF StartRefresh, Types, ListsTyped, SyncTyped, HistoryTyped
<1>2. ASSUME refresh \in Fetching, NEW items, EndOfList(items)
      PROVE  refresh'.pc = "apply" => refresh'.items # {}
  BY <1>2 DEF EndOfList, Fetching, Waiting
<1>3. CASE FetchPage
  <2>1. refresh \in Fetching
    BY <1>3 DEF IInv, ShapeInv, FetchPage, Waiting, Applying
  <2>2. refresh'.pc = "apply" => refresh'.items # {}
    <3>1. ASSUME NEW count, NEW items,
                 refresh' = [refresh EXCEPT !.page = @ + 1, !.count = count, !.items = items]
          PROVE  refresh'.pc = "fetch"
      BY <2>1, <3>1 DEF Fetching
    <3> QED
      BY <1>2, <1>3, <2>1, <3>1 DEF FetchPage
  <2> QED
    BY <1>3, <2>2 DEF FetchPage, history, Types, ListsTyped, SyncTyped, HistoryTyped
<1>4. CASE FetchFails
  <2>1. refresh \in Fetching
    BY <1>4 DEF IInv, ShapeInv, FetchFails, Waiting, Applying
  <2>2. refresh'.pc = "apply" => refresh'.items # {}
    BY <1>2, <1>4, <2>1 DEF FetchFails
  <2>3. failures' \in 0..MaxFailures
    BY <1>4, CatalogAssumption DEF FetchFails, Types, HistoryTyped
  <2> QED
    BY <1>4, <2>2, <2>3 DEF FetchFails, Types, ListsTyped, SyncTyped, HistoryTyped
<1>5. CASE Apply
  <2>1. refresh.items \subseteq Ids
    BY <1>5 DEF IInv, ShapeInv, Apply, Waiting, Fetching, Applying
  <2>2. tracked' \subseteq Ids /\ refresh'.pc = "wait"
    BY <1>5, <2>1 DEF Apply, Waiting, Types, SyncTyped
  <2> QED
    BY <1>5, <2>2 DEF Apply, history, Types, ListsTyped, SyncTyped, HistoryTyped
<1> QED
  BY <1>1, <1>3, <1>4, <1>5 DEF Refresh

(* The force-ping loop inserts the server it got. *)
LEMMA ForceTypes ==
  ASSUME IInv, Types, (\E k \in Ids : ForceFetch(k)) \/ ForceInsert
  PROVE  Types'
<1>1. ASSUME NEW k \in Ids, ForceFetch(k) PROVE Types'
  <2>1. pings' \in 0..MaxPings
    BY <1>1, CatalogAssumption DEF ForceFetch, Types, HistoryTyped
  <2> QED
    BY <1>1, <2>1 DEF ForceFetch, history, Types, ListsTyped, SyncTyped, HistoryTyped
<1>2. CASE ForceInsert
  BY <1>2 DEF ForceInsert, history, Types, ListsTyped, SyncTyped, HistoryTyped
<1> QED
  BY <1>1, <1>2

(* server-service lists no server twice. *)
LEMMA InsertTypes ==
  ASSUME IInv, Types, NEW l \in Lists, NEW i \in 1..(Len(catalog[l]) + 1), NEW k \in Ids,
         Insert(l, i, k)
  PROVE  Types'
<1>1. /\ catalog \in [Lists -> Seq(Ids)] /\ catalog[l] \in Seq(Ids)
      /\ k \notin Listed(catalog)
      /\ \A m \in Lists : Range(catalog[m]) \subseteq Listed(catalog)
  BY ListedAreIds DEF IInv, ShapeInv, Insert
<1>2. PICK s \in Seq(Ids) : s = catalog[l]
  BY <1>1
<1>3. PICK t : t = InsertAt(s, i, k)
  OBVIOUS
<1>4. IsInjective(t) /\ Range(t) = Range(s) \cup {k}
  <2>1. i \in 1..(Len(s) + 1) /\ IsInjective(s) /\ k \notin Range(s)
    BY <1>1, <1>2 DEF Types, ListsTyped
  <2> QED
    BY <1>3, <2>1, InsertInjective, InsertKeeps
<1>5. catalog'[l] = t /\ \A m \in Lists : m # l => catalog'[m] = catalog[m]
  BY <1>1, <1>2, <1>3 DEF Insert
<1>6. ListsTyped'
  BY <1>1, <1>2, <1>4, <1>5 DEF Types, ListsTyped, Lists
<1>7. edits' \in 0..MaxEdits
  BY CatalogAssumption DEF Insert, Edit, Types, HistoryTyped
<1> QED
  BY <1>6, <1>7 DEF Insert, Types, SyncTyped, HistoryTyped

(* Nor does a deletion list one twice. *)
LEMMA DeleteTypes ==
  ASSUME IInv, Types, NEW l \in Lists, NEW i \in 1..Len(catalog[l]), Delete(l, i)
  PROVE  Types'
<1>1. catalog \in [Lists -> Seq(Ids)]
  BY DEF IInv, ShapeInv
<1>2. PICK s \in Seq(Ids) : s = catalog[l]
  BY <1>1
<1>3. PICK t : t = RemoveAt(s, i)
  OBVIOUS
<1>4. IsInjective(t) /\ Range(t) \subseteq Range(s)
  <2>1. i \in 1..Len(s) /\ IsInjective(s)
    BY <1>2 DEF Types, ListsTyped
  <2> QED
    BY <1>3, <2>1, RemoveInjective, RemoveKeeps
<1>5. catalog'[l] = t /\ \A m \in Lists : m # l => catalog'[m] = catalog[m]
  BY <1>1, <1>2, <1>3 DEF Delete
<1>6. ListsTyped'
  BY <1>2, <1>4, <1>5 DEF Types, ListsTyped, Lists
<1>7. edits' \in 0..MaxEdits
  BY CatalogAssumption DEF Delete, Edit, Types, HistoryTyped
<1> QED
  BY <1>6, <1>7 DEF Delete, Types, SyncTyped, HistoryTyped

(* One lemma per group of actions. *)
LEMMA NextTypes == IInv /\ Types /\ [Next]_vars => Types'
<1> SUFFICES ASSUME IInv, Types, [Next]_vars PROVE Types'
  OBVIOUS
<1>1. CASE UNCHANGED vars
  BY <1>1 DEF vars, history, Types, ListsTyped, SyncTyped, HistoryTyped
<1>2. ASSUME NEW l \in Lists, NEW i \in 1..(Len(catalog[l]) + 1), NEW k \in Ids, Insert(l, i, k)
      PROVE  Types'
  BY <1>2, InsertTypes
<1>3. ASSUME NEW l \in Lists, NEW i \in 1..Len(catalog[l]), Delete(l, i) PROVE Types'
  BY <1>3, DeleteTypes
<1> QED
  BY <1>1, <1>2, <1>3, RefreshTypes, ForceTypes DEF Next

(* The types hold in every state of the specification. *)
LEMMA TypesHold == Spec => []Types
BY InitTypes, NextTypes, Invariance, PTL DEF Spec

(* The map of states, the refresh and the catalog keep their types, for    *)
(* any finite set of ids, page size and bounds.                            *)
THEOREM CatalogTypeCorrect == Spec => []TypeOK
<1>1. IInv /\ Types => TypeOK
  <2> SUFFICES ASSUME IInv, Types PROVE TypeOK
    OBVIOUS
  <2>1. catalog \in [Lists -> Listings]
    BY ListingIs DEF IInv, ShapeInv, Types, ListsTyped
  <2>2. refresh \in {Waiting} \cup Fetching \cup [pc: {"apply"}, items: (SUBSET Ids) \ {{}}]
    BY DEF IInv, ShapeInv, Types, SyncTyped, Applying
  <2>3. asked \subseteq Ids /\ Cardinality(asked) <= 1
    <3>1. CASE asked = {}
      BY <3>1, FS_EmptySet
    <3>2. CASE \E k \in Ids : asked = {k}
      BY <3>2, FS_Singleton
    <3> QED
      BY <3>1, <3>2 DEF Types, SyncTyped
  <2> QED
    BY <2>1, <2>2, <2>3 DEF TypeOK, Types, ListsTyped, SyncTyped, HistoryTyped, Fetching
<1> QED
  BY <1>1, Invariance, TypesHold, PTL

(* An outage of server-service never clears the map: refresh_servers_once  *)
(* returns early on an empty answer, and nothing else takes servers away.  *)
THEOREM NeverClearedHolds == Spec => NeverCleared
<1> DEFINE Kept == tracked # {} => tracked' # {}
<1>1. Types /\ [Next]_vars => [Kept]_vars
  <2> SUFFICES ASSUME Types, [Next]_vars PROVE Kept \/ UNCHANGED vars
    OBVIOUS
  <2>1. CASE Apply
    <3>1. tracked' = refresh.items /\ refresh.pc = "apply"
      BY <2>1 DEF Apply
    <3> QED
      BY <3>1 DEF Types, SyncTyped
  <2>2. CASE ForceInsert
    BY <2>2 DEF ForceInsert
  <2>3. CASE ~Apply /\ ~ForceInsert
    BY <2>3 DEF Next, Refresh, StartRefresh, FetchPage, FetchFails, ForceFetch, Insert, Delete
  <2> QED
    BY <2>1, <2>2, <2>3
<1> QED
  BY <1>1, TypesHold, PTL DEF Spec, NeverCleared
=============================================================================
