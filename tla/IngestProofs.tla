---------------------------- MODULE IngestProofs ----------------------------
(***************************************************************************)
(* Proofs about modules Wal and Ingest, for any number of events, batch    *)
(* size, budget and segment length, and any number of failed calls, io     *)
(* errors and crashes.                                                     *)
(***************************************************************************)
EXTENDS Ingest, FiniteSetTheorems, TLAPS

----------------------------------------------------------------------------
(* Largest and smallest members of sets of numbers *)

(* The least-number principle, from the well-foundedness of inclusion      *)
(* between finite sets: the smallest of the intervals 0..i.                *)
LEMMA LeastMember ==
  ASSUME NEW S \in SUBSET Nat, S # {}
  PROVE  \E m \in S : \A n \in S : m <= n
<1> DEFINE T == { 0..i : i \in S }
<1>1. T \subseteq FiniteSubsetsOf(Nat) /\ T # {}
  <2>1. \A i \in S : IsFiniteSet(0..i) /\ 0..i \in SUBSET Nat
    BY FS_Interval
  <2> QED  BY <2>1 DEF FiniteSubsetsOf
<1>2. IsWellFoundedOn(StrictSubsetOrdering(Nat), FiniteSubsetsOf(Nat))
  BY FS_StrictSubsetOrderingWellFounded
<1> HIDE DEF T
<1>3. PICK x \in T : \A y \in T : ~(<<y, x>> \in StrictSubsetOrdering(Nat))
  BY <1>1, <1>2, WFMin
<1>4. PICK m \in S : x = 0..m
  BY DEF T
<1>5. ASSUME NEW n \in S, n < m PROVE FALSE
  <2>1. 0..n \in T
    BY DEF T
  <2>2. 0..n \subseteq 0..m /\ m \in 0..m /\ m \notin 0..n /\ 0..n \subseteq Nat /\ 0..m \subseteq Nat
    BY <1>5
  <2>3. <<0..n, 0..m>> \in StrictSubsetOrdering(Nat)
    BY <2>2 DEF StrictSubsetOrdering
  <2> QED  BY <1>3, <1>4, <2>1, <2>3
<1> QED  BY <1>5

(* A bounded set of numbers has a largest member, the one CHOOSE finds.    *)
LEMMA MaxMember ==
  ASSUME NEW S \in SUBSET Nat, S # {}, NEW b \in Nat, \A n \in S : n <= b
  PROVE  Max(S) \in S /\ \A n \in S : n <= Max(S)
<1> DEFINE T == { b - n : n \in S }
<1>1. T \in SUBSET Nat /\ T # {}
  <2>1. \A n \in S : b - n \in Nat
    OBVIOUS
  <2> QED  BY <2>1
<1>2. PICK t \in T : \A u \in T : t <= u
  BY <1>1, LeastMember
<1>3. PICK m \in S : t = b - m
  BY <1>2
<1>4. \A n \in S : m >= n
  <2> TAKE n \in S
  <2>1. b - n \in T
    OBVIOUS
  <2>2. b - m <= b - n
    BY <1>2, <1>3, <2>1
  <2> QED  BY <2>2
<1> HIDE DEF T
<1>5. \E x \in S : \A y \in S : x >= y
  BY <1>3, <1>4
<1>6. Max(S) \in S /\ \A y \in S : Max(S) >= y
  BY <1>5 DEF Max
<1> QED  BY <1>6

LEMMA MaxOfTwo ==
  ASSUME NEW a \in Nat, NEW b \in Nat
  PROVE  Max({a, b}) \in {a, b} /\ Max({a, b}) >= a /\ Max({a, b}) >= b
<1>1. \E x \in {a, b} : \A y \in {a, b} : x >= y
  OBVIOUS
<1> QED  BY <1>1 DEF Max

LEMMA MinOfTwo ==
  ASSUME NEW a \in Nat, NEW b \in Nat
  PROVE  Min({a, b}) \in {a, b} /\ Min({a, b}) <= a /\ Min({a, b}) <= b
<1>1. \E x \in {a, b} : \A y \in {a, b} : x =< y
  OBVIOUS
<1> QED  BY <1>1 DEF Min

----------------------------------------------------------------------------
(* The lengths of files *)

Record  == Events \cup {Torn}
Segment == [recs: Seq(Record), synced: Nat]

(* Bytes of the files of S when the directory holds `files` *)
BytesIn(files, S) == Cardinality(UNION { Units(n, files[n].recs) : n \in S })

(* A segment has finitely many units, for each record has at most two.     *)
LEMMA UnitsFinite ==
  ASSUME NEW n, NEW recs \in Seq(Record)
  PROVE  IsFiniteSet(Units(n, recs))
<1> DEFINE places == (1..Len(recs)) \X (1..RecordSize)
           taken  == { p \in places : recs[p[1]] = Torn => p[2] <= TornSize }
<1>1. IsFiniteSet(1..Len(recs)) /\ IsFiniteSet(1..RecordSize) /\ IsFiniteSet({n})
  <2>1. 1 \in Int /\ Len(recs) \in Int /\ RecordSize \in Int
    BY DEF RecordSize
  <2>2. IsFiniteSet(1..Len(recs)) /\ IsFiniteSet(1..RecordSize)
    BY <2>1, FS_Interval
  <2> QED  BY <2>2, FS_Singleton
<1>2. IsFiniteSet(places)
  BY <1>1, FS_Product
<1>3. IsFiniteSet(taken)
  <2>1. taken \in SUBSET places
    OBVIOUS
  <2> HIDE DEF taken, places
  <2> QED  BY <1>2, <2>1, FS_Subset
<1> HIDE DEF taken
<1>4. IsFiniteSet({n} \X taken)
  BY <1>1, <1>3, FS_Product
<1> QED  BY <1>4 DEF Units, taken

(* A record that is appended adds its units. *)
LEMMA UnitsAppend ==
  ASSUME NEW n, NEW recs \in Seq(Record), NEW r \in Record
  PROVE  Cardinality(Units(n, Append(recs, r))) =
           Cardinality(Units(n, recs)) + (IF r = Torn THEN TornSize ELSE RecordSize)
<1> DEFINE len  == Len(recs)
           new  == Append(recs, r)
           one  == <<n, <<len + 1, 1>>>>
           two  == <<n, <<len + 1, 2>>>>
           old  == Units(n, recs)
<1>1. /\ len \in Nat /\ Len(new) = len + 1 /\ new[len + 1] = r
      /\ \A j \in 1..len : new[j] = recs[j]
  OBVIOUS
<1>2. IsFiniteSet(old)
  BY UnitsFinite
<1>3. one \notin old /\ two \notin old /\ one # two
  BY <1>1 DEF Units
<1>4. CASE r = Torn
  <2>1. Units(n, new) = old \cup {one}
    BY <1>1, <1>4 DEF Units, RecordSize, TornSize
  <2>2. Cardinality(old \cup {one}) = Cardinality(old) + 1
    BY <1>2, <1>3, FS_AddElement
  <2> QED  BY <1>4, <2>1, <2>2 DEF TornSize
<1>5. CASE r # Torn
  <2>1. Units(n, new) = (old \cup {one}) \cup {two}
    BY <1>1, <1>5 DEF Units, RecordSize, TornSize
  <2>2. IsFiniteSet(old \cup {one}) /\ Cardinality(old \cup {one}) = Cardinality(old) + 1
    BY <1>2, <1>3, FS_AddElement
  <2>3. two \notin old \cup {one}
    BY <1>3
  <2>4. Cardinality((old \cup {one}) \cup {two}) = Cardinality(old \cup {one}) + 1
    BY <2>2, <2>3, FS_AddElement
  <2>5. Cardinality(old) \in Nat
    BY <1>2, FS_CardinalityType
  <2> HIDE DEF old, new, one, two
  <2>6. Cardinality(Units(n, new)) = Cardinality(old) + 2
    BY <2>1, <2>2, <2>4, <2>5
  <2> QED  BY <1>5, <2>6 DEF RecordSize, old, new
<1> QED  BY <1>4, <1>5

LEMMA UnitsNone == \A n : Units(n, <<>>) = {} /\ Cardinality(Units(n, <<>>)) = 0
  BY FS_EmptySet DEF Units

(* So have finitely many segments.                                         *)
LEMMA BytesFinite ==
  ASSUME NEW files, NEW S, IsFiniteSet(S), \A n \in S : files[n] \in Segment
  PROVE  /\ IsFiniteSet(UNION { Units(n, files[n].recs) : n \in S })
         /\ BytesIn(files, S) \in Nat
<1> DEFINE units == { Units(n, files[n].recs) : n \in S }
           f     == [n \in S |-> Units(n, files[n].recs)]
<1>1. IsFiniteSet(units)
  <2>1. f \in Surjection(S, units)
    BY DEF Surjection
  <2> HIDE DEF f, units
  <2> QED  BY <2>1, FS_Surjection
<1>2. \A T \in units : IsFiniteSet(T)
  BY UnitsFinite DEF Segment
<1> HIDE DEF units
<1>3. IsFiniteSet(UNION units)
  BY <1>1, <1>2, FS_UNION
<1>4. Cardinality(UNION units) \in Nat
  BY <1>3, FS_CardinalityType
<1> QED  BY <1>3, <1>4 DEF units, BytesIn

(* The lengths of different segments add up.                               *)
LEMMA BytesSplit ==
  ASSUME NEW files, NEW S, NEW T, IsFiniteSet(S), IsFiniteSet(T), S \cap T = {},
         \A n \in S \cup T : files[n] \in Segment
  PROVE  BytesIn(files, S \cup T) = BytesIn(files, S) + BytesIn(files, T)
<1> DEFINE units(X) == UNION { Units(n, files[n].recs) : n \in X }
<1>1. IsFiniteSet(units(S)) /\ IsFiniteSet(units(T))
  BY BytesFinite
<1>2. units(S \cup T) = units(S) \cup units(T)
  OBVIOUS
<1>3. units(S) \cap units(T) = {}
  BY DEF Units
<1> HIDE DEF units
<1>4. /\ Cardinality(units(S) \cup units(T)) =
           Cardinality(units(S)) + Cardinality(units(T)) - Cardinality(units(S) \cap units(T))
      /\ Cardinality(units(S)) \in Nat /\ Cardinality(units(T)) \in Nat
  BY <1>1, FS_Union, FS_CardinalityType
<1>5. Cardinality(units(S \cup T)) = Cardinality(units(S)) + Cardinality(units(T))
  <2>1. Cardinality({}) = 0
    BY FS_EmptySet
  <2>2. Cardinality(units(S) \cap units(T)) = 0
    BY <1>3, <2>1
  <2>3. Cardinality(units(S) \cup units(T)) = Cardinality(units(S)) + Cardinality(units(T))
    BY <1>4, <2>2
  <2> QED  BY <1>2, <2>3
<1> QED  BY <1>5 DEF BytesIn, units

(* The files that go and the files that stay *)
LEMMA BytesWithout ==
  ASSUME NEW files, NEW S, NEW T \in SUBSET S, IsFiniteSet(S), \A n \in S : files[n] \in Segment
  PROVE  /\ BytesIn(files, S) = BytesIn(files, S \ T) + BytesIn(files, T)
         /\ BytesIn(files, S) \in Nat /\ BytesIn(files, S \ T) \in Nat /\ BytesIn(files, T) \in Nat
         /\ BytesIn(files, T) <= BytesIn(files, S)
<1>1. /\ IsFiniteSet(T) /\ IsFiniteSet(S \ T) /\ (S \ T) \cap T = {} /\ (S \ T) \cup T = S
  BY FS_Subset
<1>2. BytesIn(files, S) = BytesIn(files, S \ T) + BytesIn(files, T)
  <2>1. BytesIn(files, (S \ T) \cup T) = BytesIn(files, S \ T) + BytesIn(files, T)
    BY <1>1, BytesSplit
  <2> QED  BY <1>1, <2>1
<1>3. BytesIn(files, S) \in Nat /\ BytesIn(files, S \ T) \in Nat /\ BytesIn(files, T) \in Nat
  BY <1>1, BytesFinite
<1> QED  BY <1>2, <1>3

(* A length depends on the records alone, not on what is synced.           *)
LEMMA BytesSame ==
  ASSUME NEW files, NEW others, NEW S, \A n \in S : files[n].recs = others[n].recs
  PROVE  BytesIn(files, S) = BytesIn(others, S)
<1>1. { Units(n, files[n].recs) : n \in S } = { Units(n, others[n].recs) : n \in S }
  OBVIOUS
<1> QED  BY <1>1 DEF BytesIn

LEMMA BytesOfOne ==
  ASSUME NEW files, NEW n
  PROVE  BytesIn(files, {n}) = Cardinality(Units(n, files[n].recs))
<1>1. UNION { Units(m, files[m].recs) : m \in {n} } = Units(n, files[n].recs)
  OBVIOUS
<1> QED  BY <1>1 DEF BytesIn

LEMMA BytesOfNone == \A files : BytesIn(files, {}) = 0
<1>1. \A files : UNION { Units(m, files[m].recs) : m \in {} } = {}
  OBVIOUS
<1> QED  BY <1>1, FS_EmptySet DEF BytesIn

(* A file keeps at most the records it had. *)
LEMMA BytesShrink ==
  ASSUME NEW files, NEW others, NEW S, IsFiniteSet(S), \A n \in S : files[n] \in Segment,
         \A n \in S : \E k \in 0..Len(files[n].recs) : others[n].recs = SubSeq(files[n].recs, 1, k)
  PROVE  BytesIn(others, S) <= BytesIn(files, S) /\ BytesIn(others, S) \in Nat
<1> DEFINE units(f) == UNION { Units(n, f[n].recs) : n \in S }
<1>1. \A n \in S : Units(n, others[n].recs) \subseteq Units(n, files[n].recs)
  <2> TAKE n \in S
  <2> DEFINE recs == files[n].recs
  <2>1. PICK k \in 0..Len(recs) : others[n].recs = SubSeq(recs, 1, k)
    OBVIOUS
  <2>2. recs \in Seq(Record) /\ k <= Len(recs) /\ Len(SubSeq(recs, 1, k)) = k
        /\ \A i \in 1..k : SubSeq(recs, 1, k)[i] = recs[i]
    BY DEF Segment
  <2> QED  BY <2>1, <2>2 DEF Units
<1>2. units(others) \in SUBSET units(files)
  BY <1>1
<1>3. IsFiniteSet(units(files))
  BY BytesFinite
<1> HIDE DEF units
<1>4. /\ IsFiniteSet(units(others))
      /\ Cardinality(units(others)) <= Cardinality(units(files))
      /\ Cardinality(units(others)) \in Nat
  BY <1>2, <1>3, FS_Subset, FS_CardinalityType
<1> QED  BY <1>4 DEF units, BytesIn

----------------------------------------------------------------------------
(* The invariant of the buffer *)

Whole(recs, i) == \A j \in 1..i : recs[j] # Torn

(* The open segment is the newest. *)
OpenNewest == \A n \in current : \A m \in Names : m <= n

(* SegmentWriter::size stops at a full segment, and the records that can   *)
(* be read back from the open segment were counted in it.                  *)
Lengths ==
  /\ size <= FullSegment
  /\ \A n \in Names : \A i \in 0..Len(segments[n].recs) : Whole(segments[n].recs, i) =>
       /\ i * RecordSize <= FullSegment
       /\ n \in current => i * RecordSize <= size

WalInv == WalTypeOK /\ OpenNewest /\ Lengths

(* A segment holds a record even if the limit is below its length.         *)
LEMMA FullSegmentIs ==
  FullSegment \in Nat /\ FullSegment >= SegmentMax /\ FullSegment >= RecordSize
  BY MaxOfTwo, WalAssumption DEF FullSegment, RecordSize

(* What the types of the WAL say in the form the proofs use.               *)
LEMMA WalFacts ==
  ASSUME WalTypeOK
  PROVE  /\ IsFiniteSet(Names) /\ Names \subseteq Nat
         /\ \A n \in Names : segments[n] \in Segment
         /\ \A S \in SUBSET Names : /\ IsFiniteSet(S)
                                    /\ Bytes(S) = BytesIn(segments, S) /\ Bytes(S) \in Nat
         /\ \A m, n \in current : m = n
<1>1. millis \in Nat /\ Names \subseteq 0..millis
  BY DEF WalTypeOK, Names
<1>2. IsFiniteSet(Names)
  <2>1. IsFiniteSet(0..millis)
    BY <1>1, FS_Interval
  <2> QED  BY <1>1, <2>1, FS_Subset
<1>3. \A n \in Names : segments[n] \in Segment
  BY DEF WalTypeOK, Names, Segment, Record
<1>4. ASSUME NEW S \in SUBSET Names
      PROVE  IsFiniteSet(S) /\ Bytes(S) = BytesIn(segments, S) /\ Bytes(S) \in Nat
  <2>1. IsFiniteSet(S)
    BY <1>2, FS_Subset
  <2>2. Bytes(S) = BytesIn(segments, S)
    BY DEF Bytes, BytesIn
  <2> QED  BY <1>3, <2>1, <2>2, BytesFinite
<1>5. \A m, n \in current : m = n
  <2>1. current \in SUBSET Names /\ Cardinality(current) <= 1
    BY DEF WalTypeOK, Names
  <2>2. IsFiniteSet(current) /\ Cardinality(current) \in Nat
    BY <1>4, <2>1, FS_CardinalityType
  <2>3. Cardinality(current) = 0 \/ Cardinality(current) = 1
    BY <2>1, <2>2
  <2>4. current = {} \/ \E n : current = {n}
    BY <2>2, <2>3, FS_EmptySet, FS_Singleton
  <2> QED  BY <2>4
<1> QED  BY <1>1, <1>2, <1>3, <1>4, <1>5

LEMMA EvictedCompleted == Evicted \subseteq Completed /\ Completed \subseteq Names
  BY DEF Evicted, Completed

LEMMA MinusIsNat == ASSUME NEW a \in Nat, NEW b \in Nat PROVE Minus(a, b) \in Nat
  BY DEF Minus

(* What is read back from a segment are its records before a torn one. *)
LEMMA ReadableIsPrefix ==
  ASSUME NEW n, segments[n] \in Segment
  PROVE  \E i \in 0..Len(segments[n].recs) :
           /\ Whole(segments[n].recs, i)
           /\ Readable(n) = SubSeq(segments[n].recs, 1, i)
           /\ Len(Readable(n)) = i
           /\ \A j \in 1..i : Readable(n)[j] = segments[n].recs[j]
<1> DEFINE recs == segments[n].recs
           good == { i \in 0..Len(recs) : \A j \in 1..i : recs[j] # Torn }
<1>1. recs \in Seq(Record) /\ Len(recs) \in Nat
  BY DEF Segment
<1>2. good \in SUBSET Nat /\ 0 \in good /\ \A i \in good : i <= Len(recs)
  BY <1>1
<1> HIDE DEF good
<1>3. Max(good) \in good
  BY <1>1, <1>2, MaxMember
<1>4. Readable(n) = SubSeq(recs, 1, Max(good))
  BY DEF Readable, good
<1>5. Max(good) \in 0..Len(recs) /\ Whole(recs, Max(good))
  BY <1>3 DEF good, Whole
<1> HIDE DEF recs
<1>6. /\ Len(SubSeq(recs, 1, Max(good))) = Max(good)
      /\ \A j \in 1..Max(good) : SubSeq(recs, 1, Max(good))[j] = recs[j]
  BY <1>1, <1>5
<1> QED  BY <1>4, <1>5, <1>6 DEF recs

(* Steps that only take away: files, or the ends of files, or the open     *)
(* segment.                                                                *)
LEMMA WalShrinks ==
  ASSUME WalInv, Names' \subseteq Names, millis' \in Nat, millis' >= millis, total' \in Nat,
         \/ current' = current /\ current \subseteq Names' /\ size' = size
         \/ current' = {} /\ size' = 0,
         \A n \in Names' : /\ segments'[n] \in Segment
                           /\ segments'[n].synced <= Len(segments'[n].recs)
                           /\ \E k \in 0..Len(segments[n].recs) :
                                segments'[n].recs = SubSeq(segments[n].recs, 1, k)
  PROVE  WalInv'
<1>1. WalTypeOK'
  <2>1. Cardinality({}) = 0
    BY FS_EmptySet
  <2>2. Cardinality(current') <= 1 /\ current' \subseteq Names'
    <3>1. CASE current' = current /\ current \subseteq Names'
      BY <3>1 DEF WalInv, WalTypeOK
    <3>2. CASE current' = {}
      BY <2>1, <3>2
    <3> QED  BY <3>1, <3>2
  <2>3. size' \in Nat /\ Names' \subseteq 0..millis'
    BY DEF WalInv, WalTypeOK, Names
  <2> QED  BY <2>2, <2>3 DEF WalInv, WalTypeOK, Names, Segment, Record
<1>2. OpenNewest'
  BY DEF WalInv, OpenNewest
<1>3. Lengths'
  <2>1. size' <= FullSegment
    BY FullSegmentIs DEF WalInv, Lengths
  <2>2. ASSUME NEW n \in Names', NEW i \in 0..Len(segments'[n].recs), Whole(segments'[n].recs, i)
        PROVE  /\ i * RecordSize <= FullSegment
               /\ n \in current' => i * RecordSize <= size'
    <3>1. PICK k \in 0..Len(segments[n].recs) : segments'[n].recs = SubSeq(segments[n].recs, 1, k)
      OBVIOUS
    <3>2. segments[n].recs \in Seq(Record) /\ n \in Names
      BY WalFacts DEF WalInv, Segment
    <3>3. /\ Len(segments'[n].recs) = k
          /\ \A j \in 1..k : segments'[n].recs[j] = segments[n].recs[j]
      BY <3>1, <3>2
    <3>4. i \in 0..Len(segments[n].recs) /\ Whole(segments[n].recs, i)
      BY <2>2, <3>1, <3>2, <3>3 DEF Whole
    <3> QED  BY <3>2, <3>4 DEF WalInv, Lengths
  <2> QED  BY <2>1, <2>2, FullSegmentIs DEF Lengths, FullSegment
<1> QED  BY <1>1, <1>2, <1>3 DEF WalInv

(* A record goes to the end of the open segment, or of a new, newest one,  *)
(* which holds the records `recs` and the count `open` so far.             *)
LEMMA Appended ==
  ASSUME WalTypeOK, NEW rec \in Record, AppendRecord(rec)
  PROVE  \E n \in Nat, recs \in Seq(Record), open \in Nat :
           /\ current' = {n} /\ Names' = (Names \ Evicted) \cup {n}
           /\ \A m \in Names' \ {n} : m \in Names \ Evicted /\ segments'[m] = segments[m]
           /\ segments'[n] \in Segment /\ segments'[n].recs = Append(recs, rec)
           /\ segments'[n].synced <= Len(segments'[n].recs)
           /\ size' = open + (IF rec = Torn THEN 0 ELSE RecordSize)
           /\ total' = Minus(total, Bytes(Evicted)) + (IF rec = Torn THEN 0 ELSE RecordSize)
           /\ \/ /\ n = millis + 1 /\ n \notin Names /\ millis' = n
                 /\ recs = <<>> /\ open = 0
              \/ /\ current = {n} /\ n \in Names \ Evicted /\ millis' = millis
                 /\ recs = segments[n].recs /\ open = size /\ size + RecordSize <= SegmentMax
<1>1. PICK n \in IF NeedsRotate THEN {millis + 1} ELSE current :
        /\ segments' = [m \in (Names \ Evicted) \cup {n} |->
                          IF m # n THEN segments[m]
                          ELSE IF NeedsRotate THEN [recs |-> <<rec>>, synced |-> 0]
                          ELSE [segments[n] EXCEPT !.recs = Append(@, rec)]]
        /\ current' = {n}
        /\ millis' = IF NeedsRotate THEN n ELSE millis
        /\ size' = (IF NeedsRotate THEN 0 ELSE size) + (IF rec = Torn THEN 0 ELSE RecordSize)
        /\ total' = Minus(total, Bytes(Evicted)) + (IF rec = Torn THEN 0 ELSE RecordSize)
  BY DEF AppendRecord
<1>2. /\ Names' = (Names \ Evicted) \cup {n}
      /\ \A m \in Names' \ {n} : m \in Names \ Evicted /\ segments'[m] = segments[m]
  BY <1>1 DEF Names
<1>3. millis \in Nat /\ size \in Nat /\ Names \subseteq 0..millis /\ SegmentMax \in Nat
  BY WalAssumption DEF WalTypeOK, Names
<1>4. CASE NeedsRotate
  <2>1. n = millis + 1 /\ n \in Nat /\ n \notin Names /\ millis' = n
    BY <1>1, <1>3, <1>4
  <2>2. segments'[n] = [recs |-> <<rec>>, synced |-> 0]
    BY <1>1, <1>4 DEF Names
  <2>3. /\ <<rec>> = Append(<<>>, rec) /\ <<>> \in Seq(Record)
        /\ <<rec>> \in Seq(Record) /\ 0 <= Len(<<rec>>)
    OBVIOUS
  <2>4. segments'[n] \in Segment /\ segments'[n].recs = Append(<<>>, rec)
        /\ segments'[n].synced <= Len(segments'[n].recs)
    BY <2>2, <2>3 DEF Segment
  <2>5. size' = 0 + (IF rec = Torn THEN 0 ELSE RecordSize)
    BY <1>1, <1>4
  <2>6. 0 \in Nat
    OBVIOUS
  <2> QED  BY <1>1, <1>2, <2>1, <2>3, <2>4, <2>5, <2>6
<1>5. CASE ~NeedsRotate
  <2>1. n \in current /\ current \subseteq Names /\ size + RecordSize <= SegmentMax
    BY <1>1, <1>3, <1>5 DEF NeedsRotate, WalTypeOK, Names, RecordSize
  <2>2. current = {n} /\ n \in Names \ Evicted /\ n \in Nat /\ segments[n] \in Segment
        /\ segments[n].synced <= Len(segments[n].recs)
    BY <1>3, <2>1, WalFacts, EvictedCompleted DEF Completed, WalTypeOK, Names
  <2> DEFINE recs == segments[n].recs
  <2>3. segments'[n] = [segments[n] EXCEPT !.recs = Append(@, rec)]
    BY <1>1, <1>5 DEF Names
  <2>4. recs \in Seq(Record) /\ Append(recs, rec) \in Seq(Record)
        /\ Len(Append(recs, rec)) = Len(recs) + 1 /\ Len(recs) \in Nat
        /\ segments[n].synced \in Nat
    BY <2>2 DEF Segment
  <2>5. /\ segments'[n].recs = Append(recs, rec) /\ segments'[n].synced = segments[n].synced
        /\ segments'[n] \in Segment
    BY <2>2, <2>3, <2>4 DEF Segment
  <2>6. segments'[n].synced <= Len(segments'[n].recs)
    BY <2>2, <2>4, <2>5
  <2>7. size' = size + (IF rec = Torn THEN 0 ELSE RecordSize) /\ millis' = millis
    BY <1>1, <1>5
  <2> QED  BY <1>1, <1>2, <1>3, <2>1, <2>2, <2>4, <2>5, <2>6, <2>7
<1> QED  BY <1>4, <1>5

(* The new record goes to the newest segment, which has room for it.       *)
LEMMA AppendKeepsWal ==
  ASSUME WalInv, NEW rec \in Record, AppendRecord(rec)
  PROVE  WalInv'
<1> USE DEF WalInv
<1>1. PICK n \in Nat, recs \in Seq(Record), open \in Nat :
           /\ current' = {n} /\ Names' = (Names \ Evicted) \cup {n}
           /\ \A m \in Names' \ {n} : m \in Names \ Evicted /\ segments'[m] = segments[m]
           /\ segments'[n] \in Segment /\ segments'[n].recs = Append(recs, rec)
           /\ segments'[n].synced <= Len(segments'[n].recs)
           /\ size' = open + (IF rec = Torn THEN 0 ELSE RecordSize)
           /\ total' = Minus(total, Bytes(Evicted)) + (IF rec = Torn THEN 0 ELSE RecordSize)
           /\ \/ /\ n = millis + 1 /\ n \notin Names /\ millis' = n
                 /\ recs = <<>> /\ open = 0
              \/ /\ current = {n} /\ n \in Names \ Evicted /\ millis' = millis
                 /\ recs = segments[n].recs /\ open = size /\ size + RecordSize <= SegmentMax
  BY Appended
<1>2. /\ millis \in Nat /\ size \in Nat /\ total \in Nat /\ Names \subseteq 0..millis
      /\ SegmentMax \in Nat /\ RecordSize = 2
      /\ FullSegment \in Nat /\ FullSegment >= SegmentMax /\ FullSegment >= RecordSize
  BY WalAssumption, FullSegmentIs DEF WalTypeOK, Names, RecordSize
<1>3. size' \in Nat /\ size' <= FullSegment
  BY <1>1, <1>2
<1>4. millis' \in Nat /\ \A m \in Names' : m \in 0..millis' /\ m <= n
  <2>1. n \in 0..millis' /\ millis <= millis' /\ millis' \in Nat
    BY <1>1, <1>2
  <2>2. \A m \in Names : m \in 0..millis /\ m <= n
    <3>1. CASE n = millis + 1
      BY <1>2, <3>1
    <3>2. CASE current = {n}
      BY <1>2, <3>2 DEF OpenNewest
    <3> QED  BY <1>1, <3>1, <3>2
  <2>3. \A m \in Names : m \in 0..millis'
    BY <1>2, <2>1, <2>2
  <2> QED  BY <1>1, <2>1, <2>2, <2>3
<1>5. WalTypeOK'
  <2>1. Cardinality(current') <= 1
    <3>1. Cardinality({n}) = 1
      BY FS_Singleton
    <3> QED  BY <1>1, <3>1
  <2>2. total' \in Nat
    <3>1. Minus(total, Bytes(Evicted)) \in Nat
      BY <1>2, WalFacts, EvictedCompleted, MinusIsNat
    <3> QED  BY <1>1, <1>2, <3>1
  <2>3. millis' \in Nat /\ Names' \subseteq 0..millis'
    BY <1>4
  <2>4. \A m \in Names' : segments'[m] \in Segment /\ segments'[m].synced <= Len(segments'[m].recs)
    <3>1. \A m \in Names : segments[m] \in Segment /\ segments[m].synced <= Len(segments[m].recs)
      BY WalFacts DEF WalTypeOK, Names
    <3>2. ASSUME NEW m \in Names', m # n
          PROVE  segments'[m] \in Segment /\ segments'[m].synced <= Len(segments'[m].recs)
      <4>1. m \in Names /\ segments'[m] = segments[m]
        BY <1>1, <3>2
      <4> QED  BY <3>1, <4>1
    <3> QED  BY <1>1, <3>2
  <2>5. current' \subseteq Names'
    BY <1>1
  <2>6. \A m \in DOMAIN segments' :
          /\ segments'[m] \in [recs: Seq(Events \cup {Torn}), synced: Nat]
          /\ segments'[m].synced <= Len(segments'[m].recs)
    BY <2>4 DEF Names, Segment, Record
  <2> QED  BY <1>3, <2>1, <2>2, <2>3, <2>5, <2>6 DEF WalTypeOK, Names
<1>6. OpenNewest'
  BY <1>1, <1>4 DEF OpenNewest
<1>7. Lengths'
  <2>1. ASSUME NEW m \in Names', NEW i \in 0..Len(segments'[m].recs), Whole(segments'[m].recs, i)
        PROVE  /\ i * RecordSize <= FullSegment
               /\ m \in current' => i * RecordSize <= size'
    <3>1. CASE m # n
      <4>1. m \in Names /\ segments'[m] = segments[m] /\ m \notin current'
        BY <1>1, <3>1
      <4> QED  BY <2>1, <4>1 DEF Lengths
    <3>2. CASE m = n
      <4>1. /\ segments'[m].recs = Append(recs, rec) /\ Len(Append(recs, rec)) = Len(recs) + 1
            /\ Append(recs, rec)[Len(recs) + 1] = rec /\ Len(recs) \in Nat
            /\ \A j \in 1..Len(recs) : Append(recs, rec)[j] = recs[j]
        BY <1>1, <3>2
      <4>2. \A k \in 0..Len(recs) : Whole(recs, k) => k * RecordSize <= open
        <5>1. CASE recs = <<>> /\ open = 0
          BY <1>2, <5>1
        <5>2. CASE current = {n} /\ recs = segments[n].recs /\ open = size /\ n \in Names
          BY <5>2 DEF Lengths
        <5> QED  BY <1>1, <5>1, <5>2
      <4>3. CASE i <= Len(recs)
        <5>1. i \in 0..Len(recs) /\ Whole(recs, i)
          BY <2>1, <4>1, <4>3 DEF Whole
        <5>2. i * RecordSize <= open
          BY <4>2, <5>1
        <5> QED  BY <1>1, <1>2, <1>3, <5>2, <5>1
      <4>4. CASE i = Len(recs) + 1
        <5>1. rec # Torn /\ Whole(recs, Len(recs))
          BY <2>1, <4>1, <4>4 DEF Whole
        <5>2. Len(recs) * RecordSize <= open
          BY <4>1, <4>2, <5>1
        <5>3. size' = open + RecordSize
          BY <1>1, <5>1
        <5> QED  BY <1>2, <1>3, <4>1, <4>4, <5>2, <5>3
      <4> QED  BY <2>1, <4>1, <4>3, <4>4
    <3> QED  BY <3>1, <3>2
  <2> QED  BY <1>3, <2>1 DEF Lengths, FullSegment
<1> QED  BY <1>5, <1>6, <1>7

(* Every file of S stays as it is. *)
LEMMA KeptFiles ==
  ASSUME WalTypeOK, NEW S \in SUBSET Names, segments' = Restrict(segments, S)
  PROVE  /\ Names' = S
         /\ \A n \in Names' : segments'[n] = segments[n]
         /\ \A n \in Names' : /\ segments'[n] \in Segment
                              /\ segments'[n].synced <= Len(segments'[n].recs)
                              /\ \E k \in 0..Len(segments[n].recs) :
                                   segments'[n].recs = SubSeq(segments[n].recs, 1, k)
<1>1. Names' = S /\ \A n \in Names' : segments'[n] = segments[n]
  BY DEF Restrict, Names
<1>2. ASSUME NEW n \in Names'
      PROVE  /\ segments'[n] \in Segment /\ segments'[n].synced <= Len(segments'[n].recs)
             /\ \E k \in 0..Len(segments[n].recs) :
                  segments'[n].recs = SubSeq(segments[n].recs, 1, k)
  <2>1. n \in Names /\ segments'[n] = segments[n]
    BY <1>1, <1>2
  <2>2. segments[n] \in Segment /\ segments[n].synced <= Len(segments[n].recs)
    BY <2>1, WalFacts DEF WalTypeOK, Names
  <2> DEFINE recs == segments[n].recs
  <2>3. recs \in Seq(Record) /\ Len(recs) \in 0..Len(recs)
    BY <2>2 DEF Segment
  <2>4. recs = SubSeq(recs, 1, Len(recs))
    BY <2>3
  <2> QED  BY <2>1, <2>2, <2>3, <2>4
<1> QED  BY <1>1, <1>2

(* Only a completed segment is deleted.                                    *)
LEMMA DeleteKeepsWal ==
  ASSUME WalInv, NEW n \in Completed, Delete(n)
  PROVE  WalInv'
<1>1. Names \ {n} \in SUBSET Names /\ segments' = Restrict(segments, Names \ {n}) /\ WalTypeOK
  BY DEF Delete, WalInv
<1>2. Names' = Names \ {n}
  BY <1>1, KeptFiles
<1>3. millis' = millis /\ millis \in Nat /\ current' = current /\ size' = size
      /\ current \subseteq Names'
  BY <1>1, <1>2 DEF Delete, WalTypeOK, Names, Completed
<1>4. total' \in Nat
  <2>1. Bytes({n}) \in Nat /\ total \in Nat
    BY <1>1, WalFacts DEF Completed, WalTypeOK
  <2> QED  BY <2>1, MinusIsNat DEF Delete
<1>5. \A m \in Names' : /\ segments'[m] \in Segment
                        /\ segments'[m].synced <= Len(segments'[m].recs)
                        /\ \E k \in 0..Len(segments[m].recs) :
                             segments'[m].recs = SubSeq(segments[m].recs, 1, k)
  BY <1>1, KeptFiles
<1> QED  BY <1>2, <1>3, <1>4, <1>5, WalShrinks

(* An eviction or a rotation that fails half way.                          *)
LEMMA FailureKeepsWal ==
  ASSUME WalInv, EvictFails \/ RotateFails
  PROVE  WalInv'
<1>1. WalTypeOK /\ Evicted \subseteq Completed /\ Completed \subseteq Names /\ total \in Nat
      /\ millis \in Nat /\ current \subseteq Names
  BY EvictedCompleted DEF WalInv, WalTypeOK, Names
<1>2. PICK gone \in SUBSET Evicted :
        /\ segments' = Restrict(segments, Names \ gone)
        /\ total' = Minus(total, Bytes(gone)) /\ millis' = millis
        /\ \/ current' = current /\ size' = size
           \/ current' = {} /\ size' = 0
  <2>1. CASE EvictFails
    <3>1. PICK v \in Evicted :
            LET gone == { n \in Evicted : n < v } IN
              /\ segments' = Restrict(segments, Names \ gone)
              /\ total' = Minus(total, Bytes(gone))
              /\ UNCHANGED <<current, size, millis>>
      BY <2>1 DEF EvictFails
    <3>2. { n \in Evicted : n < v } \in SUBSET Evicted
      OBVIOUS
    <3> QED  BY <3>1, <3>2
  <2>2. CASE RotateFails
    BY <2>2 DEF RotateFails
  <2> QED  BY <2>1, <2>2
<1>3. Names \ gone \in SUBSET Names /\ gone \in SUBSET Names
  BY <1>1
<1>4. Names' = Names \ gone
  BY <1>1, <1>2, <1>3, KeptFiles
<1>5. current \subseteq Names'
  BY <1>1, <1>4 DEF Completed
<1>6. total' \in Nat
  BY <1>1, <1>2, <1>3, WalFacts, MinusIsNat
<1>7. \A m \in Names' : /\ segments'[m] \in Segment
                        /\ segments'[m].synced <= Len(segments'[m].recs)
                        /\ \E k \in 0..Len(segments[m].recs) :
                             segments'[m].recs = SubSeq(segments[m].recs, 1, k)
  BY <1>1, <1>2, <1>3, KeptFiles
<1>8. /\ Names' \subseteq Names /\ millis' \in Nat /\ millis' >= millis
      /\ \/ current' = current /\ current \subseteq Names' /\ size' = size
         \/ current' = {} /\ size' = 0
  <2>1. Names' \subseteq Names /\ millis' \in Nat /\ millis' >= millis
    BY <1>1, <1>2, <1>4
  <2> QED  BY <1>2, <1>5, <2>1
<1> QED  BY <1>6, <1>7, <1>8, WalShrinks

(* A sync leaves the records alone.                                        *)
LEMMA SyncKeepsWal ==
  ASSUME WalInv, Sync
  PROVE  WalInv'
<1>1. WalTypeOK /\ current \subseteq Names /\ millis \in Nat /\ total \in Nat
  BY DEF WalInv, WalTypeOK, Names
<1>2. Names' = Names /\ UNCHANGED <<current, size, total, millis>>
  BY DEF Sync, Names
<1>3. ASSUME NEW n \in Names'
      PROVE  /\ segments'[n] \in Segment /\ segments'[n].synced <= Len(segments'[n].recs)
             /\ \E k \in 0..Len(segments[n].recs) :
                  segments'[n].recs = SubSeq(segments[n].recs, 1, k)
  <2>1. segments[n] \in Segment /\ segments[n].synced <= Len(segments[n].recs)
    BY <1>1, <1>2, WalFacts DEF WalTypeOK, Names
  <2>2. \/ segments'[n] = segments[n]
        \/ segments'[n] = [segments[n] EXCEPT !.synced = Len(segments[n].recs)]
    BY <1>2 DEF Sync
  <2> DEFINE recs == segments[n].recs
  <2>3. recs \in Seq(Record) /\ Len(recs) \in Nat /\ Len(recs) \in 0..Len(recs)
        /\ Len(recs) <= Len(recs)
    BY <2>1 DEF Segment
  <2>4. recs = SubSeq(recs, 1, Len(recs))
    BY <2>3
  <2>5. /\ segments'[n].recs = recs /\ segments'[n] \in Segment
        /\ segments'[n].synced <= Len(recs)
    <3>1. CASE segments'[n] = segments[n]
      BY <2>1, <3>1
    <3>2. CASE segments'[n] = [segments[n] EXCEPT !.synced = Len(segments[n].recs)]
      BY <2>1, <2>3, <3>2 DEF Segment
    <3> QED  BY <2>2, <3>1, <3>2
  <2> QED  BY <2>3, <2>4, <2>5
<1> QED  BY <1>1, <1>2, <1>3, WalShrinks

(* A power loss leaves a beginning of every segment.                       *)
LEMMA PowerLossKeepsWal ==
  ASSUME WalInv, PowerLoss, UNCHANGED <<current, size, total, millis>>
  PROVE  /\ WalInv' /\ Names' = Names
         /\ \A n \in Names : \E k \in 0..Len(segments[n].recs) :
              segments'[n].recs = SubSeq(segments[n].recs, 1, k)
<1>1. WalTypeOK /\ current \subseteq Names /\ millis \in Nat /\ total \in Nat
  BY DEF WalInv, WalTypeOK, Names
<1>2. PICK kept :
        /\ \A n \in Names : kept[n] \in segments[n].synced..Len(segments[n].recs)
        /\ segments' = [n \in Names |-> [recs   |-> SubSeq(segments[n].recs, 1, kept[n]),
                                         synced |-> kept[n]]]
  BY DEF PowerLoss
<1>3. Names' = Names
  BY <1>2 DEF Names
<1>4. ASSUME NEW n \in Names
      PROVE  /\ segments'[n] \in Segment /\ segments'[n].synced <= Len(segments'[n].recs)
             /\ \E k \in 0..Len(segments[n].recs) :
                  segments'[n].recs = SubSeq(segments[n].recs, 1, k)
  <2>1. segments[n] \in Segment
    BY <1>1, WalFacts
  <2> DEFINE recs == segments[n].recs
             k    == kept[n]
  <2>2. recs \in Seq(Record) /\ segments[n].synced \in Nat /\ k \in 0..Len(recs)
    BY <1>2, <2>1 DEF Segment
  <2>3. segments'[n] = [recs |-> SubSeq(recs, 1, k), synced |-> k]
    BY <1>2, <1>4
  <2> HIDE DEF recs, k
  <2>4. SubSeq(recs, 1, k) \in Seq(Record) /\ Len(SubSeq(recs, 1, k)) = k /\ k \in Nat
    BY <2>2
  <2>5. segments'[n] \in Segment /\ segments'[n].synced <= Len(segments'[n].recs)
        /\ segments'[n].recs = SubSeq(recs, 1, k)
    BY <2>3, <2>4 DEF Segment
  <2> QED  BY <2>2, <2>5 DEF recs
<1> QED  BY <1>1, <1>3, <1>4, WalShrinks

(* A restart counts the files. *)
LEMMA OpenKeepsWal ==
  ASSUME WalInv, Open, segments' = segments, millis' = millis + 1
  PROVE  WalInv'
<1>1. WalTypeOK /\ millis \in Nat
  BY DEF WalInv, WalTypeOK
<1>2. Names' = Names
  BY DEF Names
<1>3. ASSUME NEW n \in Names'
      PROVE  /\ segments'[n] \in Segment /\ segments'[n].synced <= Len(segments'[n].recs)
             /\ \E k \in 0..Len(segments[n].recs) :
                  segments'[n].recs = SubSeq(segments[n].recs, 1, k)
  <2>1. segments[n] \in Segment /\ segments[n].synced <= Len(segments[n].recs)
    BY <1>1, <1>2, WalFacts DEF WalTypeOK, Names
  <2> DEFINE recs == segments[n].recs
  <2>2. recs \in Seq(Record) /\ Len(recs) \in 0..Len(recs)
    BY <2>1 DEF Segment
  <2>3. recs = SubSeq(recs, 1, Len(recs))
    BY <2>2
  <2>4. segments'[n] = segments[n]
    OBVIOUS
  <2> QED  BY <2>1, <2>2, <2>3, <2>4
<1>4. total' \in Nat
  BY <1>1, WalFacts DEF Open
<1>5. current' = {} /\ size' = 0
  BY DEF Open
<1> QED  BY <1>1, <1>2, <1>3, <1>4, <1>5, WalShrinks

----------------------------------------------------------------------------
(* Type correctness *)

(* What the loop has in hand in each of its phases *)
Phases ==
  /\ pc = "recv" => Len(batch) < BatchSize /\ written = 0
  /\ pc = "send" => batch # <<>> /\ written = 0
  /\ pc = "write" => written < Len(batch)
  /\ pc = "sync" => written = Len(batch)
  /\ pc \in {"drain", "down"} => batch = <<>> /\ written = 0

Typing == TypeOK /\ Phases /\ WalInv

LEMMA WalUnchanged == ASSUME WalInv, UNCHANGED walvars PROVE WalInv'
  BY DEF walvars, WalInv, WalTypeOK, OpenNewest, Lengths, Names

(* While the batch is being written there is a record left to write.       *)
LEMMA NextRecord ==
  ASSUME Typing, pc = "write"
  PROVE  /\ written + 1 \in 1..Len(batch) /\ batch[written + 1] \in Events
         /\ batch[written + 1] \in Record /\ Torn \in Record
<1>1. batch \in Seq(Events) /\ Len(batch) \in Nat /\ written \in Nat /\ written < Len(batch)
  BY DEF Typing, TypeOK, Phases
<1> QED  BY <1>1 DEF Record

(* Every step keeps the open segment the newest, and its length.           *)
LEMMA StepKeepsWal == Typing /\ [Next]_vars => WalInv'
<1> SUFFICES ASSUME Typing, [Next]_vars PROVE WalInv'
  OBVIOUS
<1>1. WalInv
  BY DEF Typing
<1>2. CASE UNCHANGED walvars
  BY <1>1, <1>2, WalUnchanged
<1>3. ASSUME NEW n \in Completed, Delete(n) PROVE WalInv'
  BY <1>1, <1>3, DeleteKeepsWal
<1>4. CASE BatchSent
  <2>1. \/ UNCHANGED walvars
        \/ \E n \in Completed : Delete(n)
    BY <1>4 DEF BatchSent
  <2> QED  BY <1>2, <1>3, <2>1
<1>5. CASE WriteRecord
  BY <1>1, <1>5, NextRecord, AppendKeepsWal DEF WriteRecord
<1>6. CASE WriteFails
  BY <1>1, <1>6, NextRecord, AppendKeepsWal, FailureKeepsWal DEF WriteFails
<1>7. CASE WriteDone
  BY <1>1, <1>2, <1>7, SyncKeepsWal DEF WriteDone
<1>8. CASE DrainSent
  <2>1. draining \subseteq Completed
    BY DEF Typing, TypeOK
  <2>2. UNCHANGED walvars \/ \E n \in draining : Delete(n)
    BY <1>8 DEF DrainSent
  <2> QED  BY <1>2, <1>3, <2>1, <2>2
<1>9. CASE Crash
  <2>1. \/ UNCHANGED walvars
        \/ pc = "write" /\ AppendRecord(Torn)
        \/ PowerLoss /\ UNCHANGED <<current, size, total, millis>>
    BY <1>9 DEF Crash
  <2> QED  BY <1>1, <1>2, <2>1, NextRecord, AppendKeepsWal, PowerLossKeepsWal
<1>10. CASE Restart
  BY <1>1, <1>10, OpenKeepsWal DEF Restart
<1>11. CASE Receive \/ Deadline \/ BatchFailed \/ DrainFailed \/ UNCHANGED vars
  BY <1>2, <1>11 DEF Receive, Deadline, BatchFailed, DrainFailed, vars
<1> QED  BY <1>4, <1>5, <1>6, <1>7, <1>8, <1>9, <1>10, <1>11 DEF Next, Loop

(* The events in a set of segments, one by one.                            *)
LEMMA RecordsAre ==
  ASSUME NEW S, NEW e
  PROVE  e \in Records(S) <=> e # Torn /\ \E n \in S : e \in Range(segments[n].recs)
<1>1. e \in UNION { Range(segments[n].recs) : n \in S } <=>
        \E n \in S : e \in Range(segments[n].recs)
  OBVIOUS
<1> QED  BY <1>1 DEF Records

(* The events of a sequence, of what is read back, and on disk *)
LEMMA EventsOf ==
  ASSUME Typing
  PROVE  /\ \A s \in Seq(Events) : Range(s) \subseteq Events
         /\ \A i \in Nat : Range(SubSeq(batch, i + 1, Len(batch))) \subseteq Range(batch)
         /\ \A S \in SUBSET Names : Records(S) \subseteq Events
         /\ Stored \subseteq Events
<1>1. \A s \in Seq(Events) : Range(s) \subseteq Events
  BY DEF Range
<1>2. batch \in Seq(Events)
  BY DEF Typing, TypeOK
<1>3. ASSUME NEW i \in Nat PROVE Range(SubSeq(batch, i + 1, Len(batch))) \subseteq Range(batch)
  <2> DEFINE rest == SubSeq(batch, i + 1, Len(batch))
  <2>1. \A j \in DOMAIN rest : i + j \in DOMAIN batch /\ rest[j] = batch[i + j]
    <3>1. Len(batch) \in Nat /\ DOMAIN batch = 1..Len(batch)
      BY <1>2
    <3>2. CASE i >= Len(batch)
      <4>1. DOMAIN rest = {}
        BY <1>2, <3>1, <3>2
      <4> QED  BY <4>1
    <3>3. CASE i < Len(batch)
      <4>1. DOMAIN rest = 1..(Len(batch) - i)
            /\ \A j \in 1..(Len(batch) - i) : rest[j] = batch[i + j]
        BY <1>2, <3>1, <3>3
      <4> QED  BY <3>1, <3>3, <4>1
    <3> QED  BY <3>1, <3>2, <3>3
  <2> QED  BY <2>1 DEF Range
<1>4. ASSUME NEW S \in SUBSET Names PROVE Records(S) \subseteq Events
  <2>1. \A n \in S : Range(segments[n].recs) \subseteq Events \cup {Torn}
    BY WalFacts DEF Typing, WalInv, Segment, Record, Range
  <2> QED  BY <2>1, RecordsAre
<1>5. Stored \subseteq Events
  BY <1>4 DEF Stored
<1> QED  BY <1>1, <1>3, <1>4, <1>5

(* A drain reads a batch of the readable records, or all of them. *)
LEMMA ReadIsReadable ==
  ASSUME NEW n, segments[n] \in Segment
  PROVE  \E i \in 0..Len(Readable(n)) :
           /\ i = BatchSize \/ i = Len(Readable(n))
           /\ Range(ReadSegment(n, BatchSize)) \subseteq Range(Readable(n))
           /\ Range(Readable(n)) \subseteq Events
           /\ Range(Readable(n)) \subseteq Records({n})
           /\ i = Len(Readable(n)) => ReadSegment(n, BatchSize) = Readable(n)
<1>1. PICK k \in 0..Len(segments[n].recs) :
        /\ Whole(segments[n].recs, k)
        /\ Readable(n) = SubSeq(segments[n].recs, 1, k)
        /\ Len(Readable(n)) = k
        /\ \A j \in 1..k : Readable(n)[j] = segments[n].recs[j]
  BY ReadableIsPrefix
<1>2. segments[n].recs \in Seq(Record) /\ Len(segments[n].recs) \in Nat
  BY DEF Segment
<1>3. \A j \in 1..k : /\ segments[n].recs[j] \in Events
                      /\ segments[n].recs[j] \in Records({n})
  <2> TAKE j \in 1..k
  <2>1. j \in 1..Len(segments[n].recs) /\ segments[n].recs[j] # Torn
    BY <1>1, <1>2 DEF Whole
  <2>2. segments[n].recs[j] \in Record /\ segments[n].recs[j] \in Range(segments[n].recs)
    BY <1>2, <2>1 DEF Range
  <2> QED  BY <2>1, <2>2, RecordsAre DEF Record
<1> DEFINE read == Readable(n)
<1>4. read \in Seq(Record) /\ DOMAIN read = 1..k
  BY <1>1, <1>2
<1>5. Range(read) \subseteq Events /\ Range(read) \subseteq Records({n})
  BY <1>1, <1>3, <1>4 DEF Range
<1>6. PICK i \in 0..k : i = Min({BatchSize, k}) /\ (i = BatchSize \/ i = k)
  <2>1. BatchSize \in Nat /\ k \in Nat
    BY <1>2, WalAssumption
  <2>2. Min({BatchSize, k}) \in {BatchSize, k} /\ Min({BatchSize, k}) <= k
    BY <2>1, MinOfTwo
  <2> QED  BY <2>1, <2>2
<1>7. ReadSegment(n, BatchSize) = SubSeq(read, 1, i)
  BY <1>1, <1>6 DEF ReadSegment
<1> HIDE DEF read
<1>8. Range(SubSeq(read, 1, i)) \subseteq Range(read)
  <2>1. i \in Nat /\ i <= Len(read) /\ read \in Seq(Record)
    BY <1>1, <1>2, <1>4, <1>6 DEF read
  <2>2. DOMAIN SubSeq(read, 1, i) = 1..i /\ \A j \in 1..i : SubSeq(read, 1, i)[j] = read[j]
    BY <2>1
  <2>3. 1..i \subseteq DOMAIN read
    BY <1>2, <1>4, <1>6
  <2> QED  BY <2>2, <2>3 DEF Range
<1>9. i = k => SubSeq(read, 1, i) = read
  <2>1. Len(read) = k
    BY <1>1 DEF read
  <2> QED  BY <1>4, <2>1
<1> QED  BY <1>1, <1>5, <1>6, <1>7, <1>8, <1>9 DEF read

(* Every step keeps the types and the phases of the loop.                  *)
LEMMA StepKeepsTypes == Typing /\ [Next]_vars => TypeOK' /\ Phases'
<1> SUFFICES ASSUME Typing, [Next]_vars PROVE TypeOK' /\ Phases'
  OBVIOUS
<1>1. WalTypeOK' /\ WalTypeOK
  BY StepKeepsWal DEF WalInv, Typing
<1> DEFINE Given ==
      /\ pc \in {"recv", "send", "write", "sync", "drain", "down"}
      /\ buffered \in BOOLEAN
      /\ batch \in Seq(Events) /\ Len(batch) \in Nat /\ Len(batch) <= BatchSize
      /\ written \in 0..Len(batch)
      /\ draining \subseteq Completed /\ (pc # "drain" => draining = {})
      /\ received \in 0..MaxEvents
      /\ ingested \subseteq Events /\ dropped \subseteq Events
      /\ failures \in 0..MaxFailures /\ ioErrors \in 0..MaxIoErrors /\ crashes \in 0..MaxCrashes
      /\ MaxEvents \in Nat /\ BatchSize \in Nat \ {0}
      /\ MaxFailures \in Nat /\ MaxIoErrors \in Nat /\ MaxCrashes \in Nat
      /\ Phases
<1>2. Given
  BY WalAssumption, IngestAssumption DEF Typing, TypeOK
<1>3. /\ Range(batch) \subseteq Events /\ Stored \subseteq Events
      /\ Range(SubSeq(batch, written + 1, Len(batch))) \subseteq Events
      /\ \A S \in SUBSET Names : Records(S) \subseteq Events
  BY <1>2, EventsOf
<1>4. Len(<<>>) = 0 /\ <<>> \in Seq(Events)
  OBVIOUS
<1>5. ASSUME NEW n \in Completed PROVE Range(ReadSegment(n, BatchSize)) \subseteq Events
  <2>1. segments[n] \in Segment
    BY <1>1, WalFacts DEF Completed
  <2> QED  BY <2>1, ReadIsReadable
<1> HIDE DEF Given
<1>6. CASE Receive
  <2>1. PICK e \in Events : batch' = Append(batch, e)
    BY <1>2, <1>6 DEF Receive, Given, Events
  <2>2. batch' \in Seq(Events) /\ Len(batch') = Len(batch) + 1 /\ batch' # <<>>
    BY <1>2, <2>1 DEF Given
  <2>3. /\ pc = "recv" /\ draining = {} /\ written = 0 /\ Len(batch) < BatchSize
        /\ pc' = IF Len(batch') >= BatchSize THEN "send" ELSE "recv"
        /\ received' \in 0..MaxEvents
        /\ UNCHANGED <<buffered, written, draining, ingested, dropped, failures, ioErrors, crashes>>
    BY <1>2, <1>6 DEF Receive, Given, Phases
  <2> QED  BY <1>1, <1>2, <2>2, <2>3 DEF Given, TypeOK, Phases
<1>7. CASE Deadline
  BY <1>1, <1>2, <1>7 DEF Deadline, Given, TypeOK, Phases
<1>8. CASE BatchSent
  <2>1. /\ pc = "send" /\ batch' = <<>> /\ written' = 0 /\ draining = {}
        /\ ingested' = ingested \cup Range(batch)
        /\ UNCHANGED <<buffered, received, failures, crashes>>
    BY <1>2, <1>8 DEF BatchSent, Given, Phases
  <2>2. \/ pc' = "recv" /\ draining' = {}
        \/ pc' = "drain" /\ draining' # {} /\ draining' \subseteq Completed'
    <3>1. ASSUME NEW n \in Completed, pc' = "drain", draining' = {n}, UNCHANGED walvars
          PROVE  pc' = "drain" /\ draining' # {} /\ draining' \subseteq Completed'
      <4>1. Completed' = Completed
        BY <3>1 DEF walvars, Completed, Names
      <4> QED  BY <3>1, <4>1
    <3> QED  BY <1>8, <2>1, <3>1 DEF BatchSent
  <2>3. dropped' \subseteq Events
    <3>1. ASSUME NEW n \in Completed PROVE Records({n}) \subseteq Events
      <4>1. {n} \in SUBSET Names
        BY DEF Completed
      <4> QED  BY <1>3, <4>1
    <3> QED  BY <1>2, <1>8, <3>1 DEF BatchSent, Given
  <2>4. ioErrors' \in 0..MaxIoErrors
    BY <1>2, <1>8 DEF BatchSent, IoError, Given
  <2>5. ingested' \subseteq Events
    BY <1>2, <1>3, <2>1 DEF Given
  <2> QED  BY <1>1, <1>2, <1>4, <2>1, <2>2, <2>3, <2>4, <2>5 DEF Given, TypeOK, Phases
<1>9. CASE BatchFailed
  <2>1. /\ pc = "send" /\ draining = {} /\ draining' = {} /\ written = 0
        /\ batch # <<>> /\ Len(batch) > 0
        /\ UNCHANGED <<buffered, received, ioErrors, crashes>>
    BY <1>2, <1>9 DEF BatchFailed, Given, Phases
  <2>2. /\ failures' \in 0..MaxFailures /\ ingested' \subseteq Events
    BY <1>2, <1>3, <1>9 DEF BatchFailed, CallFails, Given
  <2>3. \/ pc' = "write" /\ written' = 0 /\ UNCHANGED <<batch, dropped>>
        \/ pc' = "recv" /\ batch' = <<>> /\ written' = written /\ dropped' = dropped \cup Range(batch)
    BY <1>9 DEF BatchFailed
  <2>4. CASE pc' = "write" /\ written' = 0 /\ UNCHANGED <<batch, dropped>>
    BY <1>1, <1>2, <2>1, <2>2, <2>4 DEF Given, TypeOK, Phases
  <2>5. CASE pc' = "recv" /\ batch' = <<>> /\ written' = written /\ dropped' = dropped \cup Range(batch)
    <3>1. dropped' \subseteq Events
      BY <1>2, <1>3, <2>5 DEF Given
    <3> QED  BY <1>1, <1>2, <1>4, <2>1, <2>2, <2>5, <3>1 DEF Given, TypeOK, Phases
  <2> QED  BY <2>3, <2>4, <2>5
<1>10. CASE WriteRecord
  <2>1. /\ pc = "write" /\ draining = {} /\ draining' = {} /\ written' = written + 1
        /\ written < Len(batch)
        /\ pc' = IF written' = Len(batch) THEN "sync" ELSE "write"
        /\ dropped' = dropped \cup Records(Evicted)
        /\ UNCHANGED <<buffered, batch, received, ingested, failures, ioErrors, crashes>>
    BY <1>2, <1>10 DEF WriteRecord, Given, Phases
  <2>2. Records(Evicted) \subseteq Events
    BY <1>3, EvictedCompleted
  <2> QED  BY <1>1, <1>2, <2>1, <2>2 DEF Given, TypeOK, Phases
<1>11. CASE WriteFails
  <2>1. /\ pc = "write" /\ draining = {} /\ draining' = {}
        /\ pc' = "recv" /\ batch' = <<>> /\ written' = 0
        /\ dropped' \subseteq Events
        /\ UNCHANGED <<buffered, received, ingested, failures, crashes>>
    BY <1>2, <1>3, <1>11 DEF WriteFails, Given
  <2>2. ioErrors' \in 0..MaxIoErrors
    BY <1>2, <1>11 DEF WriteFails, IoError, Given
  <2> QED  BY <1>1, <1>2, <1>4, <2>1, <2>2 DEF Given, TypeOK, Phases
<1>12. CASE WriteDone
  <2>1. /\ pc = "sync" /\ draining = {} /\ draining' = {}
        /\ pc' = "recv" /\ batch' = <<>> /\ written' = 0
        /\ UNCHANGED <<buffered, received, ingested, dropped, failures, crashes>>
    BY <1>2, <1>12 DEF WriteDone, Given
  <2>2. ioErrors' \in 0..MaxIoErrors
    BY <1>2, <1>12 DEF WriteDone, IoError, Given
  <2> QED  BY <1>1, <1>2, <1>4, <2>1, <2>2 DEF Given, TypeOK, Phases
<1>13. CASE DrainSent
  <2>1. /\ pc = "drain" /\ batch = <<>> /\ written = 0
        /\ pc' = "recv" /\ draining' = {}
        /\ UNCHANGED <<buffered, batch, written, received, failures, crashes>>
    BY <1>2, <1>13 DEF DrainSent, Given, Phases
  <2>2. PICK n \in draining :
          /\ ingested' = ingested \cup Range(ReadSegment(n, BatchSize))
          /\ dropped' \in {dropped, dropped \cup (Records({n}) \ Range(Readable(n)))}
          /\ ioErrors' = ioErrors \/ IoError
    BY <1>13 DEF DrainSent
  <2>3. n \in Completed /\ {n} \in SUBSET Names
    BY <1>2 DEF Given, Completed
  <2>4. ingested' \subseteq Events /\ dropped' \subseteq Events
    BY <1>2, <1>3, <1>5, <2>2, <2>3 DEF Given
  <2>5. ioErrors' \in 0..MaxIoErrors
    BY <1>2, <2>2 DEF IoError, Given
  <2> QED  BY <1>1, <1>2, <1>4, <2>1, <2>4, <2>5 DEF Given, TypeOK, Phases
<1>14. CASE DrainFailed
  <2>1. /\ pc = "drain" /\ batch = <<>> /\ written = 0
        /\ pc' = "recv" /\ draining' = {}
        /\ UNCHANGED <<buffered, batch, written, received, dropped, ioErrors, crashes>>
    BY <1>2, <1>14 DEF DrainFailed, Given, Phases
  <2>2. PICK n \in draining : CallFails(ReadSegment(n, BatchSize))
    BY <1>14 DEF DrainFailed
  <2>3. n \in Completed
    BY <1>2 DEF Given
  <2>4. ingested' \subseteq Events /\ failures' \in 0..MaxFailures
    BY <1>2, <1>5, <2>2, <2>3 DEF CallFails, Given
  <2> QED  BY <1>1, <1>2, <1>4, <2>1, <2>4 DEF Given, TypeOK, Phases
<1>15. CASE Crash
  <2>1. /\ pc' = "down" /\ batch' = <<>> /\ written' = 0 /\ draining' = {}
        /\ crashes' \in 0..MaxCrashes
        /\ UNCHANGED <<buffered, received, ingested, failures, ioErrors>>
    BY <1>2, <1>15 DEF Crash, Given
  <2>2. dropped' \subseteq Events
    BY <1>2, <1>3, <1>15 DEF Crash, Given
  <2> QED  BY <1>1, <1>2, <1>4, <2>1, <2>2 DEF Given, TypeOK, Phases
<1>16. CASE Restart
  <2>1. /\ pc = "down" /\ pc' = "recv" /\ buffered' \in BOOLEAN
        /\ batch = <<>> /\ written = 0 /\ draining = {} /\ draining' = {}
        /\ UNCHANGED <<batch, written, received, ingested, dropped, failures, crashes>>
    BY <1>2, <1>16 DEF Restart, Given, Phases
  <2>2. ioErrors' \in 0..MaxIoErrors
    BY <1>2, <1>16 DEF Restart, IoError, Given
  <2> QED  BY <1>1, <1>2, <1>4, <2>1, <2>2 DEF Given, TypeOK, Phases
<1>17. CASE UNCHANGED vars
  BY <1>2, <1>17 DEF vars, walvars, loopvars, Given, Typing, TypeOK, WalTypeOK, Phases, Completed, Names
<1> QED  BY <1>6, <1>7, <1>8, <1>9, <1>10, <1>11, <1>12, <1>13, <1>14, <1>15, <1>16, <1>17
         DEF Next, Loop

(* The loop starts with an empty directory.                                *)
LEMMA InitTyping == Init => Typing
<1> SUFFICES ASSUME Init PROVE Typing
  OBVIOUS
<1>1. Names = {} /\ Completed = {}
  BY DEF Init, Names, Completed
<1>2. Cardinality({}) = 0 /\ Len(<<>>) = 0 /\ <<>> \in Seq(Events)
  BY FS_EmptySet
<1>3. WalTypeOK
  BY <1>1, <1>2 DEF Init, WalTypeOK, Names
<1>4. OpenNewest /\ Lengths
  BY <1>1, FullSegmentIs DEF Init, OpenNewest, Lengths, RecordSize
<1>5. TypeOK
  BY <1>1, <1>2, <1>3, WalAssumption, IngestAssumption DEF Init, TypeOK
<1>6. Phases
  BY <1>2 DEF Init, Phases
<1> QED  BY <1>3, <1>4, <1>5, <1>6 DEF Typing, WalInv

(* Types and phases hold in every state of the specification.              *)
LEMMA AlwaysTyping == Spec => []Typing
<1>1. Typing /\ [Next]_vars => Typing'
  BY StepKeepsWal, StepKeepsTypes DEF Typing
<1> QED  BY <1>1, InitTyping, PTL DEF Spec

(* The state of the loop and of the buffer stays within its types: a batch *)
(* never outgrows batch_size, at most one segment is open, and the segment *)
(* being drained is a completed one that is still there.                   *)
THEOREM IngestTypeCorrect == Spec => []TypeOK
  BY AlwaysTyping, PTL DEF Typing

----------------------------------------------------------------------------
(* The byte count and the budget *)

LEMMA BytesNext ==
  /\ Bytes(Names)' = BytesIn(segments', Names')
  /\ Bytes(current)' = BytesIn(segments', current')
  BY DEF Bytes, BytesIn

LEMMA BytesUnchanged ==
  ASSUME segments' = segments
  PROVE  \A S : BytesIn(segments', S) = Bytes(S)
  BY DEF Bytes, BytesIn

(* What is left when the files outside S are gone *)
LEMMA BytesKept ==
  ASSUME WalTypeOK, NEW S \in SUBSET Names, segments' = Restrict(segments, S)
  PROVE  Names' = S /\ \A T \in SUBSET S : BytesIn(segments', T) = Bytes(T)
<1>1. Names' = S /\ \A n \in Names' : segments'[n] = segments[n]
  BY KeptFiles
<1>2. ASSUME NEW T \in SUBSET S PROVE BytesIn(segments', T) = Bytes(T)
  <2>1. PICK files : files = segments'
    OBVIOUS
  <2>2. \A n \in T : files[n].recs = segments[n].recs
    BY <1>1, <1>2, <2>1
  <2>3. BytesIn(files, T) = BytesIn(segments, T)
    BY <2>2, BytesSame
  <2> QED  BY <1>2, <2>1, <2>3, WalFacts
<1> QED  BY <1>1, <1>2

(* total_bytes, less what goes, against the files that stay *)
LEMMA CountWithout ==
  ASSUME WalTypeOK, NEW S \in SUBSET Names
  PROVE  /\ Bytes(Names) = Bytes(Names \ S) + Bytes(S)
         /\ Bytes(Names) \in Nat /\ Bytes(Names \ S) \in Nat /\ Bytes(S) \in Nat
         /\ total <= Bytes(Names) => Minus(total, Bytes(S)) <= Bytes(Names \ S)
         /\ total = Bytes(Names) => Minus(total, Bytes(S)) = Bytes(Names \ S)
<1>1. /\ IsFiniteSet(Names) /\ \A n \in Names : segments[n] \in Segment
      /\ \A T \in SUBSET Names : Bytes(T) = BytesIn(segments, T)
  BY WalFacts
<1>2. /\ Bytes(Names) = Bytes(Names \ S) + Bytes(S)
      /\ Bytes(Names) \in Nat /\ Bytes(Names \ S) \in Nat /\ Bytes(S) \in Nat
  <2>1. /\ Bytes(Names) = BytesIn(segments, Names) /\ Bytes(S) = BytesIn(segments, S)
        /\ Bytes(Names \ S) = BytesIn(segments, Names \ S)
    BY <1>1
  <2>2. PICK files : files = segments
    OBVIOUS
  <2>3. \A n \in Names : files[n] \in Segment
    BY <1>1, <2>2
  <2>4. /\ BytesIn(files, Names) = BytesIn(files, Names \ S) + BytesIn(files, S)
        /\ BytesIn(files, Names) \in Nat /\ BytesIn(files, Names \ S) \in Nat
        /\ BytesIn(files, S) \in Nat
    BY <1>1, <2>3, BytesWithout
  <2> QED  BY <2>1, <2>2, <2>4
<1>3. total \in Nat
  BY DEF WalTypeOK
<1> QED  BY <1>2, <1>3 DEF Minus

(* A record that is written adds its length to the files and to the open   *)
(* one.                                                                    *)
LEMMA AppendBytes ==
  ASSUME WalTypeOK, NEW rec \in Record, AppendRecord(rec),
         NEW len \in Nat, len = IF rec = Torn THEN TornSize ELSE RecordSize
  PROVE  /\ Bytes(Names)' = Bytes(Names \ Evicted) + len
         /\ total' = Minus(total, Bytes(Evicted)) + (IF rec = Torn THEN 0 ELSE RecordSize)
         /\ \/ /\ Bytes(current)' = len
               /\ size' = IF rec = Torn THEN 0 ELSE RecordSize
            \/ /\ Bytes(current)' = Bytes(current) + len
               /\ size' = size + (IF rec = Torn THEN 0 ELSE RecordSize)
<1>1. PICK n \in Nat, recs \in Seq(Record), open \in Nat :
           /\ current' = {n} /\ Names' = (Names \ Evicted) \cup {n}
           /\ \A m \in Names' \ {n} : m \in Names \ Evicted /\ segments'[m] = segments[m]
           /\ segments'[n] \in Segment /\ segments'[n].recs = Append(recs, rec)
           /\ segments'[n].synced <= Len(segments'[n].recs)
           /\ size' = open + (IF rec = Torn THEN 0 ELSE RecordSize)
           /\ total' = Minus(total, Bytes(Evicted)) + (IF rec = Torn THEN 0 ELSE RecordSize)
           /\ \/ /\ n = millis + 1 /\ n \notin Names /\ millis' = n
                 /\ recs = <<>> /\ open = 0
              \/ /\ current = {n} /\ n \in Names \ Evicted /\ millis' = millis
                 /\ recs = segments[n].recs /\ open = size /\ size + RecordSize <= SegmentMax
  BY Appended
<1> DEFINE rest == (Names \ Evicted) \ {n}
<1>2. /\ IsFiniteSet(Names) /\ \A m \in Names : segments[m] \in Segment
      /\ \A T \in SUBSET Names : Bytes(T) = BytesIn(segments, T) /\ Bytes(T) \in Nat
      /\ rest \in SUBSET Names /\ IsFiniteSet(rest) /\ IsFiniteSet({n}) /\ size \in Nat
  BY WalFacts, FS_Singleton, FS_Subset DEF WalTypeOK
<1>3. PICK files : files = segments'
  OBVIOUS
<1>4. BytesIn(files, rest) = Bytes(rest) /\ Bytes(rest) \in Nat
  <2>1. \A m \in rest : files[m].recs = segments[m].recs
    BY <1>1, <1>3
  <2>2. BytesIn(files, rest) = BytesIn(segments, rest)
    BY <2>1, BytesSame
  <2> QED  BY <1>2, <2>2
<1>5. BytesIn(files, {n}) = Cardinality(Units(n, recs)) + len /\ Cardinality(Units(n, recs)) \in Nat
  <2>1. BytesIn(files, {n}) = Cardinality(Units(n, Append(recs, rec)))
    BY <1>1, <1>3, BytesOfOne
  <2>2. Cardinality(Units(n, Append(recs, rec))) = Cardinality(Units(n, recs)) + len
    BY UnitsAppend
  <2>3. Cardinality(Units(n, recs)) \in Nat
    BY UnitsFinite, FS_CardinalityType
  <2> QED  BY <2>1, <2>2, <2>3
<1>6. Bytes(Names)' = Bytes(rest) + BytesIn(files, {n})
  <2>1. Names' = rest \cup {n} /\ rest \cap {n} = {}
    BY <1>1
  <2>2. \A m \in rest \cup {n} : files[m] \in Segment
    BY <1>1, <1>2, <1>3, <2>1
  <2>3. BytesIn(files, rest \cup {n}) = BytesIn(files, rest) + BytesIn(files, {n})
    BY <1>2, <2>1, <2>2, BytesSplit
  <2> QED  BY <1>3, <1>4, <2>1, <2>3, BytesNext
<1>7. Bytes(current)' = BytesIn(files, {n})
  BY <1>1, <1>3, BytesNext
<1> HIDE DEF rest
<1>8. CASE n \notin Names /\ recs = <<>> /\ open = 0
  <2>1. rest = Names \ Evicted
    BY <1>8 DEF rest
  <2>2. Cardinality(Units(n, recs)) = 0
    BY <1>8, UnitsNone
  <2> QED  BY <1>1, <1>4, <1>5, <1>6, <1>7, <1>8, <2>1, <2>2
<1>9. CASE current = {n} /\ n \in Names \ Evicted /\ recs = segments[n].recs /\ open = size
  <2>1. rest \cup {n} = Names \ Evicted /\ rest \cap {n} = {} /\ {n} \in SUBSET Names
        /\ Names \ Evicted \in SUBSET Names
    BY <1>9 DEF rest
  <2>2. Bytes(Names \ Evicted) = Bytes(rest) + Bytes({n})
    <3>1. \A m \in rest \cup {n} : segments[m] \in Segment
      BY <1>2, <2>1
    <3>2. BytesIn(segments, rest \cup {n}) = BytesIn(segments, rest) + BytesIn(segments, {n})
      BY <1>2, <2>1, <3>1, BytesSplit
    <3> QED  BY <1>2, <2>1, <3>2
  <2>3. Bytes({n}) = Cardinality(Units(n, recs)) /\ Bytes(current) = Bytes({n})
    BY <1>2, <1>9, <2>1, BytesOfOne
  <2> QED  BY <1>1, <1>4, <1>5, <1>6, <1>7, <1>9, <2>2, <2>3
<1> QED  BY <1>1, <1>8, <1>9

(* The files that are not evicted leave room for a record: the oldest of   *)
(* them would have been evicted otherwise, and the open segment alone is   *)
(* within the budget.                                                      *)
LEMMA EvictedEnough ==
  ASSUME WalInv, total = Bytes(Names), size = Bytes(current), BufferMax >= FullSegment + RecordSize
  PROVE  Bytes(Names \ Evicted) + RecordSize <= BufferMax
<1>1. /\ WalTypeOK /\ Names \subseteq Nat /\ current \subseteq Names
      /\ Evicted \subseteq Completed /\ Completed \subseteq Names
      /\ BufferMax \in Nat /\ RecordSize = 2 /\ FullSegment \in Nat
  BY WalFacts, WalAssumption, EvictedCompleted, FullSegmentIs DEF WalInv, WalTypeOK, Names, RecordSize
<1>2. CASE Completed = Evicted
  <2>1. Names \ Evicted = current
    BY <1>1, <1>2 DEF Completed
  <2>2. size <= FullSegment /\ size \in Nat
    BY DEF WalInv, Lengths, WalTypeOK
  <2>3. Bytes(Names \ Evicted) = size
    BY <2>1, Zenon
  <2> QED  BY <1>1, <2>2, <2>3
<1>3. CASE Completed # Evicted
  <2>1. Completed \ Evicted \in SUBSET Nat /\ Completed \ Evicted # {}
    BY <1>1, <1>3
  <2>2. PICK k \in Completed \ Evicted : \A n \in Completed \ Evicted : k <= n
    BY <2>1, LeastMember
  <2> DEFINE older == { m \in Completed : m < k }
  <2>3. older \subseteq Evicted
    <3>1. ASSUME NEW m \in older, m \notin Evicted PROVE FALSE
      <4>1. m \in Completed /\ m < k /\ m \in Nat /\ k \in Nat
        BY <1>1
      <4>2. k <= m
        BY <2>2, <3>1, <4>1
      <4> QED  BY <4>1, <4>2
    <3> QED  BY <3>1
  <2>4. Minus(total, Bytes(older)) + RecordSize <= BufferMax
    <3>1. ~(Minus(total, Bytes(older)) + RecordSize > BufferMax)
      BY <2>2 DEF Evicted
    <3>2. older \in SUBSET Names
      BY <1>1
    <3>3. Minus(total, Bytes(older)) \in Nat
      BY <1>1, <3>2, WalFacts, MinusIsNat DEF WalTypeOK
    <3> QED  BY <1>1, <3>1, <3>3
  <2>5. older \in SUBSET Names /\ Evicted \in SUBSET Names /\ Names \ Evicted \in SUBSET (Names \ older)
    BY <1>1, <2>3
  <2> HIDE DEF older
  <2>6. Minus(total, Bytes(older)) = Bytes(Names \ older) /\ Bytes(Names \ older) \in Nat
    BY <1>1, <2>5, CountWithout
  <2>7. Bytes(Names \ Evicted) <= Bytes(Names \ older) /\ Bytes(Names \ Evicted) \in Nat
    <3>1. /\ IsFiniteSet(Names \ older) /\ \A n \in Names \ older : segments[n] \in Segment
          /\ Bytes(Names \ older) = BytesIn(segments, Names \ older)
          /\ Bytes(Names \ Evicted) = BytesIn(segments, Names \ Evicted)
      BY <1>1, <2>5, WalFacts
    <3>2. PICK S, T : S = Names \ older /\ T = Names \ Evicted
      OBVIOUS
    <3>3. T \in SUBSET S /\ IsFiniteSet(S) /\ \A n \in S : segments[n] \in Segment
      BY <2>5, <3>1, <3>2
    <3>4. BytesIn(segments, T) <= BytesIn(segments, S) /\ BytesIn(segments, T) \in Nat
      BY <3>3, BytesWithout
    <3> QED  BY <3>1, <3>2, <3>4
  <2> QED  BY <1>1, <2>4, <2>6, <2>7
<1> QED  BY <1>2, <1>3

(* A deletion takes the bytes of the segment off the total.                *)
LEMMA DeleteBytes ==
  ASSUME WalTypeOK, NEW n \in Completed, Delete(n)
  PROVE  /\ {n} \in SUBSET Names /\ Bytes(Names)' = Bytes(Names \ {n})
         /\ total' = Minus(total, Bytes({n}))
         /\ Bytes(current)' = Bytes(current) /\ size' = size
<1>1. /\ {n} \in SUBSET Names /\ Names \ {n} \in SUBSET Names
      /\ segments' = Restrict(segments, Names \ {n})
      /\ total' = Minus(total, Bytes({n})) /\ current' = current /\ size' = size
  BY DEF Delete, Completed
<1>2. current \in SUBSET (Names \ {n}) /\ Names \ {n} \in SUBSET (Names \ {n})
  BY DEF WalTypeOK, Names, Completed
<1>3. Names' = Names \ {n} /\ \A T \in SUBSET (Names \ {n}) : BytesIn(segments', T) = Bytes(T)
  BY <1>1, BytesKept
<1>4. /\ BytesIn(segments', Names') = Bytes(Names \ {n})
      /\ BytesIn(segments', current') = Bytes(current)
  BY <1>1, <1>2, <1>3
<1> QED  BY <1>1, <1>4, BytesNext

(* A failed eviction has taken off what it had deleted so far.             *)
LEMMA FailureBytes ==
  ASSUME WalTypeOK, EvictFails \/ RotateFails
  PROVE  \E gone \in SUBSET Names : /\ Bytes(Names)' = Bytes(Names \ gone)
                                    /\ total' = Minus(total, Bytes(gone))
<1>1. PICK gone \in SUBSET Names :
        segments' = Restrict(segments, Names \ gone) /\ total' = Minus(total, Bytes(gone))
  <2>1. Evicted \in SUBSET Names /\ \A v : { n \in Evicted : n < v } \in SUBSET Names
    BY EvictedCompleted
  <2>2. CASE EvictFails
    <3>1. PICK v \in Evicted :
            LET gone == { n \in Evicted : n < v } IN
              /\ segments' = Restrict(segments, Names \ gone)
              /\ total' = Minus(total, Bytes(gone))
      BY <2>2 DEF EvictFails
    <3> QED  BY <2>1, <3>1
  <2>3. CASE RotateFails
    BY <2>1, <2>3 DEF RotateFails
  <2> QED  BY <2>2, <2>3
<1>2. Names \ gone \in SUBSET Names /\ Names \ gone \in SUBSET (Names \ gone)
  OBVIOUS
<1>3. Names' = Names \ gone /\ BytesIn(segments', Names \ gone) = Bytes(Names \ gone)
  BY <1>1, <1>2, BytesKept
<1>4. BytesIn(segments', Names') = Bytes(Names \ gone)
  BY <1>3
<1> QED  BY <1>1, <1>4, BytesNext

(* A sync moves no bytes.                                                  *)
LEMMA SyncBytes ==
  ASSUME WalTypeOK, Sync
  PROVE  /\ Bytes(Names)' = Bytes(Names) /\ Bytes(current)' = Bytes(current)
         /\ UNCHANGED <<total, size>>
<1>1. /\ Names' = Names /\ current' = current /\ current \subseteq Names
      /\ UNCHANGED <<total, size>>
  BY DEF Sync, Names, WalTypeOK
<1>2. PICK files : files = segments'
  OBVIOUS
<1>3. \A n \in Names : files[n].recs = segments[n].recs
  <2> TAKE n \in Names
  <2>1. segments[n] \in Segment
    BY WalFacts
  <2>2. \/ files[n] = segments[n]
        \/ files[n] = [segments[n] EXCEPT !.synced = Len(segments[n].recs)]
    BY <1>2 DEF Sync
  <2> QED  BY <2>1, <2>2 DEF Segment
<1>4. BytesIn(files, Names) = BytesIn(segments, Names)
      /\ BytesIn(files, current) = BytesIn(segments, current)
  BY <1>1, <1>3, BytesSame
<1>5. BytesIn(segments', Names') = Bytes(Names) /\ BytesIn(segments', current') = Bytes(current)
  BY <1>1, <1>2, <1>4 DEF Bytes, BytesIn
<1> QED  BY <1>1, <1>5, BytesNext

(* A power loss only shortens segments.                                    *)
LEMMA PowerLossBytes ==
  ASSUME WalInv, PowerLoss, UNCHANGED <<current, size, total, millis>>
  PROVE  Bytes(Names)' <= Bytes(Names) /\ Bytes(Names)' \in Nat
<1>1. PICK files : files = segments'
  OBVIOUS
<1>2. /\ Names' = Names
      /\ \A n \in Names : \E k \in 0..Len(segments[n].recs) :
           files[n].recs = SubSeq(segments[n].recs, 1, k)
  BY <1>1, PowerLossKeepsWal
<1>3. /\ IsFiniteSet(Names) /\ \A n \in Names : segments[n] \in Segment
      /\ Bytes(Names) = BytesIn(segments, Names)
  BY WalFacts DEF WalInv
<1>4. BytesIn(files, Names) <= BytesIn(segments, Names) /\ BytesIn(files, Names) \in Nat
  BY <1>2, <1>3, BytesShrink
<1>5. BytesIn(segments', Names') = BytesIn(files, Names)
  BY <1>1, <1>2
<1> QED  BY <1>3, <1>4, <1>5, BytesNext

(* SegmentWriter::size is the length of the open segment, as long as no    *)
(* file operation failed.                                                  *)
OpenCounted == pc # "down" /\ ioErrors = 0 => size = Bytes(current)

Books == Accounting /\ OpenCounted /\ WithinBudget

(* Every step keeps the books: the append is where the three parts need    *)
(* each other, the total to evict enough and the size to rotate in time.   *)
LEMMA StepKeepsBooks == Typing /\ Books /\ [Next]_vars => Books'
<1> SUFFICES ASSUME Typing, Books, [Next]_vars PROVE Books'
  OBVIOUS
<1> DEFINE Roomy == BufferMax >= FullSegment + RecordSize
           all   == Bytes(Names)
           open  == Bytes(current)
<1>1. /\ WalInv /\ WalTypeOK /\ ioErrors \in Nat /\ total \in Nat /\ size \in Nat
      /\ all \in Nat /\ open \in Nat /\ Names \in SUBSET Names
      /\ BufferMax \in Nat /\ FullSegment \in Nat /\ RecordSize = 2 /\ TornSize = 1
  <2>1. WalInv /\ WalTypeOK /\ ioErrors \in Nat /\ total \in Nat /\ size \in Nat
    BY IngestAssumption DEF Typing, WalInv, TypeOK, WalTypeOK
  <2>2. current \in SUBSET Names /\ Names \in SUBSET Names
    BY <2>1 DEF WalTypeOK, Names
  <2>3. all \in Nat /\ open \in Nat
    BY <2>1, <2>2, WalFacts
  <2> QED  BY <2>1, <2>2, <2>3, WalAssumption, FullSegmentIs DEF RecordSize, TornSize
<1>2. /\ pc # "down" => total <= all /\ (ioErrors = 0 => total = all /\ size = open)
      /\ Roomy /\ ioErrors = 0 => all <= BufferMax
  BY DEF Books, Accounting, OpenCounted, WithinBudget
<1>3. ASSUME /\ pc' # "down" => total' <= all' /\ (ioErrors' = 0 => total' = all' /\ size' = open')
             /\ Roomy /\ ioErrors' = 0 => all' <= BufferMax
      PROVE  Books'
  BY <1>3 DEF Books, Accounting, OpenCounted, WithinBudget, FullSegment, RecordSize
<1> HIDE DEF Roomy
<1>4. ASSUME UNCHANGED walvars, ioErrors' = ioErrors \/ IoError,
             pc' # "down" => pc # "down"
      PROVE  Books'
  <2>1. all' = all /\ open' = open /\ total' = total /\ size' = size
    BY <1>4 DEF walvars, Bytes, Names
  <2>2. ioErrors' = 0 => ioErrors = 0
    BY <1>1, <1>4 DEF IoError
  <2> HIDE DEF all, open
  <2> QED  BY <1>2, <1>3, <1>4, <2>1, <2>2
<1>5. ASSUME NEW n \in Completed, Delete(n), ioErrors' = ioErrors, pc # "down"
      PROVE  Books'
  <2>1. /\ {n} \in SUBSET Names /\ all' = Bytes(Names \ {n}) /\ total' = Minus(total, Bytes({n}))
        /\ open' = open /\ size' = size
    BY <1>1, <1>5, DeleteBytes
  <2>2. /\ all = Bytes(Names \ {n}) + Bytes({n})
        /\ Bytes(Names \ {n}) \in Nat /\ Bytes({n}) \in Nat
        /\ total <= all => Minus(total, Bytes({n})) <= Bytes(Names \ {n})
        /\ total = all => Minus(total, Bytes({n})) = Bytes(Names \ {n})
    BY <1>1, <2>1, CountWithout
  <2> HIDE DEF all, open
  <2> QED  BY <1>1, <1>2, <1>3, <1>5, <2>1, <2>2
<1>6. CASE BatchSent
  <2>1. /\ pc = "send" /\ pc' # "down"
        /\ \/ UNCHANGED walvars /\ (ioErrors' = ioErrors \/ IoError)
           \/ \E n \in Completed : Delete(n) /\ ioErrors' = ioErrors
    BY <1>6 DEF BatchSent
  <2> QED  BY <1>4, <1>5, <2>1
<1>7. CASE DrainSent
  <2>1. draining \subseteq Completed
    BY DEF Typing, TypeOK
  <2>2. /\ pc = "drain" /\ pc' # "down"
        /\ \/ UNCHANGED walvars /\ IoError
           \/ \E n \in draining : Delete(n) /\ ioErrors' = ioErrors
    BY <1>7 DEF DrainSent
  <2> QED  BY <1>4, <1>5, <2>1, <2>2
<1>8. CASE WriteRecord
  <2> DEFINE rec == batch[written + 1]
  <2>1. pc = "write" /\ AppendRecord(rec) /\ ioErrors' = ioErrors
    BY <1>8 DEF WriteRecord
  <2>2. rec \in Record /\ rec # Torn
    BY <2>1, WalAssumption, NextRecord DEF Events, Torn
  <2> HIDE DEF rec
  <2>3. /\ all' = Bytes(Names \ Evicted) + 2
        /\ total' = Minus(total, Bytes(Evicted)) + 2
        /\ \/ open' = 2 /\ size' = 2
           \/ open' = open + 2 /\ size' = size + 2
    BY <1>1, <2>1, <2>2, AppendBytes
  <2>4. Evicted \in SUBSET Names
    BY EvictedCompleted
  <2>5. /\ Bytes(Names \ Evicted) \in Nat /\ Bytes(Evicted) \in Nat
        /\ total <= all => Minus(total, Bytes(Evicted)) <= Bytes(Names \ Evicted)
        /\ total = all => Minus(total, Bytes(Evicted)) = Bytes(Names \ Evicted)
        /\ Minus(total, Bytes(Evicted)) \in Nat
    BY <1>1, <2>4, CountWithout, MinusIsNat
  <2>6. Roomy /\ ioErrors = 0 => Bytes(Names \ Evicted) + 2 <= BufferMax
    BY <1>1, <1>2, <2>1, EvictedEnough DEF Roomy
  <2> HIDE DEF all, open
  <2> QED  BY <1>1, <1>2, <1>3, <2>1, <2>3, <2>5, <2>6
<1>9. ASSUME AppendRecord(Torn), pc = "write"
      PROVE  /\ total' <= all'
             /\ Roomy /\ ioErrors = 0 => all' <= BufferMax
  <2>1. Torn \in Record
    BY <1>9, NextRecord
  <2>2. /\ all' = Bytes(Names \ Evicted) + 1
        /\ total' = Minus(total, Bytes(Evicted))
    <3>1. /\ all' = Bytes(Names \ Evicted) + 1
          /\ total' = Minus(total, Bytes(Evicted)) + 0
      BY <1>1, <1>9, <2>1, AppendBytes
    <3>2. Minus(total, Bytes(Evicted)) \in Nat
      BY <1>1, EvictedCompleted, WalFacts, MinusIsNat
    <3> QED  BY <3>1, <3>2
  <2>3. Evicted \in SUBSET Names
    BY EvictedCompleted
  <2>4. /\ Bytes(Names \ Evicted) \in Nat
        /\ total <= all => Minus(total, Bytes(Evicted)) <= Bytes(Names \ Evicted)
        /\ Minus(total, Bytes(Evicted)) \in Nat
    BY <1>1, <2>3, CountWithout, MinusIsNat
  <2>5. Roomy /\ ioErrors = 0 => Bytes(Names \ Evicted) + 2 <= BufferMax
    BY <1>1, <1>2, <1>9, EvictedEnough DEF Roomy
  <2> HIDE DEF all, open
  <2> QED  BY <1>1, <1>2, <1>9, <2>2, <2>4, <2>5
<1>10. CASE WriteFails
  <2>1. /\ pc = "write" /\ ioErrors' = ioErrors + 1
        /\ EvictFails \/ RotateFails \/ AppendRecord(Torn)
    BY <1>10 DEF WriteFails, IoError
  <2>2. total' <= all'
    <3>1. CASE EvictFails \/ RotateFails
      <4>1. PICK gone \in SUBSET Names : all' = Bytes(Names \ gone) /\ total' = Minus(total, Bytes(gone))
        BY <1>1, <3>1, FailureBytes
      <4>2. total <= all => Minus(total, Bytes(gone)) <= Bytes(Names \ gone)
        BY <1>1, CountWithout
      <4> QED  BY <1>2, <2>1, <4>1, <4>2
    <3> QED  BY <1>9, <2>1, <3>1
  <2>3. ioErrors' # 0
    BY <1>1, <2>1
  <2> QED  BY <1>3, <2>2, <2>3
<1>11. CASE WriteDone
  <2>1. CASE Sync /\ UNCHANGED ioErrors
    <3>1. pc # "down"
      BY <1>11 DEF WriteDone
    <3>2. all' = all /\ open' = open /\ total' = total /\ size' = size
      BY <1>1, <2>1, SyncBytes
    <3> HIDE DEF all, open
    <3> QED  BY <1>2, <1>3, <2>1, <3>1, <3>2
  <2>2. CASE IoError /\ UNCHANGED walvars
    BY <1>4, <1>11, <2>2 DEF WriteDone
  <2> QED  BY <1>11, <2>1, <2>2 DEF WriteDone
<1>12. CASE Crash
  <2>1. /\ pc' = "down" /\ ioErrors' = ioErrors
        /\ \/ UNCHANGED walvars
           \/ pc = "write" /\ AppendRecord(Torn)
           \/ PowerLoss /\ UNCHANGED <<current, size, total, millis>>
    BY <1>12 DEF Crash
  <2>2. CASE UNCHANGED walvars
    BY <1>4, <2>1, <2>2
  <2>3. CASE pc = "write" /\ AppendRecord(Torn)
    BY <1>3, <1>9, <2>1, <2>3
  <2>4. CASE PowerLoss /\ UNCHANGED <<current, size, total, millis>>
    <3>1. all' <= all /\ all' \in Nat
      BY <1>1, <2>4, PowerLossBytes
    <3> HIDE DEF all, open
    <3>2. Roomy /\ ioErrors' = 0 => all' <= BufferMax
      BY <1>1, <1>2, <2>1, <3>1
    <3> QED  BY <1>3, <2>1, <3>2
  <2> QED  BY <2>1, <2>2, <2>3, <2>4
<1>13. CASE Restart
  <2>1. /\ segments' = segments /\ current' = {} /\ size' = 0 /\ total' = Bytes(Names)
        /\ ioErrors' = ioErrors \/ IoError
    BY <1>13 DEF Restart, Open
  <2>2. Names' = Names /\ Bytes({}) = 0
    BY <2>1, BytesOfNone DEF Names, Bytes, BytesIn
  <2>3. all' = all /\ open' = 0
    <3>1. BytesIn(segments', Names') = all /\ BytesIn(segments', current') = 0
      BY <2>1, <2>2, BytesUnchanged
    <3> QED  BY <3>1, BytesNext
  <2>4. total' = all /\ (ioErrors' = 0 => ioErrors = 0)
    BY <1>1, <2>1 DEF IoError
  <2> HIDE DEF all, open
  <2> QED  BY <1>1, <1>2, <1>3, <2>1, <2>3, <2>4
<1>14. CASE Receive \/ Deadline \/ BatchFailed \/ DrainFailed \/ UNCHANGED vars
  <2>1. UNCHANGED walvars /\ ioErrors' = ioErrors /\ (pc' # "down" => pc # "down")
    BY <1>14 DEF Receive, Deadline, BatchFailed, DrainFailed, vars, loopvars
  <2> QED  BY <1>4, <2>1
<1> QED  BY <1>6, <1>7, <1>8, <1>10, <1>11, <1>12, <1>13, <1>14 DEF Next, Loop

(* The books are right in every state of the specification.                *)
LEMMA AlwaysBooks == Spec => []Books
<1>1. Init => Books
  <2> SUFFICES ASSUME Init PROVE Books
    OBVIOUS
  <2>1. pc = "down" /\ Names = {}
    BY DEF Init, Names
  <2>2. Bytes(Names) = 0
    BY <2>1, BytesOfNone DEF Bytes, BytesIn
  <2> QED  BY <2>1, <2>2, WalAssumption DEF Books, Accounting, OpenCounted, WithinBudget
<1> QED  BY <1>1, StepKeepsBooks, AlwaysTyping, PTL DEF Spec

(* total_bytes, which write_batch, eviction and delete_segment adjust with *)
(* saturating additions and subtractions and only a restart recounts, is   *)
(* the length of the files as long as no file operation failed, and never  *)
(* more than that.                                                         *)
THEOREM BytesAccounted == Spec => []Accounting
  BY AlwaysBooks, PTL DEF Books

(* The eviction loop of write_batch keeps the files within                 *)
(* buffer_max_bytes, crashes and power losses included, whenever that is   *)
(* enough for a full segment and a record more and no file operation       *)
(* failed.                                                                 *)
THEOREM BudgetKept == Spec => []WithinBudget
  BY AlwaysBooks, PTL DEF Books

----------------------------------------------------------------------------
(* Every event is accounted for *)

(* The events on disk, one by one.                                         *)
LEMMA StoredAre ==
  /\ \A e : e \in Stored <=> e # Torn /\ \E n \in Names : e \in Range(segments[n].recs)
  /\ \A e : e \in Stored' <=> e # Torn /\ \E n \in Names' : e \in Range(segments'[n].recs)
<1>1. \A e : e \in Stored <=> e # Torn /\ \E n \in Names : e \in Range(segments[n].recs)
  BY RecordsAre DEF Stored
<1>2. \A e : e \in Stored' <=> e # Torn /\ \E n \in Names' : e \in Range(segments'[n].recs)
  <2> TAKE e
  <2>1. e \in UNION { Range(segments'[n].recs) : n \in Names' } <=>
          \E n \in Names' : e \in Range(segments'[n].recs)
    OBVIOUS
  <2> QED  BY <2>1 DEF Stored, Records
<1> QED  BY <1>1, <1>2

LEMMA StoredUnchanged == UNCHANGED segments => Stored' = Stored
  BY DEF Stored, Records, Names

(* An append puts its event on disk and takes away only what it evicts.    *)
LEMMA AppendStores ==
  ASSUME WalTypeOK, NEW rec \in Record, AppendRecord(rec)
  PROVE  /\ Stored \subseteq Stored' \cup Records(Evicted)
         /\ rec # Torn => rec \in Stored'
<1>1. PICK n \in Nat, recs \in Seq(Record), open \in Nat :
           /\ current' = {n} /\ Names' = (Names \ Evicted) \cup {n}
           /\ \A m \in Names' \ {n} : m \in Names \ Evicted /\ segments'[m] = segments[m]
           /\ segments'[n] \in Segment /\ segments'[n].recs = Append(recs, rec)
           /\ segments'[n].synced <= Len(segments'[n].recs)
           /\ size' = open + (IF rec = Torn THEN 0 ELSE RecordSize)
           /\ total' = Minus(total, Bytes(Evicted)) + (IF rec = Torn THEN 0 ELSE RecordSize)
           /\ \/ /\ n = millis + 1 /\ n \notin Names /\ millis' = n
                 /\ recs = <<>> /\ open = 0
              \/ /\ current = {n} /\ n \in Names \ Evicted /\ millis' = millis
                 /\ recs = segments[n].recs /\ open = size /\ size + RecordSize <= SegmentMax
  BY Appended
<1>2. Range(recs) \subseteq Range(segments'[n].recs) /\ rec \in Range(segments'[n].recs)
  <2> DEFINE new == Append(recs, rec)
  <2>1. /\ DOMAIN new = 1..(Len(recs) + 1) /\ DOMAIN recs = 1..Len(recs) /\ Len(recs) \in Nat
        /\ new[Len(recs) + 1] = rec /\ \A i \in 1..Len(recs) : new[i] = recs[i]
    OBVIOUS
  <2> HIDE DEF new
  <2>2. Range(recs) \subseteq Range(new) /\ rec \in Range(new)
    BY <2>1 DEF Range
  <2> QED  BY <1>1, <2>2 DEF new
<1>3. rec # Torn => rec \in Stored'
  BY <1>1, <1>2, StoredAre
<1>4. ASSUME NEW e \in Stored, e \notin Records(Evicted) PROVE e \in Stored'
  <2>1. PICK m \in Names : e \in Range(segments[m].recs) /\ e # Torn
    BY <1>4, StoredAre
  <2>2. m \notin Evicted
    BY <1>4, <2>1, RecordsAre
  <2>3. CASE m # n
    <3>1. m \in Names' /\ segments'[m] = segments[m]
      BY <1>1, <2>2, <2>3
    <3> QED  BY <2>1, <3>1, StoredAre
  <2>4. CASE m = n
    <3>1. recs = segments[n].recs
      BY <1>1, <2>1, <2>4
    <3>2. e \in Range(segments'[n].recs) /\ n \in Names'
      BY <1>1, <1>2, <2>1, <2>4, <3>1
    <3> QED  BY <2>1, <3>2, StoredAre
  <2> QED  BY <2>3, <2>4
<1> QED  BY <1>3, <1>4

(* A deletion takes away only what is in that segment.                     *)
LEMMA DeleteStores ==
  ASSUME WalTypeOK, NEW n \in Completed, Delete(n)
  PROVE  Stored \subseteq Stored' \cup Records({n})
<1>1. Names \ {n} \in SUBSET Names /\ segments' = Restrict(segments, Names \ {n})
  BY DEF Delete
<1>2. Names' = Names \ {n} /\ \A m \in Names' : segments'[m] = segments[m]
  BY <1>1, KeptFiles
<1>3. ASSUME NEW e \in Stored, e \notin Records({n}) PROVE e \in Stored'
  <2>1. PICK m \in Names : e \in Range(segments[m].recs) /\ e # Torn
    BY <1>3, StoredAre
  <2>2. m # n
    BY <1>3, <2>1, RecordsAre
  <2> QED  BY <1>2, <2>1, <2>2, StoredAre
<1> QED  BY <1>3

LEMMA SyncStores ==
  ASSUME WalTypeOK, Sync
  PROVE  Stored' = Stored
<1>1. Names' = Names
  BY DEF Sync, Names
<1>2. ASSUME NEW n \in Names PROVE segments'[n].recs = segments[n].recs
  <2>1. segments[n] \in Segment
    BY WalFacts
  <2>2. \/ segments'[n] = segments[n]
        \/ segments'[n] = [segments[n] EXCEPT !.synced = Len(segments[n].recs)]
    BY DEF Sync
  <2> QED  BY <2>1, <2>2 DEF Segment
<1>3. \A e : e \in Stored' <=> e \in Stored
  BY <1>1, <1>2, StoredAre
<1> QED  BY <1>3

(* The events of the batch that were written are on disk, or went on from  *)
(* there.                                                                  *)
WrittenSafe == \A i \in 1..written : batch[i] \in Stored \cup ingested \cup dropped

(* What has been written of the batch stays on disk until it is delivered  *)
(* or counted as dropped.                                                  *)
LEMMA StepKeepsWritten == Typing /\ WrittenSafe /\ [Next]_vars => WrittenSafe'
<1> SUFFICES ASSUME Typing, WrittenSafe, [Next]_vars PROVE WrittenSafe'
  OBVIOUS
<1>1. CASE written' = 0
  BY <1>1 DEF WrittenSafe
<1>2. CASE WriteRecord
  <2> DEFINE rec == batch[written + 1]
  <2>1. /\ pc = "write" /\ AppendRecord(rec) /\ written' = written + 1 /\ batch' = batch
        /\ dropped' = dropped \cup Records(Evicted) /\ ingested' = ingested
    BY <1>2 DEF WriteRecord
  <2>2. rec \in Record /\ rec # Torn /\ WalTypeOK /\ written \in Nat
    BY <2>1, WalAssumption, NextRecord DEF Events, Torn, Typing, TypeOK
  <2>3. Stored \subseteq Stored' \cup Records(Evicted) /\ rec \in Stored'
    BY <2>1, <2>2, AppendStores
  <2>4. ASSUME NEW i \in 1..written'
        PROVE  batch'[i] \in Stored' \cup ingested' \cup dropped'
    <3>1. CASE i = written + 1
      BY <2>1, <2>3, <3>1
    <3>2. CASE i \in 1..written
      <4>1. batch[i] \in Stored \cup ingested \cup dropped
        BY <3>2 DEF WrittenSafe
      <4> QED  BY <2>1, <2>3, <4>1
    <3> QED  BY <2>1, <2>2, <3>1, <3>2
  <2> QED  BY <2>4 DEF WrittenSafe
<1>3. CASE UNCHANGED vars
  BY <1>3, StoredUnchanged DEF WrittenSafe, vars, walvars, loopvars
<1>4. CASE Receive \/ Deadline \/ BatchSent \/ BatchFailed \/ WriteFails \/ WriteDone
           \/ DrainSent \/ DrainFailed \/ Crash \/ Restart
  <2>1. pc \in {"recv", "send", "drain", "down"} => written = 0
    BY DEF Typing, Phases
  <2>2. written' = 0
    BY <1>4, <2>1 DEF Receive, Deadline, BatchSent, BatchFailed, WriteFails, WriteDone,
       DrainSent, DrainFailed, Crash, Restart
  <2> QED  BY <1>1, <2>2
<1> QED  BY <1>2, <1>3, <1>4 DEF Next, Loop

(* A drain delivers no more records of a segment than a batch holds. *)
Truncates == DrainSent /\ \E n \in draining : Len(Readable(n)) > BatchSize

(* The machine loses power, and may take unsynced records with it. *)
LosesPower == Crash /\ MayLosePower /\ PowerLoss

(* Only a drain of a segment with more records than a batch, or a power    *)
(* loss, loses an event without a trace.                                   *)
LEMMA StepKeepsEvents ==
  Typing /\ WrittenSafe /\ NoSilentLoss /\ [Next]_vars /\ ~Truncates /\ ~LosesPower
    => NoSilentLoss'
<1> SUFFICES ASSUME Typing, WrittenSafe, NoSilentLoss, [Next]_vars, ~Truncates, ~LosesPower
             PROVE  NoSilentLoss'
  OBVIOUS
<1> DEFINE Safe == Range(batch) \cup Stored \cup ingested \cup dropped
<1>1. WalTypeOK /\ batch \in Seq(Events) /\ received \in Nat /\ draining \subseteq Completed
      /\ Received \subseteq Safe
  BY WalAssumption DEF Typing, TypeOK, NoSilentLoss
<1>2. ASSUME Safe \subseteq Safe', received' = received PROVE NoSilentLoss'
  BY <1>1, <1>2 DEF NoSilentLoss, Received
<1> HIDE DEF Safe
<1>3. CASE Receive
  <2>1. PICK e : /\ batch' = Append(batch, e)
                 /\ received' = IF e = 0 THEN received ELSE received + 1
                 /\ e = 0 \/ e = received + 1
                 /\ UNCHANGED <<walvars, ingested, dropped>>
    BY <1>1, <1>3 DEF Receive
  <2>2. Range(batch') = Range(batch) \cup {e}
    <3>1. /\ DOMAIN batch' = 1..(Len(batch) + 1) /\ DOMAIN batch = 1..Len(batch)
          /\ Len(batch) \in Nat /\ batch'[Len(batch) + 1] = e
          /\ \A i \in 1..Len(batch) : batch'[i] = batch[i]
      BY <1>1, <2>1
    <3> QED  BY <3>1 DEF Range
  <2>3. Stored' = Stored
    BY <2>1, StoredUnchanged DEF walvars
  <2>4. Safe' = Safe \cup {e}
    BY <2>1, <2>2, <2>3 DEF Safe
  <2>5. Received' \subseteq Received \cup {e}
    BY <1>1, <2>1 DEF Received
  <2> QED  BY <1>1, <2>4, <2>5 DEF NoSilentLoss, Safe
<1>4. CASE BatchSent
  <2>1. /\ batch' = <<>> /\ ingested' = ingested \cup Range(batch) /\ received' = received
        /\ \/ UNCHANGED segments /\ dropped' = dropped
           \/ \E n \in Completed : Delete(n) /\ dropped' = dropped \cup Records({n})
    BY <1>4 DEF BatchSent, walvars
  <2>2. Stored \subseteq Stored' \cup dropped' /\ dropped \subseteq dropped'
    BY <1>1, <2>1, StoredUnchanged, DeleteStores
  <2> QED  BY <1>2, <2>1, <2>2 DEF Safe
<1>5. CASE BatchFailed
  <2>1. /\ Range(batch) \subseteq Range(batch') \cup dropped' /\ dropped \subseteq dropped'
        /\ ingested \subseteq ingested' /\ UNCHANGED segments /\ received' = received
    BY <1>5 DEF BatchFailed, CallFails, walvars
  <2> QED  BY <1>2, <2>1, StoredUnchanged DEF Safe
<1>6. CASE WriteRecord
  <2> DEFINE rec == batch[written + 1]
  <2>1. /\ pc = "write" /\ AppendRecord(rec) /\ batch' = batch /\ received' = received
        /\ dropped' = dropped \cup Records(Evicted) /\ ingested' = ingested
    BY <1>6 DEF WriteRecord
  <2>2. rec \in Record
    BY <2>1, NextRecord
  <2>3. Stored \subseteq Stored' \cup Records(Evicted)
    BY <1>1, <2>1, <2>2, AppendStores
  <2> QED  BY <1>2, <2>1, <2>3 DEF Safe
<1>7. CASE WriteFails
  <2>1. /\ dropped' = dropped \cup (Stored \ Stored') \cup Range(SubSeq(batch, written + 1, Len(batch)))
        /\ ingested' = ingested /\ received' = received
    BY <1>7 DEF WriteFails
  <2>2. Range(batch) \subseteq Stored \cup ingested \cup dropped \cup
                               Range(SubSeq(batch, written + 1, Len(batch)))
    <3>1. written \in Nat /\ written <= Len(batch) /\ Len(batch) \in Nat /\ DOMAIN batch = 1..Len(batch)
      BY <1>1 DEF Typing, TypeOK
    <3> DEFINE rest == SubSeq(batch, written + 1, Len(batch))
    <3>2. \A i \in (written + 1)..Len(batch) :
            i - written \in DOMAIN rest /\ rest[i - written] = batch[i]
      BY <1>1, <3>1
    <3>3. \A i \in (written + 1)..Len(batch) : batch[i] \in Range(rest)
      BY <3>2 DEF Range
    <3> HIDE DEF rest
    <3>4. ASSUME NEW i \in 1..Len(batch)
          PROVE  batch[i] \in Stored \cup ingested \cup dropped \cup Range(rest)
      <4>1. i \in 1..written \/ i \in (written + 1)..Len(batch)
        BY <3>1
      <4> QED  BY <3>3, <4>1 DEF WrittenSafe
    <3> QED  BY <3>1, <3>4 DEF Range, rest
  <2> QED  BY <1>2, <2>1, <2>2 DEF Safe
<1>8. CASE WriteDone
  <2>1. /\ pc = "sync" /\ UNCHANGED <<received, ingested, dropped>>
        /\ Sync \/ UNCHANGED walvars
    BY <1>8 DEF WriteDone
  <2>2. Stored' = Stored
    BY <1>1, <2>1, SyncStores, StoredUnchanged DEF walvars
  <2>3. Range(batch) \subseteq Stored \cup ingested \cup dropped
    <3>1. written = Len(batch) /\ DOMAIN batch = 1..Len(batch)
      BY <1>1, <2>1 DEF Typing, Phases
    <3> QED  BY <3>1 DEF WrittenSafe, Range
  <2> QED  BY <1>2, <2>1, <2>2, <2>3 DEF Safe
<1>9. CASE DrainSent
  <2>1. PICK n \in draining :
          /\ ingested' = ingested \cup Range(ReadSegment(n, BatchSize))
          /\ \/ Delete(n) /\ dropped' = dropped \cup (Records({n}) \ Range(Readable(n)))
             \/ UNCHANGED walvars /\ dropped' = dropped
    BY <1>9 DEF DrainSent
  <2>2. batch' = batch /\ received' = received
    BY <1>9 DEF DrainSent
  <2>3. Range(ReadSegment(n, BatchSize)) = Range(Readable(n))
    <3>1. segments[n] \in Segment
      BY <1>1, WalFacts DEF Completed
    <3>2. PICK k \in 0..Len(Readable(n)) :
            /\ k = BatchSize \/ k = Len(Readable(n))
            /\ k = Len(Readable(n)) => ReadSegment(n, BatchSize) = Readable(n)
      BY <3>1, ReadIsReadable
    <3>3. Len(Readable(n)) \in Nat
      <4>1. Len(segments[n].recs) \in Nat
        BY <3>1 DEF Segment
      <4> QED  BY <3>1, <4>1, ReadableIsPrefix
    <3>4. ~(Len(Readable(n)) > BatchSize)
      BY <1>9 DEF Truncates
    <3>5. k = Len(Readable(n))
      BY <3>2, <3>3, <3>4, WalAssumption
    <3> QED  BY <3>2, <3>5
  <2>4. Stored \subseteq Stored' \cup ingested' \cup dropped'
    <3>1. CASE Delete(n) /\ dropped' = dropped \cup (Records({n}) \ Range(Readable(n)))
      <4>1. Stored \subseteq Stored' \cup Records({n})
        BY <1>1, <3>1, DeleteStores
      <4> QED  BY <2>1, <2>3, <3>1, <4>1
    <3>2. CASE UNCHANGED walvars
      BY <3>2, StoredUnchanged DEF walvars
    <3> QED  BY <2>1, <3>1, <3>2
  <2> QED  BY <1>2, <2>1, <2>2, <2>4 DEF Safe
<1>10. CASE DrainFailed
  <2>1. /\ ingested \subseteq ingested' /\ UNCHANGED <<segments, batch, received, dropped>>
    BY <1>10 DEF DrainFailed, CallFails, walvars
  <2> QED  BY <1>2, <2>1, StoredUnchanged DEF Safe
<1>11. CASE Crash
  <2>1. /\ UNCHANGED segments \/ pc = "write"
        /\ dropped' = dropped \cup Range(batch) \cup
                      (IF pc = "write" THEN Stored \ Stored' ELSE {})
        /\ UNCHANGED <<received, ingested>>
    BY <1>11 DEF Crash, LosesPower, walvars
  <2>2. Stored \subseteq Stored' \cup dropped'
    BY <2>1, StoredUnchanged
  <2> QED  BY <1>2, <2>1, <2>2 DEF Safe
<1>12. CASE Deadline \/ Restart \/ UNCHANGED vars
  <2>1. UNCHANGED <<segments, batch, received, ingested, dropped>>
    BY <1>12 DEF Deadline, Restart, vars, walvars, loopvars
  <2> QED  BY <1>2, <2>1, StoredUnchanged DEF Safe
<1> QED  BY <1>3, <1>4, <1>5, <1>6, <1>7, <1>8, <1>9, <1>10, <1>11, <1>12 DEF Next, Loop

(* A segment of at most a batch of records is read completely by the       *)
(* drain.                                                                  *)
LEMMA FullSegmentFits ==
  ASSUME SegmentMax <= BatchSize * RecordSize, Typing
  PROVE  ~Truncates
<1>1. FullSegment <= BatchSize * RecordSize
  <2>1. FullSegment \in {SegmentMax, RecordSize}
    BY MaxOfTwo, WalAssumption DEF FullSegment, RecordSize
  <2> QED  BY <2>1, WalAssumption DEF RecordSize
<1>2. ASSUME NEW n \in draining PROVE ~(Len(Readable(n)) > BatchSize)
  <2>1. n \in Names /\ segments[n] \in Segment
    BY WalFacts DEF Typing, TypeOK, Completed
  <2>2. PICK i \in 0..Len(segments[n].recs) :
          Whole(segments[n].recs, i) /\ Len(Readable(n)) = i
    BY <2>1, ReadableIsPrefix
  <2>3. i * RecordSize <= FullSegment /\ i \in Nat
    BY <2>1, <2>2 DEF Typing, WalInv, Lengths, Segment
  <2> QED  BY <1>1, <2>2, <2>3, WalAssumption, FullSegmentIs DEF RecordSize
<1> QED  BY <1>2 DEF Truncates

(* The written events are safe in every state of the specification.        *)
LEMMA AlwaysWritten == Spec => [](Typing /\ WrittenSafe)
<1>1. Init => WrittenSafe
  BY DEF Init, WrittenSafe
<1> QED  BY <1>1, StepKeepsWritten, AlwaysTyping, PTL DEF Spec

(* ingest_loop and write_batch: whatever is rotated, evicted, drained,     *)
(* retried or torn, the step that loses an event without a trace is the    *)
(* deletion of a segment with more records than the drain has read, or a   *)
(* power loss.                                                             *)
THEOREM WhatLosesSilently ==
  Spec => [][NoSilentLoss => NoSilentLoss' \/ Truncates \/ LosesPower]_vars
<1>1. Typing /\ WrittenSafe /\ [Next]_vars
        => [NoSilentLoss => NoSilentLoss' \/ Truncates \/ LosesPower]_vars
  BY StepKeepsEvents
<1> QED  BY <1>1, AlwaysWritten, PTL DEF Spec

(* A segment limit of at most a batch of records, and writes that survive  *)
(* a crash of the process, are enough for every received event to be in    *)
(* the batch, on disk, with monitoring-service, or given up with a log     *)
(* line.                                                                   *)
THEOREM NothingLostSilently ==
  ASSUME SegmentMax <= BatchSize * RecordSize, ~MayLosePower
  PROVE  Spec => []NoSilentLoss
<1>1. Init => NoSilentLoss
  BY DEF Init, NoSilentLoss, Received
<1>2. Typing /\ WrittenSafe /\ NoSilentLoss /\ [Next]_vars => NoSilentLoss'
  BY StepKeepsEvents, FullSegmentFits DEF LosesPower
<1> QED  BY <1>1, <1>2, AlwaysWritten, PTL DEF Spec

----------------------------------------------------------------------------
(* The order of the events *)

Before(e, f) == 0 \in {e, f} \/ e < f

EventsIn(segment) == Range(segment.recs) \ {Torn}

(* Events lie in the order in which they came: in older segments the       *)
(* earlier ones, and on disk those before what is still to be written.     *)
Ordered ==
  /\ \A m, n \in Names : m < n =>
       \A e \in EventsIn(segments[m]), f \in EventsIn(segments[n]) : Before(e, f)
  /\ \A e \in Stored : e <= received
  /\ \A i \in 1..Len(batch) : batch[i] <= received
  /\ \A e \in Stored, i \in (written + 1)..Len(batch) : Before(e, batch[i])
  /\ \A i, j \in 1..Len(batch) : i < j => Before(batch[i], batch[j])
  /\ \A n \in draining : Oldest(n)

(* A step that leaves of every file a part, or nothing *)
Beginnings ==
  /\ Names' \subseteq Names
  /\ \A n \in Names' : EventsIn(segments'[n]) \subseteq EventsIn(segments[n])

LEMMA StoredIn ==
  /\ \A e : e \in Stored <=> \E n \in Names : e \in EventsIn(segments[n])
  /\ \A e : e \in Stored' <=> \E n \in Names' : e \in EventsIn(segments'[n])
  BY StoredAre DEF EventsIn

(* Segments that are beginnings of the old ones hold no new event.         *)
LEMMA BeginningsStored == Beginnings => Stored' \subseteq Stored
  BY StoredIn DEF Beginnings

LEMMA PrefixEvents ==
  ASSUME NEW segment \in Segment, NEW other, NEW k \in 0..Len(segment.recs),
         other.recs = SubSeq(segment.recs, 1, k)
  PROVE  EventsIn(other) \subseteq EventsIn(segment)
<1> DEFINE recs == segment.recs
           sub  == SubSeq(recs, 1, k)
<1>1. /\ recs \in Seq(Record) /\ DOMAIN recs = 1..Len(recs) /\ Len(recs) \in Nat
      /\ DOMAIN sub = 1..k /\ \A i \in 1..k : sub[i] = recs[i] /\ i \in 1..Len(recs)
  BY DEF Segment
<1> HIDE DEF sub, recs
<1>2. Range(sub) \subseteq Range(recs)
  BY <1>1 DEF Range
<1> QED  BY <1>2 DEF EventsIn, sub, recs

(* Taking segments away leaves beginnings.                                 *)
LEMMA KeptAreBeginnings ==
  ASSUME WalTypeOK, NEW S \in SUBSET Names, segments' = Restrict(segments, S)
  PROVE  Beginnings
  BY KeptFiles DEF Beginnings

(* A sync leaves the records as they are.                                  *)
LEMMA SyncIsBeginnings == ASSUME WalTypeOK, Sync PROVE Beginnings
<1>1. Names' = Names
  BY DEF Sync, Names
<1>2. ASSUME NEW n \in Names PROVE segments'[n].recs = segments[n].recs
  <2>1. segments[n] \in Segment
    BY WalFacts
  <2>2. \/ segments'[n] = segments[n]
        \/ segments'[n] = [segments[n] EXCEPT !.synced = Len(segments[n].recs)]
    BY DEF Sync
  <2> QED  BY <2>1, <2>2 DEF Segment
<1> QED  BY <1>1, <1>2 DEF Beginnings, EventsIn

(* A failed eviction only takes segments away.                             *)
LEMMA FailureIsBeginnings == ASSUME WalTypeOK, EvictFails \/ RotateFails PROVE Beginnings
<1>1. PICK S \in SUBSET Names : segments' = Restrict(segments, S)
  BY DEF EvictFails, RotateFails
<1> QED  BY <1>1, KeptAreBeginnings

(* A power loss leaves beginnings.                                         *)
LEMMA PowerLossIsBeginnings ==
  ASSUME WalInv, PowerLoss, UNCHANGED <<current, size, total, millis>>
  PROVE  Beginnings
<1>1. Names' = Names /\ \A n \in Names : segments[n] \in Segment
  BY WalFacts, PowerLossKeepsWal DEF WalInv
<1>2. ASSUME NEW n \in Names PROVE EventsIn(segments'[n]) \subseteq EventsIn(segments[n])
  <2>1. PICK other : other = segments'[n]
    OBVIOUS
  <2>2. PICK k \in 0..Len(segments[n].recs) : other.recs = SubSeq(segments[n].recs, 1, k)
    BY <2>1, PowerLossKeepsWal
  <2> QED  BY <1>1, <2>1, <2>2, PrefixEvents
<1> QED  BY <1>1, <1>2 DEF Beginnings

(* A record is written behind all the others. *)
LEMMA AppendOrders ==
  ASSUME WalInv, Ordered, NEW rec \in Record, AppendRecord(rec),
         rec # Torn => \A e \in Stored : Before(e, rec)
  PROVE  /\ \A m, n \in Names' : m < n =>
              \A e \in EventsIn(segments'[m]), f \in EventsIn(segments'[n]) : Before(e, f)
         /\ Stored' \subseteq Stored \cup ({rec} \ {Torn})
<1>1. PICK n \in Nat, recs \in Seq(Record), open \in Nat :
           /\ current' = {n} /\ Names' = (Names \ Evicted) \cup {n}
           /\ \A m \in Names' \ {n} : m \in Names \ Evicted /\ segments'[m] = segments[m]
           /\ segments'[n] \in Segment /\ segments'[n].recs = Append(recs, rec)
           /\ segments'[n].synced <= Len(segments'[n].recs)
           /\ size' = open + (IF rec = Torn THEN 0 ELSE RecordSize)
           /\ total' = Minus(total, Bytes(Evicted)) + (IF rec = Torn THEN 0 ELSE RecordSize)
           /\ \/ /\ n = millis + 1 /\ n \notin Names /\ millis' = n
                 /\ recs = <<>> /\ open = 0
              \/ /\ current = {n} /\ n \in Names \ Evicted /\ millis' = millis
                 /\ recs = segments[n].recs /\ open = size /\ size + RecordSize <= SegmentMax
  BY Appended DEF WalInv
<1>2. \A m \in Names' : m \in Nat /\ m <= n
  <2>1. n \in Names' /\ OpenNewest'
    BY <1>1, AppendKeepsWal DEF WalInv
  <2>2. \A m \in Names' : m \in Nat
    BY <1>1, WalFacts DEF WalInv
  <2> QED  BY <1>1, <2>1, <2>2 DEF OpenNewest
<1>3. EventsIn(segments'[n]) = (Range(recs) \ {Torn}) \cup ({rec} \ {Torn})
  <2> DEFINE new == Append(recs, rec)
  <2>1. /\ DOMAIN new = 1..(Len(recs) + 1) /\ DOMAIN recs = 1..Len(recs) /\ Len(recs) \in Nat
        /\ new[Len(recs) + 1] = rec /\ \A i \in 1..Len(recs) : new[i] = recs[i]
    OBVIOUS
  <2> HIDE DEF new
  <2>2. Range(new) = Range(recs) \cup {rec}
    BY <2>1 DEF Range
  <2> QED  BY <1>1, <2>2 DEF EventsIn, new
<1>4. ASSUME NEW m \in Names', m # n
      PROVE  m \in Names /\ m < n /\ segments'[m] = segments[m]
  BY <1>1, <1>2, <1>4
<1>5. \/ n \notin Names /\ Range(recs) = {}
      \/ n \in Names /\ Range(recs) \ {Torn} = EventsIn(segments[n])
  <2>1. Range(<<>>) = {}
    BY DEF Range
  <2> QED  BY <1>1, <2>1 DEF EventsIn
<1>6. Stored' \subseteq Stored \cup ({rec} \ {Torn})
  <2> SUFFICES ASSUME NEW e \in Stored', e \notin {rec} \ {Torn} PROVE e \in Stored
    OBVIOUS
  <2>1. PICK m \in Names' : e \in EventsIn(segments'[m])
    BY StoredIn
  <2>2. CASE m = n
    <3>1. e \in Range(recs) \ {Torn}
      BY <1>3, <2>1, <2>2
    <3> QED  BY <1>5, <3>1, StoredIn
  <2>3. CASE m # n
    BY <1>4, <2>1, <2>3, StoredIn
  <2> QED  BY <2>2, <2>3
<1>7. ASSUME NEW m \in Names', NEW k \in Names', m < k,
             NEW e \in EventsIn(segments'[m]), NEW f \in EventsIn(segments'[k])
      PROVE  Before(e, f)
  <2>1. m # n
    BY <1>2, <1>7
  <2>2. m \in Names /\ e \in EventsIn(segments[m]) /\ e \in Stored
    BY <1>4, <1>7, <2>1, StoredIn
  <2>3. CASE k # n
    <3>1. k \in Names /\ f \in EventsIn(segments[k])
      BY <1>4, <1>7, <2>3
    <3> QED  BY <1>7, <2>2, <3>1 DEF Ordered
  <2>4. CASE k = n /\ f \in {rec} \ {Torn}
    BY <2>2, <2>4
  <2>5. CASE k = n /\ f \in Range(recs) \ {Torn}
    <3>1. k \in Names /\ f \in EventsIn(segments[k])
      BY <1>5, <2>5
    <3> QED  BY <1>7, <2>2, <3>1 DEF Ordered
  <2> QED  BY <1>3, <1>7, <2>3, <2>4, <2>5
<1> QED  BY <1>6, <1>7

(* Every step keeps the order. An append is the only one that adds an      *)
(* event to the disk: it is the next of the batch, and goes behind         *)
(* everything.                                                             *)
LEMMA StepKeepsOrder == Typing /\ Ordered /\ [Next]_vars => Ordered'
<1> SUFFICES ASSUME Typing, Ordered, [Next]_vars PROVE Ordered'
  OBVIOUS
<1>1. /\ WalInv /\ WalTypeOK /\ batch \in Seq(Events) /\ Len(batch) \in Nat
      /\ written \in Nat /\ received \in Nat /\ draining \subseteq Completed
      /\ (pc # "drain" => draining = {}) /\ Stored \subseteq Nat /\ MaxEvents \in Nat
      /\ \A i \in 1..Len(batch) : batch[i] \in Nat
  BY EventsOf, WalAssumption DEF Typing, WalInv, TypeOK, Events
<1>2. Len(<<>>) = 0
  OBVIOUS
<1>3. ASSUME Beginnings, received' = received, draining' = {},
             \/ batch' = <<>>
             \/ batch' = batch /\ written' = written
      PROVE  Ordered'
  <2>1. Stored' \subseteq Stored
    BY <1>3, BeginningsStored
  <2>2. \A m, n \in Names' : m < n =>
          \A e \in EventsIn(segments'[m]), f \in EventsIn(segments'[n]) : Before(e, f)
    BY <1>3 DEF Beginnings, Ordered
  <2>3. CASE batch' = <<>>
    <3>1. 1..Len(batch') = {} /\ \A e \in Stored' : e <= received'
      BY <1>2, <1>3, <2>1, <2>3 DEF Ordered
    <3>2. \A i : i \in (written' + 1)..Len(batch') => FALSE
      <4>1. written' = 0
        BY <2>3, StepKeepsTypes, <1>2 DEF TypeOK
      <4> QED  BY <1>2, <2>3, <4>1
    <3> QED  BY <1>3, <2>2, <3>1, <3>2 DEF Ordered
  <2>4. CASE batch' = batch /\ written' = written
    BY <1>3, <2>1, <2>2, <2>4 DEF Ordered
  <2> QED  BY <1>3, <2>3, <2>4
<1>4. ASSUME UNCHANGED segments PROVE Beginnings
  BY <1>4 DEF Beginnings, Names
<1>5. ASSUME NEW n \in Completed, Delete(n) PROVE Beginnings
  <2>1. Names \ {n} \in SUBSET Names
    OBVIOUS
  <2> QED  BY <1>1, <1>5, <2>1, KeptAreBeginnings DEF Delete
<1>6. CASE Receive
  <2>1. PICK e \in Nat :
          /\ batch' = Append(batch, e)
          /\ received' = IF e = 0 THEN received ELSE received + 1
          /\ e = 0 \/ e = received + 1
          /\ UNCHANGED <<walvars, written, draining>> /\ draining = {}
    BY <1>1, <1>6 DEF Receive
  <2>2. /\ Len(batch') = Len(batch) + 1 /\ batch'[Len(batch) + 1] = e
        /\ \A i \in 1..Len(batch) : batch'[i] = batch[i]
    BY <1>1, <2>1
  <2>3. segments' = segments /\ Names' = Names /\ Stored' = Stored
    BY <2>1, StoredUnchanged DEF walvars, Names
  <2>4. \A f \in Stored : Before(f, e) /\ f <= received'
    BY <1>1, <2>1 DEF Ordered, Before
  <2>5. \A i \in 1..Len(batch) : Before(batch[i], e) /\ batch[i] <= received'
    BY <1>1, <2>1 DEF Ordered, Before
  <2>6. e <= received'
    BY <1>1, <2>1
  <2>7. \A i \in 1..Len(batch') : i \in 1..Len(batch) \/ i = Len(batch) + 1
    BY <1>1, <2>2
  <2>8. \A m, n \in Names' : m < n =>
          \A a \in EventsIn(segments'[m]), b \in EventsIn(segments'[n]) : Before(a, b)
    BY <2>3 DEF Ordered
  <2>9. \A i \in 1..Len(batch') : batch'[i] <= received'
    BY <2>2, <2>5, <2>6, <2>7
  <2>10. \A f \in Stored', i \in (written' + 1)..Len(batch') : Before(f, batch'[i])
    <3> TAKE f \in Stored', i \in (written' + 1)..Len(batch')
    <3>1. CASE i = Len(batch) + 1
      BY <2>2, <2>3, <2>4, <3>1
    <3>2. CASE i \in (written + 1)..Len(batch)
      <4>1. Before(f, batch[i]) /\ i \in 1..Len(batch)
        BY <1>1, <2>3, <3>2 DEF Ordered
      <4> QED  BY <2>2, <4>1
    <3> QED  BY <1>1, <2>1, <2>2, <3>1, <3>2
  <2>11. \A i, j \in 1..Len(batch') : i < j => Before(batch'[i], batch'[j])
    <3> TAKE i, j \in 1..Len(batch')
    <3> HAVE i < j
    <3>1. i \in 1..Len(batch)
      BY <1>1, <2>2
    <3>2. CASE j = Len(batch) + 1
      BY <2>2, <2>5, <3>1, <3>2
    <3>3. CASE j \in 1..Len(batch)
      <4>1. Before(batch[i], batch[j])
        BY <3>1, <3>3 DEF Ordered
      <4> QED  BY <2>2, <3>1, <3>3, <4>1
    <3> QED  BY <2>7, <3>2, <3>3
  <2>12. \A f \in Stored' : f <= received'
    BY <2>3, <2>4
  <2>13. draining' = {}
    BY <2>1
  <2> QED  BY <2>8, <2>9, <2>10, <2>11, <2>12, <2>13 DEF Ordered
<1>7. CASE BatchSent
  <2>1. /\ pc = "send" /\ batch' = <<>> /\ received' = received /\ draining = {}
        /\ \/ draining' = {} /\ (UNCHANGED segments \/ \E n \in Completed : Delete(n))
           \/ \E n \in Completed : Oldest(n) /\ draining' = {n} /\ UNCHANGED walvars
    BY <1>1, <1>7 DEF BatchSent, walvars
  <2>2. CASE draining' = {} /\ (UNCHANGED segments \/ \E n \in Completed : Delete(n))
    BY <1>3, <1>4, <1>5, <2>1, <2>2
  <2>3. ASSUME NEW n \in Completed, Oldest(n), draining' = {n}, UNCHANGED walvars
        PROVE  Ordered'
    <3>1. /\ Names' = Names /\ Completed' = Completed /\ Stored' = Stored /\ segments' = segments
      BY <2>3, StoredUnchanged DEF walvars, Names, Completed
    <3>2. \A m \in draining' : Oldest(m)'
      BY <2>3, <3>1 DEF Oldest
    <3>3. /\ 1..Len(batch') = {} /\ (written' + 1)..Len(batch') = {}
      <4>1. written' = 0
        BY <2>1, StepKeepsTypes, <1>2 DEF TypeOK
      <4> QED  BY <1>2, <2>1, <4>1
    <3> QED  BY <2>1, <3>1, <3>2, <3>3 DEF Ordered
  <2> QED  BY <2>1, <2>2, <2>3
<1>8. CASE WriteRecord
  <2> DEFINE rec == batch[written + 1]
  <2>1. /\ pc = "write" /\ AppendRecord(rec) /\ batch' = batch /\ received' = received
        /\ written' = written + 1 /\ draining' = {}
    BY <1>1, <1>8 DEF WriteRecord
  <2>2. rec \in Record /\ rec \in Nat /\ written + 1 \in 1..Len(batch)
    BY <1>1, <2>1, NextRecord
  <2>3. \A e \in Stored : Before(e, rec)
    BY <1>1, <2>2 DEF Ordered
  <2>4. /\ \A m, n \in Names' : m < n =>
             \A e \in EventsIn(segments'[m]), f \in EventsIn(segments'[n]) : Before(e, f)
        /\ Stored' \subseteq Stored \cup {rec}
    BY <1>1, <2>1, <2>2, <2>3, AppendOrders
  <2>5. rec <= received /\ \A i \in (written + 2)..Len(batch) : Before(rec, batch[i])
    BY <1>1, <2>2 DEF Ordered
  <2>6. \A e \in Stored' : e <= received'
    BY <2>1, <2>4, <2>5 DEF Ordered
  <2>7. \A e \in Stored', i \in (written' + 1)..Len(batch') : Before(e, batch'[i])
    <3> TAKE e \in Stored', i \in (written' + 1)..Len(batch')
    <3>1. i \in (written + 1)..Len(batch) /\ i \in (written + 2)..Len(batch)
      BY <1>1, <2>1
    <3> QED  BY <2>1, <2>4, <2>5, <3>1 DEF Ordered
  <2> QED  BY <2>1, <2>4, <2>6, <2>7 DEF Ordered
<1>9. ASSUME AppendRecord(Torn), pc = "write", batch' = <<>>, received' = received, draining' = {}
      PROVE  Ordered'
  <2>1. Torn \in Record
    BY <1>9, NextRecord
  <2>2. /\ \A m, n \in Names' : m < n =>
             \A e \in EventsIn(segments'[m]), f \in EventsIn(segments'[n]) : Before(e, f)
        /\ Stored' \subseteq Stored
    BY <1>1, <1>9, <2>1, AppendOrders
  <2>3. 1..Len(batch') = {} /\ (written' + 1)..Len(batch') = {}
    <3>1. written' = 0
      BY <1>9, StepKeepsTypes, <1>2 DEF TypeOK
    <3> QED  BY <1>2, <1>9, <3>1
  <2> QED  BY <1>9, <2>2, <2>3 DEF Ordered
<1>10. CASE WriteFails
  <2>1. /\ pc = "write" /\ batch' = <<>> /\ received' = received /\ draining' = {}
        /\ EvictFails \/ RotateFails \/ AppendRecord(Torn)
    BY <1>1, <1>10 DEF WriteFails
  <2> QED  BY <1>1, <1>3, <1>9, <2>1, FailureIsBeginnings
<1>11. CASE WriteDone
  <2>1. /\ batch' = <<>> /\ received' = received /\ draining' = {}
        /\ Sync \/ UNCHANGED segments
    BY <1>1, <1>11 DEF WriteDone, walvars
  <2> QED  BY <1>1, <1>3, <1>4, <2>1, SyncIsBeginnings
<1>12. CASE DrainSent
  <2>1. /\ batch' = batch /\ written' = written /\ received' = received /\ draining' = {}
        /\ UNCHANGED segments \/ \E n \in Completed : Delete(n)
    BY <1>1, <1>12 DEF DrainSent, walvars
  <2> QED  BY <1>3, <1>4, <1>5, <2>1
<1>13. CASE Crash
  <2>1. /\ batch' = <<>> /\ received' = received /\ draining' = {}
        /\ \/ UNCHANGED segments
           \/ pc = "write" /\ AppendRecord(Torn)
           \/ PowerLoss /\ UNCHANGED <<current, size, total, millis>>
    BY <1>13 DEF Crash, walvars
  <2> QED  BY <1>1, <1>3, <1>4, <1>9, <2>1, PowerLossIsBeginnings
<1>14. CASE Deadline \/ BatchFailed \/ DrainFailed \/ Restart
  <2>1. /\ UNCHANGED segments /\ received' = received /\ draining' = {}
        /\ batch' = <<>> \/ (batch' = batch /\ written' = written)
    <3>1. pc = "send" => written = 0
      BY DEF Typing, Phases
    <3> QED  BY <1>1, <1>14, <3>1 DEF Deadline, BatchFailed, DrainFailed, Restart, walvars
  <2> QED  BY <1>3, <1>4, <2>1
<1>15. CASE UNCHANGED vars
  <2>1. /\ UNCHANGED <<segments, current, batch, written, draining, received>>
        /\ Names' = Names /\ Completed' = Completed /\ Stored' = Stored
    BY <1>15, StoredUnchanged DEF vars, walvars, loopvars, Completed, Names
  <2>2. \A n \in draining' : Oldest(n)'
    BY <2>1 DEF Ordered, Oldest
  <2> QED  BY <2>1, <2>2 DEF Ordered
<1> QED  BY <1>6, <1>7, <1>8, <1>10, <1>11, <1>12, <1>13, <1>14, <1>15 DEF Next, Loop

(* What the drain sends comes before everything in the other segments.     *)
LEMMA InOrder ==
  Typing /\ Ordered /\ DrainSent =>
    \A n \in draining :
      \A e \in Range(ReadSegment(n, BatchSize)), f \in Records(Names \ {n}) : 0 \in {e, f} \/ e < f
<1> SUFFICES ASSUME Typing, Ordered, NEW n \in draining,
                    NEW e \in Range(ReadSegment(n, BatchSize)), NEW f \in Records(Names \ {n})
             PROVE  Before(e, f)
  BY DEF Before
<1>1. /\ n \in Completed /\ n \in Names /\ segments[n] \in Segment /\ Oldest(n)
      /\ Names \subseteq Nat
  BY WalFacts DEF Typing, WalInv, TypeOK, Completed, Ordered
<1>2. e \in EventsIn(segments[n])
  <2>1. e \in Records({n})
    BY <1>1, ReadIsReadable
  <2> QED  BY <2>1, RecordsAre DEF EventsIn
<1>3. PICK m \in Names \ {n} : f \in EventsIn(segments[m])
  <2>1. f # Torn /\ \E m \in Names \ {n} : f \in Range(segments[m].recs)
    BY RecordsAre
  <2> QED  BY <2>1 DEF EventsIn
<1>4. n < m
  <2>1. CASE m \in Completed
    BY <1>1, <2>1 DEF Oldest
  <2>2. CASE m \in current
    BY <1>1, <2>2 DEF Typing, WalInv, OpenNewest
  <2> QED  BY <2>1, <2>2 DEF Completed
<1> QED  BY <1>1, <1>2, <1>3, <1>4 DEF Ordered

(* read_oldest_batch and delete_segment: when a drain has delivered a      *)
(* segment, the events left on disk came later than those it read, through *)
(* every rotation, eviction, failed write, crash and restart.              *)
THEOREM DrainsOldestFirst == Spec => OldestFirst
<1>1. Init => Ordered
  BY StoredAre DEF Init, Ordered, Names
<1>2. Typing /\ Ordered /\ [Next]_vars
        => [DrainSent => \A n \in draining :
              \A e \in Range(ReadSegment(n, BatchSize)), f \in Records(Names \ {n}) :
                0 \in {e, f} \/ e < f]_vars
  BY InOrder
<1>3. Spec => []Ordered
  BY <1>1, StepKeepsOrder, AlwaysTyping, PTL DEF Spec
<1> QED  BY <1>2, <1>3, AlwaysTyping, PTL DEF Spec, OldestFirst

=============================================================================
