-------------------------------- MODULE Wal --------------------------------
(***************************************************************************)
(* WalBuffer of src/src/wal.rs: numbered segment files in a directory, the *)
(* open segment, and the byte count kept beside them.  The operators are   *)
(* the calls ingest_loop makes; module Ingest strings them together.       *)
(*                                                                         *)
(* Abstractions:                                                           *)
(*  - A record is the number of its event, in order of arrival, and takes  *)
(*    RecordSize units; a write that fails half way leaves a Torn one of   *)
(*    TornSize units.  Behind a torn record the reader is out of step with *)
(*    the record boundaries, so it gives the rest of the segment up.       *)
(*  - The millisecond in a file name is the number of the rotation: the    *)
(*    clock is not set back, and no two rotations fall in one millisecond. *)
(*  - The directory itself is durable.                                     *)
(***************************************************************************)
EXTENDS Naturals, Sequences, FiniteSets, FiniteSetsExt, Functions

CONSTANTS
  MaxEvents,    (* events that are followed; 0 stands for any later one      *)
  BatchSize,    (* settings.collector.ingest_batch_size                      *)
  BufferMax,    (* settings.collector.buffer_max_bytes, in units             *)
  SegmentMax    (* settings.collector.buffer_segment_max_bytes, in units     *)

ASSUME WalAssumption ==
  /\ MaxEvents \in Nat /\ BatchSize \in Nat \ {0}
  /\ BufferMax \in Nat /\ SegmentMax \in Nat

Events == 0..MaxEvents
Torn   == MaxEvents + 1

RecordSize == 2
TornSize   == 1

VARIABLES
  segments,   (* the files: name -> [recs, synced]                         *)
  current,    (* names of the open segment: at most one (current_segment)  *)
  size,       (* SegmentWriter::size of the open segment                   *)
  total,      (* WalBuffer::total_bytes                                    *)
  millis      (* the millisecond of the latest rotation                    *)

walvars == <<segments, current, size, total, millis>>

WalTypeOK ==
  /\ DOMAIN segments \subseteq 0..millis
  /\ \A n \in DOMAIN segments :
       /\ segments[n] \in [recs: Seq(Events \cup {Torn}), synced: Nat]
       /\ segments[n].synced <= Len(segments[n].recs)
  /\ current \subseteq DOMAIN segments /\ Cardinality(current) <= 1
  /\ size \in Nat /\ total \in Nat /\ millis \in Nat

Names     == DOMAIN segments
Completed == Names \ current

(* The units that the records `recs` of segment n take, one by one: a torn *)
(* record has only the first ones of a whole record.                       *)
Units(n, recs) ==
  {n} \X { p \in (1..Len(recs)) \X (1..RecordSize) : recs[p[1]] = Torn => p[2] <= TornSize }

(* The length of the files of S together. *)
Bytes(S) == Cardinality(UNION { Units(n, segments[n].recs) : n \in S })

(* u64::saturating_sub *)
Minus(a, b) == IF a > b THEN a - b ELSE 0

(* The events on disk, in the segments of S and in all of them. *)
Records(S) == (UNION { Range(segments[n].recs) : n \in S }) \ {Torn}
Stored     == Records(Names)

----------------------------------------------------------------------------
(* open() on a directory that may hold segments of an earlier run. *)
Open ==
  /\ current' = {} /\ size' = 0
  /\ total' = Bytes(Names)

(* Mutated form: the budget is checked without the new record. *)
MutEvicted == { n \in Completed : Minus(total, Bytes({ m \in Completed : m < n })) > BufferMax }

(* The segments evicted before a record is written: the oldest completed   *)
(* ones, as long as the budget is exceeded without them.                   *)
Evicted == { n \in Completed :
               Minus(total, Bytes({ m \in Completed : m < n })) + RecordSize > BufferMax }

(* Mutated form: a full segment is not rotated. *)
MutNeedsRotate == current = {}

NeedsRotate == current = {} \/ size + RecordSize > SegmentMax

(* One turn of the loop of write_batch: evict, rotate, append `rec`, which *)
(* is the event or, when the write fails half way, Torn.                   *)
AppendRecord(rec) ==
  \E n \in IF NeedsRotate THEN {millis + 1} ELSE current :
    /\ segments' = [m \in (Names \ Evicted) \cup {n} |->
                      IF m # n THEN segments[m]
                      ELSE IF NeedsRotate THEN [recs |-> <<rec>>, synced |-> 0]
                      ELSE [segments[n] EXCEPT !.recs = Append(@, rec)]]
    /\ current' = {n}
    /\ millis' = IF NeedsRotate THEN n ELSE millis
    /\ size' = (IF NeedsRotate THEN 0 ELSE size) + (IF rec = Torn THEN 0 ELSE RecordSize)
    /\ total' = Minus(total, Bytes(Evicted)) + (IF rec = Torn THEN 0 ELSE RecordSize)

(* The turn fails before the append: in remove_file, after some evictions, *)
(* or in the open of the new file, after which there is no open segment.   *)
EvictFails ==
  \E v \in Evicted :
    LET gone == { n \in Evicted : n < v } IN
    /\ segments' = Restrict(segments, Names \ gone)
    /\ total' = Minus(total, Bytes(gone))
    /\ UNCHANGED <<current, size, millis>>

RotateFails ==
  /\ NeedsRotate
  /\ segments' = Restrict(segments, Names \ Evicted)
  /\ total' = Minus(total, Bytes(Evicted))
  /\ current' = {} /\ size' = 0
  /\ UNCHANGED millis

(* sync_data() on the open segment, and on no other. *)
Sync ==
  /\ segments' = [n \in Names |-> IF n \in current
                                    THEN [segments[n] EXCEPT !.synced = Len(segments[n].recs)]
                                    ELSE segments[n]]
  /\ UNCHANGED <<current, size, total, millis>>

(* Mutated form: the newest completed segment. *)
MutNewest(n) == n \in Completed /\ \A m \in Completed : m <= n

(* has_pending() and the choice of read_oldest_batch(). *)
Oldest(n) == n \in Completed /\ \A m \in Completed : n <= m

(* The records of segment n the reader can decode. *)
Readable(n) ==
  LET recs == segments[n].recs
      good == { i \in 0..Len(recs) : \A j \in 1..i : recs[j] # Torn }
  IN SubSeq(recs, 1, Max(good))

(* read_segment(n, max_items) *)
ReadSegment(n, max) == SubSeq(Readable(n), 1, Min({max, Len(Readable(n))}))

(* Mutated form: the byte count is left alone. *)
MutDelete(n) ==
  /\ segments' = Restrict(segments, Names \ {n})
  /\ UNCHANGED <<current, size, total, millis>>

(* delete_segment(n) *)
Delete(n) ==
  /\ segments' = Restrict(segments, Names \ {n})
  /\ total' = Minus(total, Bytes({n}))
  /\ UNCHANGED <<current, size, millis>>

(* The machine loses power: of every file at least the synced part is left. *)
PowerLoss ==
  \E kept \in [Names -> 0..Max({0} \cup { Len(segments[n].recs) : n \in Names })] :
    /\ \A n \in Names : kept[n] \in segments[n].synced..Len(segments[n].recs)
    /\ segments' = [n \in Names |-> [recs   |-> SubSeq(segments[n].recs, 1, kept[n]),
                                     synced |-> kept[n]]]
=============================================================================
