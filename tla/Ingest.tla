------------------------------- MODULE Ingest -------------------------------
(***************************************************************************)
(* ingest_loop of src/src/collector.rs: events from the result queue are   *)
(* batched and sent to monitoring-service; a batch that cannot be sent is  *)
(* written to the WAL (module Wal), and every batch that can be sent       *)
(* drains one segment.  The loop is one task: events pile up in the queue  *)
(* while it awaits a reply.  The process may be killed, and restarted on   *)
(* what is on disk; with PowerLoss the machine may lose unsynced writes.   *)
(*                                                                         *)
(* monitoring-service is seen through the reply only: a call that fails    *)
(* may or may not have been applied.                                       *)
(***************************************************************************)
EXTENDS Wal

CONSTANTS
  Background,   (* do events keep coming after MaxEvents?              *)
  MayLosePower, (* may a crash take unsynced writes with it?           *)
  MaxFailures,  (* bound on failed calls of monitoring-service         *)
  MaxIoErrors,  (* bound on failed file operations                     *)
  MaxCrashes    (* bound on crashes                                    *)

ASSUME IngestAssumption ==
  /\ Background \in BOOLEAN /\ MayLosePower \in BOOLEAN
  /\ MaxFailures \in Nat /\ MaxIoErrors \in Nat /\ MaxCrashes \in Nat

VARIABLES
  pc,          (* where ingest_loop is                                      *)
  buffered,    (* is it ingest_loop (TRUE) or run_ingest_loop_no_wal?       *)
  batch,       (* the batch it collects or has failed to send               *)
  written,     (* how many events of the batch write_batch has written      *)
  draining,    (* the segment whose records are being sent (at most one)    *)
  received,    (* how many followed events have come                        *)
  ingested,    (* events monitoring-service has got                         *)
  dropped,     (* history: events given up with a log line, or in memory at a crash *)
  failures, ioErrors, crashes    (* the bounded mishaps so far              *)

loopvars == <<pc, buffered, batch, written, draining, received, ingested,
              dropped, failures, ioErrors, crashes>>
vars == <<walvars, loopvars>>

TypeOK ==
  /\ WalTypeOK
  /\ pc \in {"recv", "send", "write", "sync", "drain", "down"}
  /\ buffered \in BOOLEAN
  /\ batch \in Seq(Events) /\ Len(batch) <= BatchSize
  /\ written \in 0..Len(batch)
  /\ draining \subseteq Completed /\ (pc = "drain" <=> draining # {})
  /\ received \in 0..MaxEvents
  /\ ingested \subseteq Events /\ dropped \subseteq Events
  /\ failures \in 0..MaxFailures /\ ioErrors \in 0..MaxIoErrors /\ crashes \in 0..MaxCrashes

----------------------------------------------------------------------------
(* The loop. *)

(* Mutated form: a batch is full one event late. *)
MutReceive ==
  /\ pc = "recv"
  /\ received < MaxEvents
  /\ batch' = Append(batch, received + 1)
  /\ received' = received + 1
  /\ pc' = IF Len(batch') > BatchSize THEN "send" ELSE "recv"
  /\ UNCHANGED <<walvars, buffered, written, draining, ingested, dropped, failures, ioErrors, crashes>>

(* result_rx.recv(): a full batch is flushed at once. *)
Receive ==
  /\ pc = "recv"
  /\ received < MaxEvents \/ Background
  /\ LET event == IF received < MaxEvents THEN received + 1 ELSE 0 IN
     /\ batch' = Append(batch, event)
     /\ received' = IF received < MaxEvents THEN received + 1 ELSE received
  /\ pc' = IF Len(batch') >= BatchSize THEN "send" ELSE "recv"
  /\ UNCHANGED <<walvars, buffered, written, draining, ingested, dropped, failures, ioErrors, crashes>>

(* The flush deadline, with something to flush. *)
Deadline ==
  /\ pc = "recv" /\ batch # <<>>
  /\ pc' = "send"
  /\ UNCHANGED <<walvars, buffered, batch, written, draining, received, ingested, dropped,
                 failures, ioErrors, crashes>>

(* A call fails: the service may have applied it all the same. *)
CallFails(events) ==
  /\ failures < MaxFailures
  /\ failures' = failures + 1
  /\ ingested' \in {ingested, ingested \cup Range(events)}

IoError ==
  /\ ioErrors < MaxIoErrors
  /\ ioErrors' = ioErrors + 1

(* The batch arrived; with a completed segment, the oldest is read for the *)
(* drain, and deleted at once if nothing in it can be decoded.             *)
BatchSent ==
  /\ pc = "send"
  /\ ingested' = ingested \cup Range(batch)
  /\ batch' = <<>>
  /\ \/ /\ ~buffered \/ Completed = {}
        /\ pc' = "recv"
        /\ UNCHANGED <<walvars, draining, dropped, ioErrors>>
     \/ /\ buffered
        /\ \E n \in Completed :
             /\ Oldest(n)
             /\ \/ /\ ReadSegment(n, BatchSize) # <<>>
                   /\ pc' = "drain" /\ draining' = {n}
                   /\ UNCHANGED <<walvars, dropped>>
                \/ /\ ReadSegment(n, BatchSize) = <<>>
                   /\ Delete(n)
                   /\ dropped' = dropped \cup Records({n})
                   /\ pc' = "recv" /\ UNCHANGED draining
        /\ UNCHANGED ioErrors
     \/ /\ buffered /\ Completed # {}          (* the segment cannot be read *)
        /\ IoError
        /\ pc' = "recv"
        /\ UNCHANGED <<walvars, draining, dropped>>
  /\ UNCHANGED <<buffered, written, received, failures, crashes>>

BatchFailed ==
  /\ pc = "send"
  /\ CallFails(batch)
  /\ IF buffered
       THEN pc' = "write" /\ written' = 0 /\ UNCHANGED <<batch, dropped>>
       ELSE /\ pc' = "recv" /\ batch' = <<>>
            /\ dropped' = dropped \cup Range(batch) /\ UNCHANGED written
  /\ UNCHANGED <<walvars, buffered, draining, received, ioErrors, crashes>>

(* write_batch, event by event. *)
WriteRecord ==
  /\ pc = "write"
  /\ AppendRecord(batch[written + 1])
  /\ written' = written + 1
  /\ dropped' = dropped \cup Records(Evicted)
  /\ pc' = IF written' = Len(batch) THEN "sync" ELSE "write"
  /\ UNCHANGED <<buffered, batch, draining, received, ingested, failures, ioErrors, crashes>>

(* write_batch returns an error: the rest of the batch is given up. *)
WriteFails ==
  /\ pc = "write"
  /\ IoError
  /\ EvictFails \/ RotateFails \/ AppendRecord(Torn)
  /\ dropped' = dropped \cup (Stored \ Stored') \cup Range(SubSeq(batch, written + 1, Len(batch)))
  /\ pc' = "recv" /\ batch' = <<>> /\ written' = 0
  /\ UNCHANGED <<buffered, draining, received, ingested, failures, crashes>>

(* sync_data() at the end of write_batch; an error changes nothing more. *)
WriteDone ==
  /\ pc = "sync"
  /\ \/ Sync /\ UNCHANGED ioErrors
     \/ IoError /\ UNCHANGED walvars
  /\ pc' = "recv" /\ batch' = <<>> /\ written' = 0
  /\ UNCHANGED <<buffered, draining, received, ingested, dropped, failures, crashes>>

(* Mutated form: a segment that filled the drain batch is kept. *)
MutDrainSent ==
  /\ pc = "drain"
  /\ \E n \in draining :
       /\ ingested' = ingested \cup Range(ReadSegment(n, BatchSize))
       /\ IF Len(ReadSegment(n, BatchSize)) < BatchSize THEN Delete(n) ELSE UNCHANGED walvars
  /\ pc' = "recv" /\ draining' = {}
  /\ UNCHANGED <<buffered, batch, written, received, dropped, failures, ioErrors, crashes>>

(* The drained records arrived; the segment is deleted, unless that fails. *)
DrainSent ==
  /\ pc = "drain"
  /\ \E n \in draining :
       /\ ingested' = ingested \cup Range(ReadSegment(n, BatchSize))
       /\ \/ /\ Delete(n)
             /\ dropped' = dropped \cup (Records({n}) \ Range(Readable(n)))
             /\ UNCHANGED ioErrors
          \/ IoError /\ UNCHANGED <<walvars, dropped>>
  /\ pc' = "recv" /\ draining' = {}
  /\ UNCHANGED <<buffered, batch, written, received, failures, crashes>>

DrainFailed ==
  /\ pc = "drain"
  /\ \E n \in draining : CallFails(ReadSegment(n, BatchSize))
  /\ pc' = "recv" /\ draining' = {}
  /\ UNCHANGED <<walvars, buffered, batch, written, received, dropped, ioErrors, crashes>>

----------------------------------------------------------------------------
(* The process dies, possibly in the middle of a write. *)
Crash ==
  /\ pc # "down" /\ crashes < MaxCrashes
  /\ crashes' = crashes + 1
  /\ \/ UNCHANGED walvars
     \/ pc = "write" /\ AppendRecord(Torn)
     \/ MayLosePower /\ PowerLoss /\ UNCHANGED <<current, size, total, millis>>
  /\ dropped' = dropped \cup Range(batch) \cup
                (IF pc = "write" THEN Stored \ Stored' ELSE {})
  /\ pc' = "down" /\ batch' = <<>> /\ written' = 0 /\ draining' = {}
  /\ UNCHANGED <<buffered, received, ingested, failures, ioErrors>>

(* A new process opens the buffer, or does without it if that fails. *)
Restart ==
  /\ pc = "down"
  /\ pc' = "recv"
  /\ Open
  /\ \/ buffered' = TRUE /\ UNCHANGED ioErrors
     \/ buffered' = FALSE /\ IoError
  /\ millis' = millis + 1
  /\ UNCHANGED <<segments, batch, written, draining, received, ingested, dropped,
                 failures, crashes>>

Init ==
  /\ segments = << >> /\ current = {} /\ size = 0 /\ total = 0 /\ millis = 0
  /\ pc = "down" /\ buffered = TRUE /\ batch = <<>> /\ written = 0 /\ draining = {}
  /\ received = 0 /\ ingested = {} /\ dropped = {}
  /\ failures = 0 /\ ioErrors = 0 /\ crashes = 0

Loop ==
  \/ Receive \/ Deadline
  \/ BatchSent \/ BatchFailed
  \/ WriteRecord \/ WriteFails \/ WriteDone
  \/ DrainSent \/ DrainFailed

Next == Loop \/ Crash \/ Restart

Spec == Init /\ [][Next]_vars

(* tokio keeps running the loop, and a dead process is started again. *)
FairSpec == Spec /\ WF_vars(Loop) /\ WF_vars(Restart)

----------------------------------------------------------------------------
Received == 1..received

(* Every event taken from the result queue is in the batch, on disk, with  *)
(* monitoring-service, or given up with a log line (evicted over budget,   *)
(* not written, undecodable) or by the death of the process: no sequence   *)
(* of failed calls, rotations, drains, io errors and restarts loses one    *)
(* silently.                                                               *)
NoSilentLoss ==
  \A e \in Received : e \in Range(batch) \cup Stored \cup ingested \cup dropped

(* total_bytes, which is only ever adjusted, never recounted while the     *)
(* process runs, is the length of the files as long as no file operation   *)
(* failed, and never more than that.                                       *)
Accounting ==
  pc # "down" => /\ total <= Bytes(Names)
                 /\ ioErrors = 0 => total = Bytes(Names)

(* A full segment: it holds a record even if that is longer than the limit. *)
FullSegment == Max({SegmentMax, RecordSize})

(* The files stay within buffer_max_bytes, if that is enough for a full    *)
(* segment and a record more, and no file operation failed.                *)
WithinBudget ==
  BufferMax >= FullSegment + RecordSize /\ ioErrors = 0 => Bytes(Names) <= BufferMax

(* "On recovery they are drained oldest-first" (src/src/wal.rs:4): when a  *)
(* drain has delivered a segment, the events left on disk came later than  *)
(* those it read.                                                          *)
OldestFirst ==
  [][ DrainSent => \A n \in draining :
        \A e \in Range(ReadSegment(n, BatchSize)), f \in Records(Names \ {n}) :
          0 \in {e, f} \/ e < f ]_vars

(* While events keep coming and the service recovers, every event in a     *)
(* completed segment leaves the disk: later failures, writes and evictions *)
(* cannot starve the drain.                                                *)
CompletedDrained ==
  \A e \in 1..MaxEvents : buffered /\ e \in Records(Completed) ~> e \notin Records(Completed) \/ ~buffered

(* "Failed batches are persisted to a WAL buffer on disk and drained on    *)
(* recovery." (src/src/collector.rs:48)                                    *)
DrainedOnRecovery ==
  \A e \in 1..MaxEvents : e \in Stored ~> e \notin Stored

(* "Delete a fully-drained segment file." (src/src/wal.rs:138): a segment  *)
(* is deleted after a drain only when all its events were delivered.       *)
FullyDrained ==
  [][ DrainSent => \A n \in draining \ Names' : Records({n}) \subseteq ingested' ]_vars

(* "Fsync for durability." (src/src/wal.rs:102): a crash leaves every      *)
(* event on disk that is not in the batch being written.                   *)
Durable == [][ Crash => Stored \ Range(batch) \subseteq Stored' ]_vars
=============================================================================
