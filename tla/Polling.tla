------------------------------ MODULE Polling ------------------------------
(***************************************************************************)
(* The dispatch core of server-poller: the map of tracked servers, the     *)
(* schedule of due times, the scheduler loop, the work queue, the worker   *)
(* pool, and the three tasks that reschedule from outside (catalog         *)
(* refresh, trigger file, Redis force-ping).  Source: src/src/collector.rs *)
(* and src/src/sync.rs, with ServerState of src/src/models.rs.             *)
(*                                                                         *)
(* A step ends where the code awaits or releases the `states` mutex, so    *)
(* every interleaving of the tokio tasks between two critical sections is  *)
(* a behaviour.                                                            *)
(*                                                                         *)
(* Abstractions:                                                           *)
(*  - A due time (f64 seconds) is a stamp.  The code only compares the due *)
(*    time of a popped entry with ServerState::next_due for equality, and  *)
(*    a new due time differs from those still outstanding for its server   *)
(*    (a monotonic clock plus a positive interval), hence Fresh.  When an  *)
(*    entry comes due is left open here; module Scheduler models it.       *)
(*  - A server's catalog row is the three facts that steer a dispatch:     *)
(*    plugin_managed, plugin_fallback_mode, and the internal-only host.    *)
(*  - What a poll answers and emits is not observed here.                  *)
(*  - A Redis target is the canonical decimal id of a server.              *)
(***************************************************************************)
EXTENDS Naturals, Sequences, FiniteSets

CONSTANTS
  Servers,        (* ids a catalog page, trigger file or Redis target may name *)
  Workers,        (* the worker tasks: settings.collector.max_concurrency      *)
  WorkCap,        (* capacity of the work queue: max_concurrency * 4           *)
  Stamps,         (* pool of due times; bounds outstanding entries per server  *)
  Profiles,       (* catalog rows the run lets a server have                   *)
  RedisEnabled,   (* settings.redis.enabled: is the force-ping loop spawned?   *)
  TriggerEnabled, (* trigger_file_path is not empty                            *)
  MaxKicks,       (* bound on trigger files and force-ping requests            *)
  MaxRefreshes    (* bound on non-empty catalog refreshes                      *)

ServerProfile == { p \in [managed: BOOLEAN, fallback: BOOLEAN, internal: BOOLEAN] :
                     p.fallback => p.managed }

ASSUME PollingAssumption ==
  /\ WorkCap \in Nat \ {0}
  /\ Profiles \subseteq ServerProfile
  /\ RedisEnabled \in BOOLEAN /\ TriggerEnabled \in BOOLEAN
  /\ MaxKicks \in Nat /\ MaxRefreshes \in Nat

VARIABLES
  states,     (* Arc<Mutex<HashMap<String, ServerState>>>                      *)
  timers,     (* timers[k][s]: schedule entries for server k with due time s   *)
  hand,       (* the entry scheduler_loop holds between two of its awaits      *)
  workq,      (* the mpsc work queue                                           *)
  worker,     (* what each worker task is doing                                *)
  pinger,     (* what the force-ping task is doing                             *)
  kicks,      (* trigger files and force-ping requests so far                  *)
  refreshes,  (* non-empty refreshes so far                                    *)
  orphans,    (* history: servers whose next_due was never given to the schedule *)
  disturbed   (* history: servers rescheduled from outside during a dispatch   *)

vars == <<states, timers, hand, workq, worker, pinger, kicks, refreshes,
          orphans, disturbed>>

ServerState == [stamp: Stamps, profile: ServerProfile]

HandIdle   == [pc |-> "pop"]
WorkerIdle == [pc |-> "idle"]
PingerIdle == [pc |-> "blpop"]

Tracked == DOMAIN states

TypeOK ==
  /\ Tracked \subseteq Servers
  /\ \A k \in Tracked : states[k] \in ServerState
  /\ states = [k \in Tracked |-> states[k]]
  /\ timers \in [Servers -> [Stamps -> Nat]]
  /\ hand \in {HandIdle} \cup [pc: {"check"}, key: Servers, stamp: Stamps]
                         \cup [pc: {"send"}, key: Servers]
  /\ workq \in Seq(Servers) /\ Len(workq) <= WorkCap
  /\ worker \in [Workers -> {WorkerIdle} \cup
                            [pc: {"snapshot", "skip", "poll"}, key: Servers]]
  /\ pinger \in {PingerIdle} \cup [pc: {"fetch"}, key: Servers]
  /\ kicks \in 0..MaxKicks /\ refreshes \in 0..MaxRefreshes
  /\ orphans \subseteq Servers /\ disturbed \subseteq Servers

----------------------------------------------------------------------------
(* Where a dispatch of server k can be. *)

Checking(k) == hand.pc = "check" /\ hand.key = k
Sending(k)  == hand.pc = "send" /\ hand.key = k
Queued(k)   == \E i \in 1..Len(workq) : workq[i] = k
Busy(w, k)  == worker[w].pc # "idle" /\ worker[w].key = k

(* k was accepted by scheduler_loop and its worker has not finished yet. *)
InFlight(k) == Sending(k) \/ Queued(k) \/ \E w \in Workers : Busy(w, k)

(* Due times no outstanding entry of k carries. *)
Fresh(k) == { s \in Stamps :
                /\ timers[k][s] = 0
                /\ k \in Tracked => states[k].stamp # s
                /\ ~(Checking(k) /\ hand.stamp = s) }

(* SchedulerHandle::schedule for every server of K, `copies` entries each. *)
Scheduled(K, stamp, copies) ==
  [k \in Servers |->
     IF k \in K THEN [timers[k] EXCEPT ![stamp[k]] = @ + copies[k]]
                ELSE timers[k]]

Once(K) == [k \in K |-> 1]

(* An outside reschedule of K leaves a second dispatch of every server     *)
(* that is in flight, and repeated entries leave one more.                 *)
Disturb(K, copies) ==
  disturbed' = disturbed \cup { k \in K : InFlight(k) \/ copies[k] > 1 }

----------------------------------------------------------------------------
(* Catalog refresh: one non-empty answer, applied under the mutex.  A      *)
(* server the answer lacks is dropped from the map, its entries are not.   *)

(* The servers of the answer that get a new due time: those not tracked    *)
(* yet, and those whose plugin has just gone stale.                        *)
Rescheduled(row) ==
  { k \in DOMAIN row : \/ k \notin Tracked
                       \/ row[k].fallback /\ ~states[k].profile.fallback }

Refresh ==
  /\ refreshes < MaxRefreshes
  /\ \E F \in (SUBSET Servers) \ {{}} :
     \E row \in [F -> Profiles], stamp \in [F -> Stamps] :
       LET K == Rescheduled(row) IN
       /\ \A k \in F : IF k \in K THEN stamp[k] \in Fresh(k) ELSE stamp[k] = states[k].stamp
       /\ states' = [k \in F |-> [stamp |-> stamp[k], profile |-> row[k]]]
       /\ timers' = Scheduled(K, stamp, Once(K))
       /\ Disturb(K, Once(K))
       /\ orphans' = (orphans \cap F) \ K
  /\ refreshes' = refreshes + 1
  /\ UNCHANGED <<hand, workq, worker, pinger, kicks>>

(* The tail shared by the trigger file and a force ping of a tracked       *)
(* server: next_due = now, then schedule at now, under the mutex.          *)
Kick(K, stamp, copies) ==
  /\ kicks < MaxKicks
  /\ kicks' = kicks + 1
  /\ \A k \in K : stamp[k] \in Fresh(k)
  /\ states' = [k \in Tracked |-> IF k \in K THEN [states[k] EXCEPT !.stamp = stamp[k]]
                                             ELSE states[k]]
  /\ timers' = Scheduled(K, stamp, copies)
  /\ Disturb(K, copies)
  /\ orphans' = orphans \ K
  /\ UNCHANGED <<hand, workq, worker, pinger, refreshes>>

(* A trigger file names all servers or a list of ids; unknown ids are      *)
(* skipped and repeated ids are scheduled again at the same `now` (as often *)
(* as there are requests left).                                            *)
Trigger ==
  /\ TriggerEnabled
  /\ \E K \in (SUBSET Tracked) \ {{}} :
     \E stamp \in [K -> Stamps], copies \in [K -> 1..(MaxKicks - kicks)] :
       Kick(K, stamp, copies)

ForcePingTracked(k) ==
  /\ RedisEnabled
  /\ pinger = PingerIdle
  /\ k \in Tracked
  /\ \E s \in Stamps : Kick({k}, [x \in {k} |-> s], Once({k}))

(* The target is not tracked: the mutex is dropped for the catalog call.   *)
ForcePingUnknown(k) ==
  /\ RedisEnabled
  /\ pinger = PingerIdle
  /\ k \notin Tracked
  /\ kicks < MaxKicks
  /\ kicks' = kicks + 1
  /\ pinger' = [pc |-> "fetch", key |-> k]
  /\ UNCHANGED <<states, timers, hand, workq, worker, refreshes, orphans, disturbed>>

(* The catalog answered: build_state draws next_due in [now, now + spread), *)
(* the entry is scheduled at `now`, and the insert replaces whatever the   *)
(* map holds by then.  The two due times agree only if the draw is 0.0.    *)
ForcePingFetched ==
  /\ pinger.pc = "fetch"
  /\ \E s, drawn \in Fresh(pinger.key), row \in Profiles :
       LET k == pinger.key IN
       /\ states' = [x \in Tracked \cup {k} |->
                       IF x = k THEN [stamp |-> drawn, profile |-> row] ELSE states[x]]
       /\ timers' = Scheduled({k}, [x \in {k} |-> s], Once({k}))
       /\ orphans' = IF drawn = s THEN orphans \ {k} ELSE orphans \cup {k}
       /\ Disturb({k}, Once({k}))
  /\ pinger' = PingerIdle
  /\ UNCHANGED <<hand, workq, worker, kicks, refreshes>>

(* NotFound, or the call failed. *)
ForcePingMissing ==
  /\ pinger.pc = "fetch"
  /\ pinger' = PingerIdle
  /\ UNCHANGED <<states, timers, hand, workq, worker, kicks, refreshes, orphans, disturbed>>

----------------------------------------------------------------------------
(* scheduler_loop *)

(* next_due() hands over an entry that has come due. *)
SchedulerPop(k, s) ==
  /\ hand = HandIdle
  /\ timers[k][s] > 0
  /\ timers' = [timers EXCEPT ![k][s] = @ - 1]
  /\ hand' = [pc |-> "check", key |-> k, stamp |-> s]
  /\ UNCHANGED <<states, workq, worker, pinger, kicks, refreshes, orphans, disturbed>>

(* Mutated form: any entry of a tracked server is accepted. *)
MutIsTracked(k, s) == k \in Tracked

IsCurrent(k, s) == k \in Tracked /\ states[k].stamp = s

(* Under the mutex: the server is still tracked and its due time matches.  *)
SchedulerCheck ==
  /\ hand.pc = "check"
  /\ hand' = IF IsCurrent(hand.key, hand.stamp)
               THEN [pc |-> "send", key |-> hand.key] ELSE HandIdle
  /\ UNCHANGED <<states, timers, workq, worker, pinger, kicks, refreshes, orphans, disturbed>>

(* Mutated forms of SchedulerSend: an unbounded queue, and a try_send that *)
(* loses the key when the queue is full.                                   *)
MutSendUnbounded ==
  /\ hand.pc = "send"
  /\ workq' = Append(workq, hand.key)
  /\ hand' = HandIdle
  /\ UNCHANGED <<states, timers, worker, pinger, kicks, refreshes, orphans, disturbed>>

MutTrySend ==
  /\ hand.pc = "send"
  /\ workq' = IF Len(workq) < WorkCap THEN Append(workq, hand.key) ELSE workq
  /\ hand' = HandIdle
  /\ UNCHANGED <<states, timers, worker, pinger, kicks, refreshes, orphans, disturbed>>

(* work_tx.send waits for room in the queue. *)
SchedulerSend ==
  /\ hand.pc = "send"
  /\ Len(workq) < WorkCap
  /\ workq' = Append(workq, hand.key)
  /\ hand' = HandIdle
  /\ UNCHANGED <<states, timers, worker, pinger, kicks, refreshes, orphans, disturbed>>

----------------------------------------------------------------------------
(* A worker task: receive, snapshot the state, poll, update the state.     *)

WorkerReceive(w) ==
  /\ worker[w] = WorkerIdle
  /\ workq # <<>>
  /\ worker' = [worker EXCEPT ![w] = [pc |-> "snapshot", key |-> Head(workq)]]
  /\ workq' = Tail(workq)
  /\ UNCHANGED <<states, timers, hand, pinger, kicks, refreshes, orphans, disturbed>>

(* Mutated form: an internal-only host is skipped without a new due time. *)
MutSkipForgets(w) ==
  /\ worker[w].pc = "snapshot"
  /\ LET k == worker[w].key IN
     worker' = [worker EXCEPT ![w] =
       IF k \notin Tracked \/ (states[k].profile.managed /\ states[k].profile.internal)
         THEN WorkerIdle ELSE [pc |-> "poll", key |-> k]]
  /\ UNCHANGED <<states, timers, hand, workq, pinger, kicks, refreshes, orphans, disturbed>>

(* The snapshot is taken under the mutex and used after it is released. *)
WorkerSnapshot(w) ==
  /\ worker[w].pc = "snapshot"
  /\ LET k == worker[w].key IN
     worker' = [worker EXCEPT ![w] =
       IF k \notin Tracked THEN WorkerIdle
       ELSE [pc  |-> IF states[k].profile.managed /\ states[k].profile.internal
                       THEN "skip" ELSE "poll",
             key |-> k]]
  /\ UNCHANGED <<states, timers, hand, workq, pinger, kicks, refreshes, orphans, disturbed>>

(* The poll (or the skip of an internal-only host) is over and the mutex   *)
(* is taken again: a server that is gone is forgotten, any other gets its  *)
(* next due time, whatever happened to its state meanwhile.                *)
WorkerFinish(w) ==
  /\ worker[w].pc \in {"skip", "poll"}
  /\ worker' = [worker EXCEPT ![w] = WorkerIdle]
  /\ LET k == worker[w].key IN
     \/ /\ k \notin Tracked
        /\ UNCHANGED <<states, timers, orphans, disturbed>>
     \/ /\ k \in Tracked
        /\ \E s \in Fresh(k) :
             /\ states' = [states EXCEPT ![k].stamp = s]
             /\ timers' = Scheduled({k}, [x \in {k} |-> s], Once({k}))
        /\ orphans' = orphans \ {k}
        /\ disturbed' = IF Sending(k) \/ Queued(k) \/ \E v \in Workers \ {w} : Busy(v, k)
                          THEN disturbed ELSE disturbed \ {k}
  /\ UNCHANGED <<hand, workq, pinger, kicks, refreshes>>

----------------------------------------------------------------------------
Init ==
  /\ states = << >>
  /\ timers = [k \in Servers |-> [s \in Stamps |-> 0]]
  /\ hand = HandIdle
  /\ workq = <<>>
  /\ worker = [w \in Workers |-> WorkerIdle]
  /\ pinger = PingerIdle
  /\ kicks = 0 /\ refreshes = 0
  /\ orphans = {} /\ disturbed = {}

ForcePing ==
  \/ \E k \in Servers : ForcePingTracked(k) \/ ForcePingUnknown(k)
  \/ ForcePingFetched
  \/ ForcePingMissing

SchedulerLoop ==
  \/ \E k \in Servers, s \in Stamps : SchedulerPop(k, s)
  \/ SchedulerCheck
  \/ SchedulerSend

WorkerLoop(w) == WorkerReceive(w) \/ WorkerSnapshot(w) \/ WorkerFinish(w)

Next ==
  \/ Refresh
  \/ Trigger
  \/ ForcePing
  \/ SchedulerLoop
  \/ \E w \in Workers : WorkerLoop(w)

Spec == Init /\ [][Next]_vars

(* Every task tokio runs keeps running: while k has an outstanding entry,  *)
(* one comes due and is popped (time passes and the heap is ordered by due *)
(* time), and the loop and the workers take their steps.  Nothing is      *)
(* assumed of the catalog, the trigger file or Redis.                      *)
Fairness ==
  /\ \A k \in Servers : SF_vars(\E s \in Stamps : SchedulerPop(k, s))
  /\ WF_vars(SchedulerCheck \/ SchedulerSend)
  /\ \A w \in Workers : WF_vars(WorkerLoop(w))

FairSpec == Spec /\ Fairness

----------------------------------------------------------------------------
(* A chain of dispatches for k is alive: an entry with the current due     *)
(* time is outstanding, or a dispatch is under way that will set the next. *)
Covered(k) ==
  \/ timers[k][states[k].stamp] > 0
  \/ Checking(k) /\ hand.stamp = states[k].stamp
  \/ InFlight(k)

(* No tracked server is ever left without a future poll, whatever the      *)
(* refresh, trigger and worker critical sections do to its due time; the   *)
(* servers a force ping fetched from the catalog are left aside (see       *)
(* AllCovered).  scheduler_loop drops every entry whose due time is stale, *)
(* so one update of next_due without a schedule loses the server.          *)
Coverage == \A k \in Tracked \ orphans : Covered(k)

(* The log line of redis_force_ping_loop, "Force ping: fetched and         *)
(* scheduled {target}" (src/src/sync.rs:414), read as a property: every    *)
(* tracked server has a schedule entry that scheduler_loop will accept.    *)
AllCovered == \A k \in Tracked : Covered(k)

(* How many chains of dispatches server k has. *)
Chains(k) ==
  (IF k \in Tracked THEN timers[k][states[k].stamp] ELSE 0)
  + (IF Checking(k) /\ IsCurrent(k, hand.stamp) THEN 1 ELSE 0)
  + (IF Sending(k) THEN 1 ELSE 0)
  + Cardinality({ i \in 1..Len(workq) : workq[i] = k })
  + Cardinality({ w \in Workers : Busy(w, k) })

(* A server has one chain of dispatches, so two workers poll it at once    *)
(* only if a refresh, a trigger or a force ping rescheduled it while a     *)
(* dispatch was in flight; and as soon as the overlapping polls have all   *)
(* finished, only one chain is left (the others' entries are stale).       *)
SingleFlight == \A k \in Servers \ disturbed : Chains(k) <= 1

Polling(k) == \E w \in Workers : worker[w].pc \in {"skip", "poll"} /\ worker[w].key = k

(* Every server that stays tracked is polled again and again: entries that *)
(* go stale, a full work queue and busy workers only delay it.             *)
KeepsPolling ==
  \A k \in Servers : []<>(Polling(k) \/ k \notin Tracked \/ k \in orphans)
=============================================================================
