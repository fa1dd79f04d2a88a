--------------------------- MODULE PollingProofs ---------------------------
(***************************************************************************)
(* Theorems about Polling: type correctness, that no tracked server is     *)
(* left without a future poll, and that no undisturbed one is polled twice *)
(* at once, for any number of servers, workers and due times, any queue    *)
(* capacity and any bound on the outside events.                           *)
(***************************************************************************)
EXTENDS Polling, FiniteSetTheorems, TLAPS

(* Scheduling the servers of K adds copies[k] entries at stamp[k] and      *)
(* leaves every other count alone.                                         *)
LEMMA ScheduledCounts ==
  ASSUME TypeOK, NEW K \in SUBSET Servers, NEW stamp, NEW copies,
         \A k \in K : stamp[k] \in Stamps /\ copies[k] \in Nat
  PROVE  /\ Scheduled(K, stamp, copies) \in [Servers -> [Stamps -> Nat]]
         /\ \A k \in Servers, s \in Stamps :
              Scheduled(K, stamp, copies)[k][s] =
                IF k \in K /\ s = stamp[k] THEN timers[k][s] + copies[k]
                                           ELSE timers[k][s]
<1>1. timers \in [Servers -> [Stamps -> Nat]]
  BY DEF TypeOK
<1>2. ASSUME NEW k \in Servers
      PROVE  /\ Scheduled(K, stamp, copies)[k] \in [Stamps -> Nat]
             /\ \A s \in Stamps : Scheduled(K, stamp, copies)[k][s] =
                  IF k \in K /\ s = stamp[k] THEN timers[k][s] + copies[k]
                                             ELSE timers[k][s]
  <2>1. timers[k] \in [Stamps -> Nat]
    BY <1>1
  <2>2. CASE k \in K
    <3>1. stamp[k] \in Stamps /\ copies[k] \in Nat
      BY <2>2
    <3>2. Scheduled(K, stamp, copies)[k]
            = [timers[k] EXCEPT ![stamp[k]] = @ + copies[k]]
      BY <2>2 DEF Scheduled
    <3> QED
      BY <2>1, <2>2, <3>1, <3>2
  <2>3. CASE k \notin K
    <3>1. Scheduled(K, stamp, copies)[k] = timers[k]
      BY <2>3 DEF Scheduled
    <3> QED
      BY <2>1, <2>3, <3>1
  <2> QED
    BY <2>2, <2>3
<1>3. Scheduled(K, stamp, copies) = [k \in Servers |-> Scheduled(K, stamp, copies)[k]]
  BY DEF Scheduled
<1> QED
  BY <1>2, <1>3

(* The same for one entry per server. *)
LEMMA ScheduledOnce ==
  ASSUME TypeOK, NEW K \in SUBSET Servers, NEW stamp,
         \A k \in K : stamp[k] \in Stamps
  PROVE  /\ Scheduled(K, stamp, Once(K)) \in [Servers -> [Stamps -> Nat]]
         /\ \A k \in Servers, s \in Stamps :
              Scheduled(K, stamp, Once(K))[k][s] =
                IF k \in K /\ s = stamp[k] THEN timers[k][s] + 1 ELSE timers[k][s]
<1>1. \A k \in K : Once(K)[k] = 1
  BY DEF Once
<1>2. \A k \in K : stamp[k] \in Stamps /\ Once(K)[k] \in Nat
  BY <1>1
<1> DEFINE T == Scheduled(K, stamp, Once(K))
<1>3. /\ T \in [Servers -> [Stamps -> Nat]]
      /\ \A k \in Servers, s \in Stamps :
           T[k][s] = IF k \in K /\ s = stamp[k] THEN timers[k][s] + Once(K)[k]
                                                ELSE timers[k][s]
  BY <1>2, ScheduledCounts
<1> QED
  BY <1>1, <1>3

----------------------------------------------------------------------------
(* Type correctness. *)

LEMMA FreshIsStamp == ASSUME NEW k PROVE Fresh(k) \subseteq Stamps
  BY DEF Fresh

(* The tail the trigger file and the force ping share.                     *)
LEMMA KickType ==
  ASSUME TypeOK, NEW K \in SUBSET Tracked, NEW stamp, NEW copies,
         \A k \in K : copies[k] \in Nat,
         Kick(K, stamp, copies)
  PROVE  TypeOK'
<1>1. \A k \in K : stamp[k] \in Stamps
  BY FreshIsStamp DEF Kick
<1>2. K \subseteq Servers
  BY DEF TypeOK
<1>3. timers' \in [Servers -> [Stamps -> Nat]]
  BY <1>1, <1>2, ScheduledCounts DEF Kick
<1>4. Tracked' = Tracked /\ states' = [k \in Tracked |-> states'[k]]
  BY DEF Kick, Tracked
<1>5. \A k \in Tracked : states'[k] \in ServerState
  <2>1. \A k \in Tracked : states[k] \in ServerState
    BY DEF TypeOK
  <2>2. \A k \in Tracked : states'[k] = IF k \in K THEN [states[k] EXCEPT !.stamp = stamp[k]]
                                                  ELSE states[k]
    BY DEF Kick
  <2> QED
    BY <1>1, <2>1, <2>2 DEF ServerState
<1>6. kicks' \in 0..MaxKicks
  BY PollingAssumption DEF Kick, TypeOK
<1>7. orphans' \subseteq Servers /\ disturbed' \subseteq Servers
  BY <1>2 DEF Kick, Disturb, TypeOK
<1> QED
  BY <1>3, <1>4, <1>5, <1>6, <1>7 DEF Kick, TypeOK

(* A refresh gives the servers it reschedules a stamp.                     *)
LEMMA RefreshType == ASSUME TypeOK, Refresh PROVE TypeOK'
<1> DEFINE A(row, stamp) ==
      /\ states' = [k \in DOMAIN row |-> [stamp |-> stamp[k], profile |-> row[k]]]
      /\ timers' = Scheduled(Rescheduled(row), stamp, Once(Rescheduled(row)))
      /\ Disturb(Rescheduled(row), Once(Rescheduled(row)))
      /\ orphans' = (orphans \cap DOMAIN row) \ Rescheduled(row)
<1>0. PICK F \in (SUBSET Servers) \ {{}} :
        \E row \in [F -> Profiles], stamp \in [F -> Stamps] : A(row, stamp)
  BY DEF Refresh
<1>1. PICK row \in [F -> Profiles], stamp \in [F -> Stamps] : A(row, stamp)
  BY <1>0
<1>2. timers' \in [Servers -> [Stamps -> Nat]]
  <2>1. Rescheduled(row) \subseteq F
    BY DEF Rescheduled
  <2> QED
    BY <1>1, <2>1, ScheduledOnce
<1>3. /\ Tracked' = F
      /\ \A k \in F : states'[k] \in ServerState
      /\ states' = [k \in F |-> states'[k]]
  BY <1>1, PollingAssumption DEF ServerState, Tracked
<1>4. refreshes' \in 0..MaxRefreshes
  BY PollingAssumption DEF Refresh, TypeOK
<1>5. orphans' \subseteq Servers /\ disturbed' \subseteq Servers
  BY <1>1 DEF Disturb, Rescheduled, TypeOK
<1> QED
  BY <1>2, <1>3, <1>4, <1>5 DEF Refresh, TypeOK

LEMMA FetchedType == ASSUME TypeOK, ForcePingFetched PROVE TypeOK'
<1> DEFINE k == pinger.key
<1>1. k \in Servers
  BY DEF ForcePingFetched, TypeOK, PingerIdle
<1>2. PICK s \in Fresh(k), drawn \in Fresh(k), row \in Profiles :
        /\ states' = [x \in Tracked \cup {k} |->
                         IF x = k THEN [stamp |-> drawn, profile |-> row] ELSE states[x]]
        /\ timers' = Scheduled({k}, [x \in {k} |-> s], Once({k}))
        /\ orphans' = IF drawn = s THEN orphans \ {k} ELSE orphans \cup {k}
        /\ Disturb({k}, Once({k}))
  BY DEF ForcePingFetched
<1>3. s \in Stamps /\ drawn \in Stamps
  BY <1>2, FreshIsStamp
<1>4. timers' \in [Servers -> [Stamps -> Nat]]
  BY <1>1, <1>2, <1>3, ScheduledOnce
<1>5. /\ Tracked' = Tracked \cup {k}
      /\ \A x \in Tracked' : states'[x] \in ServerState
      /\ states' = [x \in Tracked' |-> states'[x]]
  <2>1. row \in ServerProfile
    BY PollingAssumption
  <2>2. [stamp |-> drawn, profile |-> row] \in ServerState
    BY <1>3, <2>1 DEF ServerState
  <2>3. Tracked' = Tracked \cup {k}
    BY <1>2 DEF Tracked
  <2>4. \A x \in Tracked : states[x] \in ServerState
    BY DEF TypeOK
  <2> QED
    BY <1>2, <2>2, <2>3, <2>4
<1>6. orphans' \subseteq Servers /\ disturbed' \subseteq Servers
  BY <1>1, <1>2 DEF Disturb, TypeOK
<1> QED
  BY <1>1, <1>4, <1>5, <1>6 DEF ForcePingFetched, TypeOK, Tracked

LEMMA SchedulerType == ASSUME TypeOK, SchedulerLoop PROVE TypeOK'
<1>1. CASE \E k \in Servers, s \in Stamps : SchedulerPop(k, s)
  <2>1. PICK k \in Servers, s \in Stamps : SchedulerPop(k, s)
    BY <1>1
  <2>2. timers' \in [Servers -> [Stamps -> Nat]]
    <3>1. timers[k] \in [Stamps -> Nat] /\ timers[k][s] \in Nat /\ timers[k][s] > 0
      BY <2>1 DEF SchedulerPop, TypeOK
    <3>2. timers[k][s] - 1 \in Nat
      BY <3>1
    <3> QED
      BY <2>1, <3>1, <3>2 DEF SchedulerPop, TypeOK
  <2>3. hand' \in [pc: {"check"}, key: Servers, stamp: Stamps]
    BY <2>1 DEF SchedulerPop
  <2> QED
    BY <2>1, <2>2, <2>3 DEF SchedulerPop, TypeOK, Tracked
<1>2. CASE SchedulerCheck
  <2>1. hand.key \in Servers
    BY <1>2 DEF SchedulerCheck, TypeOK, HandIdle
  <2>2. hand' \in {HandIdle} \cup [pc: {"send"}, key: Servers]
    BY <1>2, <2>1 DEF SchedulerCheck
  <2> QED
    BY <1>2, <2>2 DEF SchedulerCheck, TypeOK, Tracked
<1>3. CASE SchedulerSend
  <2>1. hand.key \in Servers
    BY <1>3 DEF SchedulerSend, TypeOK, HandIdle
  <2>2. workq' \in Seq(Servers) /\ Len(workq') <= WorkCap
    BY <1>3, <2>1, PollingAssumption DEF SchedulerSend, TypeOK
  <2> QED
    BY <1>3, <2>2 DEF SchedulerSend, TypeOK, Tracked
<1> QED
  BY <1>1, <1>2, <1>3 DEF SchedulerLoop

LEMMA WorkerType == ASSUME TypeOK, NEW w \in Workers, WorkerLoop(w) PROVE TypeOK'
<1> DEFINE Task == {WorkerIdle} \cup [pc: {"snapshot", "skip", "poll"}, key: Servers]
<1>0. worker \in [Workers -> Task]
  BY DEF TypeOK
<1>1. CASE WorkerReceive(w)
  <2>1. /\ Head(workq) \in Servers
        /\ Tail(workq) \in Seq(Servers) /\ Len(Tail(workq)) <= WorkCap
    BY <1>1, PollingAssumption DEF WorkerReceive, TypeOK
  <2>2. worker' \in [Workers -> Task]
    BY <1>0, <1>1, <2>1 DEF WorkerReceive
  <2> QED
    BY <1>1, <2>1, <2>2 DEF WorkerReceive, TypeOK, Tracked
<1>2. CASE WorkerSnapshot(w)
  <2>1. worker[w].key \in Servers
    BY <1>0, <1>2 DEF WorkerSnapshot, WorkerIdle
  <2>2. worker' \in [Workers -> Task]
    BY <1>0, <1>2, <2>1 DEF WorkerSnapshot
  <2> QED
    BY <1>2, <2>2 DEF WorkerSnapshot, TypeOK, Tracked
<1>3. CASE WorkerFinish(w)
  <2> DEFINE k == worker[w].key
  <2>1. k \in Servers
    BY <1>0, <1>3 DEF WorkerFinish, WorkerIdle
  <2>2. worker' \in [Workers -> Task]
    BY <1>0, <1>3 DEF WorkerFinish
  <2>3. CASE k \notin Tracked
    BY <1>3, <2>2, <2>3 DEF WorkerFinish, TypeOK, Tracked
  <2>4. CASE k \in Tracked
    <3>1. PICK s \in Fresh(k) :
            /\ states' = [states EXCEPT ![k].stamp = s]
            /\ timers' = Scheduled({k}, [x \in {k} |-> s], Once({k}))
      BY <1>3, <2>4 DEF WorkerFinish
    <3>2. s \in Stamps
      BY <3>1, FreshIsStamp
    <3>3. timers' \in [Servers -> [Stamps -> Nat]]
      BY <2>1, <3>1, <3>2, ScheduledOnce
    <3>4. /\ Tracked' = Tracked
          /\ \A x \in Tracked' : states'[x] \in ServerState
          /\ states' = [x \in Tracked' |-> states'[x]]
      BY <2>4, <3>1, <3>2 DEF TypeOK, Tracked, ServerState
    <3>5. orphans' \subseteq Servers /\ disturbed' \subseteq Servers
      BY <1>3, <2>4 DEF WorkerFinish, TypeOK
    <3> QED
      BY <1>3, <2>2, <3>3, <3>4, <3>5 DEF WorkerFinish, TypeOK
  <2> QED
    BY <2>3, <2>4
<1> QED
  BY <1>1, <1>2, <1>3 DEF WorkerLoop

(* Every step keeps the types.                                             *)
LEMMA TypeStep == TypeOK /\ [Next]_vars => TypeOK'
<1> SUFFICES ASSUME TypeOK, [Next]_vars PROVE TypeOK'
  OBVIOUS
<1>1. CASE Refresh
  BY <1>1, RefreshType
<1>2. CASE Trigger
  <2>1. PICK K \in (SUBSET Tracked) \ {{}} :
          \E stamp \in [K -> Stamps], copies \in [K -> 1..(MaxKicks - kicks)] :
            Kick(K, stamp, copies)
    BY <1>2 DEF Trigger
  <2>2. PICK stamp \in [K -> Stamps], copies \in [K -> 1..(MaxKicks - kicks)] : Kick(K, stamp, copies)
    BY <2>1
  <2>3. \A k \in K : copies[k] \in Nat
    BY PollingAssumption
  <2> QED
    BY <2>2, <2>3, KickType
<1>3. CASE ForcePing
  <2>1. ASSUME NEW k \in Servers, ForcePingTracked(k) PROVE TypeOK'
    <3>1. PICK s \in Stamps : Kick({k}, [x \in {k} |-> s], Once({k}))
      BY <2>1 DEF ForcePingTracked
    <3>2. {k} \in SUBSET Tracked /\ \A x \in {k} : Once({k})[x] \in Nat
      BY <2>1 DEF ForcePingTracked, Once
    <3> QED
      BY <3>1, <3>2, KickType
  <2>2. ASSUME NEW k \in Servers, ForcePingUnknown(k) PROVE TypeOK'
    BY <2>2, PollingAssumption DEF ForcePingUnknown, TypeOK, Tracked
  <2>3. CASE ForcePingFetched
    BY <2>3, FetchedType
  <2>4. CASE ForcePingMissing
    BY <2>4 DEF ForcePingMissing, TypeOK, Tracked
  <2> QED
    BY <1>3, <2>1, <2>2, <2>3, <2>4 DEF ForcePing
<1>4. CASE SchedulerLoop
  BY <1>4, SchedulerType
<1>5. CASE \E w \in Workers : WorkerLoop(w)
  BY <1>5, WorkerType
<1>6. CASE UNCHANGED vars
  BY <1>6 DEF vars, TypeOK, Tracked
<1> QED
  BY <1>1, <1>2, <1>3, <1>4, <1>5, <1>6 DEF Next

(* Every task keeps the shared map, the schedule and the queues well       *)
(* formed; in particular the work queue never exceeds its capacity.        *)
THEOREM TypeCorrect == Spec => []TypeOK
<1>1. Init => TypeOK
  <2> SUFFICES ASSUME Init PROVE TypeOK
    OBVIOUS
  <2>1. Tracked = {} /\ states = [k \in Tracked |-> states[k]]
    BY DEF Init, Tracked
  <2>2. kicks \in 0..MaxKicks /\ refreshes \in 0..MaxRefreshes
    BY PollingAssumption DEF Init
  <2>3. timers \in [Servers -> [Stamps -> Nat]]
    BY DEF Init
  <2>4. workq \in Seq(Servers) /\ Len(workq) <= WorkCap
    BY PollingAssumption DEF Init
  <2> QED
    BY <2>1, <2>2, <2>3, <2>4 DEF Init, TypeOK
<1> QED
  BY <1>1, TypeStep, PTL DEF Spec

----------------------------------------------------------------------------
(* Coverage is inductive together with TypeOK.  Every action that gives a  *)
(* server a new due time also schedules it there; every other action hands *)
(* the server's chain of dispatches on to its next place.                  *)

(* A server of K is covered by its new entry, any other one by what        *)
(* covered it before.                                                      *)
LEMMA RestampedCovered ==
  ASSUME TypeOK, Coverage, NEW K \in SUBSET Servers, NEW stamp,
         \A x \in K : stamp[x] \in Stamps,
         timers' = Scheduled(K, stamp, Once(K)), hand' = hand,
         NEW k \in Servers, k \in Tracked',
         k \in K => states'[k].stamp = stamp[k],
         k \notin K => /\ k \in Tracked \ orphans
                      /\ states'[k].stamp = states[k].stamp
                      /\ (InFlight(k) => InFlight(k)')
  PROVE  Covered(k)'
<1>0. \A x \in Servers, s \in Stamps :
        timers'[x][s] = IF x \in K /\ s = stamp[x] THEN timers[x][s] + 1 ELSE timers[x][s]
  BY ScheduledOnce
<1>1. CASE k \in K
  <2>1. timers'[k][stamp[k]] = timers[k][stamp[k]] + 1
    BY <1>0, <1>1
  <2>2. timers[k][stamp[k]] \in Nat
    BY <1>1 DEF TypeOK
  <2> QED
    BY <1>1, <2>1, <2>2 DEF Covered
<1>2. CASE k \notin K
  <2>1. states[k].stamp \in Stamps
    BY <1>2 DEF TypeOK, ServerState
  <2>2. timers'[k][states[k].stamp] = timers[k][states[k].stamp]
    BY <1>0, <1>2, <2>1
  <2>3. Covered(k)
    BY <1>2 DEF Coverage
  <2> QED
    BY <1>2, <2>2, <2>3 DEF Covered, Checking
<1> QED
  BY <1>1, <1>2

(* The trigger file and the force ping schedule what they give a stamp.    *)
LEMMA KickCovered ==
  ASSUME TypeOK, Coverage, NEW K \in SUBSET Tracked, NEW stamp, NEW copies,
         \A k \in K : copies[k] \in Nat \ {0},
         Kick(K, stamp, copies)
  PROVE  Coverage'
<1> SUFFICES ASSUME NEW k \in Tracked' \ orphans' PROVE Covered(k)'
  BY DEF Coverage
<1>1. /\ \A x \in K : stamp[x] \in Stamps
      /\ K \subseteq Servers
      /\ Tracked' = Tracked
      /\ k \in Servers
  BY FreshIsStamp DEF Kick, TypeOK, Tracked
<1>2. \A x \in Servers, s \in Stamps :
        timers'[x][s] = IF x \in K /\ s = stamp[x] THEN timers[x][s] + copies[x]
                                                  ELSE timers[x][s]
  <2>1. timers' = Scheduled(K, stamp, copies)
    BY DEF Kick
  <2>2. \A x \in K : stamp[x] \in Stamps /\ copies[x] \in Nat
    BY <1>1
  <2> QED
    BY <1>1, <2>1, <2>2, ScheduledCounts
<1>3. CASE k \in K
  <2>1. states'[k].stamp = stamp[k]
    BY <1>1, <1>3 DEF Kick, TypeOK, ServerState
  <2>2. timers[k][stamp[k]] \in Nat /\ copies[k] \in Nat \ {0}
    BY <1>1, <1>3 DEF TypeOK
  <2>3. timers'[k][stamp[k]] = timers[k][stamp[k]] + copies[k]
    BY <1>1, <1>2, <1>3
  <2> QED
    BY <2>1, <2>2, <2>3 DEF Covered
<1>4. CASE k \notin K
  <2>1. states'[k] = states[k] /\ states[k].stamp \in Stamps
    BY <1>1, <1>4 DEF Kick, TypeOK, ServerState
  <2>2. Covered(k)
    BY <1>1, <1>4 DEF Coverage, Kick
  <2>3. hand' = hand /\ (InFlight(k) => InFlight(k)')
    BY DEF Kick, InFlight, Sending, Queued, Busy
  <2> QED
    BY <1>1, <1>2, <1>4, <2>1, <2>2, <2>3 DEF Covered, Checking
<1> QED
  BY <1>3, <1>4

(* So does a refresh; the servers it leaves alone stay covered.            *)
LEMMA RefreshCovered == ASSUME TypeOK, Coverage, Refresh PROVE Coverage'
<1> SUFFICES ASSUME NEW k \in Tracked' \ orphans' PROVE Covered(k)'
  BY DEF Coverage
<1> DEFINE A(row, stamp) ==
      /\ \A x \in DOMAIN row : IF x \in Rescheduled(row) THEN stamp[x] \in Fresh(x)
                                                         ELSE stamp[x] = states[x].stamp
      /\ states' = [x \in DOMAIN row |-> [stamp |-> stamp[x], profile |-> row[x]]]
      /\ timers' = Scheduled(Rescheduled(row), stamp, Once(Rescheduled(row)))
      /\ orphans' = (orphans \cap DOMAIN row) \ Rescheduled(row)
<1>0. PICK F \in (SUBSET Servers) \ {{}} :
        \E row \in [F -> Profiles], stamp \in [F -> Stamps] : A(row, stamp)
  BY DEF Refresh
<1>1. PICK row \in [F -> Profiles], stamp \in [F -> Stamps] : A(row, stamp)
  BY <1>0
<1> DEFINE K == Rescheduled(row)
<1>2. K \subseteq F /\ F \ K \subseteq Tracked
  BY DEF Rescheduled
<1>3. /\ Tracked' = F
      /\ states'[k].stamp = stamp[k]
      /\ k \in Servers
  BY <1>1 DEF Tracked
<1>4. k \notin K => k \in Tracked \ orphans /\ stamp[k] = states[k].stamp
  BY <1>1, <1>2, <1>3
<1>5. hand' = hand /\ (InFlight(k) => InFlight(k)')
  BY DEF Refresh, InFlight, Sending, Queued, Busy
<1>6. \A x \in K : stamp[x] \in Stamps
  BY <1>2
<1>7. timers' = Scheduled(K, stamp, Once(K))
  BY <1>1
<1> HIDE DEF K, A
<1> QED
  BY <1>2, <1>3, <1>4, <1>5, <1>6, <1>7, RestampedCovered

(* A force ping that inserts a server leaves it uncovered: an orphan.      *)
LEMMA FetchedCovered == ASSUME TypeOK, Coverage, ForcePingFetched PROVE Coverage'
<1> SUFFICES ASSUME NEW x \in Tracked' \ orphans' PROVE Covered(x)'
  BY DEF Coverage
<1> DEFINE k == pinger.key
<1>1. k \in Servers
  BY DEF ForcePingFetched, TypeOK, PingerIdle
<1>2. PICK s \in Fresh(k), drawn \in Fresh(k), row \in Profiles :
        /\ states' = [y \in Tracked \cup {k} |->
                         IF y = k THEN [stamp |-> drawn, profile |-> row] ELSE states[y]]
        /\ timers' = Scheduled({k}, [y \in {k} |-> s], Once({k}))
        /\ orphans' = IF drawn = s THEN orphans \ {k} ELSE orphans \cup {k}
  BY DEF ForcePingFetched
<1>3. Tracked' = Tracked \cup {k}
  BY <1>2 DEF Tracked
<1>4. x \in Servers
  BY <1>1, <1>3 DEF TypeOK
<1>5. x \in {k} => states'[x].stamp = [y \in {k} |-> s][x]
  BY <1>2, <1>3
<1>6. x \notin {k} => x \in Tracked \ orphans /\ states'[x].stamp = states[x].stamp
  BY <1>2, <1>3
<1>7. hand' = hand /\ (InFlight(x) => InFlight(x)')
  BY DEF ForcePingFetched, InFlight, Sending, Queued, Busy
<1>8. \A y \in {k} : [z \in {k} |-> s][y] \in Stamps
  BY <1>2, FreshIsStamp
<1> HIDE DEF k
<1> QED
  BY <1>1, <1>2, <1>4, <1>5, <1>6, <1>7, <1>8, RestampedCovered

(* An entry that is popped is in hand; if it is dropped it was stale.      *)
LEMMA SchedulerCovered == ASSUME TypeOK, Coverage, SchedulerLoop PROVE Coverage'
<1> SUFFICES ASSUME NEW x \in Tracked \ orphans PROVE Covered(x)'
  BY DEF Coverage, SchedulerLoop, SchedulerPop, SchedulerCheck, SchedulerSend, Tracked
<1>0. x \in Servers /\ states[x].stamp \in Stamps /\ Covered(x)
  BY DEF TypeOK, Coverage, ServerState
<1>1. CASE \E k \in Servers, s \in Stamps : SchedulerPop(k, s)
  <2>1. PICK k \in Servers, s \in Stamps : SchedulerPop(k, s)
    BY <1>1
  <2>2. states' = states /\ workq' = workq /\ worker' = worker /\ hand = HandIdle
    BY <2>1 DEF SchedulerPop
  <2>3. InFlight(x) => InFlight(x)'
    BY <2>2 DEF InFlight, Sending, Queued, Busy, HandIdle
  <2>4. ~Checking(x)
    BY <2>2 DEF Checking, HandIdle
  <2>5. CASE x = k /\ states[x].stamp = s
    BY <2>1, <2>2, <2>5 DEF Covered, Checking, SchedulerPop
  <2>6. CASE ~(x = k /\ states[x].stamp = s)
    <3>1. timers'[x][states[x].stamp] = timers[x][states[x].stamp]
      BY <1>0, <2>1, <2>6 DEF SchedulerPop, TypeOK
    <3> QED
      BY <1>0, <2>2, <2>3, <2>4, <3>1 DEF Covered
  <2> QED
    BY <2>5, <2>6
<1>2. CASE SchedulerCheck
  <2>1. /\ states' = states /\ timers' = timers
        /\ workq' = workq /\ worker' = worker /\ hand.pc = "check"
    BY <1>2 DEF SchedulerCheck
  <2>2. InFlight(x) => InFlight(x)'
    BY <2>1 DEF InFlight, Sending, Queued, Busy
  <2>3. Checking(x) /\ hand.stamp = states[x].stamp => Sending(x)'
    BY <1>2 DEF SchedulerCheck, Checking, IsCurrent, Sending
  <2> QED
    BY <1>0, <2>1, <2>2, <2>3 DEF Covered, InFlight
<1>3. CASE SchedulerSend
  <2>1. states' = states /\ timers' = timers /\ worker' = worker /\ hand.pc = "send"
    BY <1>3 DEF SchedulerSend
  <2>2. /\ workq \in Seq(Servers) /\ hand.key \in Servers
        /\ workq' = Append(workq, hand.key)
    BY <1>3 DEF SchedulerSend, TypeOK, HandIdle
  <2>3. Len(workq') = Len(workq) + 1 /\ workq'[Len(workq) + 1] = hand.key
        /\ \A i \in 1..Len(workq) : workq'[i] = workq[i]
    BY <2>2
  <2>4. Len(workq) \in Nat
    BY <2>2
  <2>5. Sending(x) \/ Queued(x) => Queued(x)'
    BY <2>3, <2>4 DEF Sending, Queued
  <2>6. InFlight(x) => InFlight(x)'
    BY <2>1, <2>5 DEF InFlight, Busy
  <2> QED
    BY <1>0, <2>1, <2>6 DEF Covered, Checking
<1> QED
  BY <1>1, <1>2, <1>3 DEF SchedulerLoop

(* The worker that finishes a poll schedules the next one.                 *)
LEMMA WorkerCovered ==
  ASSUME TypeOK, Coverage, NEW w \in Workers, WorkerLoop(w) PROVE Coverage'
<1> SUFFICES ASSUME NEW x \in Tracked' \ orphans' PROVE Covered(x)'
  BY DEF Coverage
<1>0. worker \in [Workers -> {WorkerIdle} \cup
                             [pc: {"snapshot", "skip", "poll"}, key: Servers]]
  BY DEF TypeOK
<1>1. CASE WorkerReceive(w)
  <2>1. states' = states /\ timers' = timers /\ hand' = hand /\ orphans' = orphans
    BY <1>1 DEF WorkerReceive
  <2>2. Covered(x)
    BY <2>1 DEF Coverage, Tracked
  <2>3. /\ workq \in Seq(Servers) /\ workq # <<>>
        /\ workq' = Tail(workq) /\ worker[w] = WorkerIdle
        /\ worker' = [worker EXCEPT ![w] = [pc |-> "snapshot", key |-> Head(workq)]]
    BY <1>1 DEF WorkerReceive, TypeOK
  <2>4. \A v \in Workers : Busy(v, x) => Busy(v, x)'
    BY <1>0, <2>3 DEF Busy, WorkerIdle
  <2>5. ASSUME NEW i \in 1..Len(workq), workq[i] = x
        PROVE  Queued(x)' \/ Busy(w, x)'
    <3>1. CASE i = 1
      BY <1>0, <2>3, <2>5, <3>1 DEF Busy
    <3>2. CASE i # 1
      <4>1. i - 1 \in 1..Len(workq') /\ workq'[i - 1] = workq[i]
        BY <2>3, <3>2
      <4> QED
        BY <2>5, <4>1 DEF Queued
    <3> QED
      BY <3>1, <3>2
  <2>6. InFlight(x) => InFlight(x)'
    BY <2>1, <2>4, <2>5 DEF InFlight, Sending, Queued
  <2> QED
    BY <2>1, <2>2, <2>6 DEF Covered, Checking
<1>2. CASE WorkerSnapshot(w)
  <2>1. /\ states' = states /\ timers' = timers /\ hand' = hand
        /\ orphans' = orphans /\ workq' = workq
    BY <1>2 DEF WorkerSnapshot
  <2>2. x \in Tracked /\ Covered(x)
    BY <2>1 DEF Coverage, Tracked
  <2>3. \A v \in Workers : Busy(v, x) => Busy(v, x)'
    BY <1>0, <1>2, <2>2 DEF WorkerSnapshot, Busy
  <2>4. InFlight(x) => InFlight(x)'
    BY <2>1, <2>3 DEF InFlight, Sending, Queued
  <2> QED
    BY <2>1, <2>2, <2>4 DEF Covered, Checking
<1>3. CASE WorkerFinish(w)
  <2> DEFINE k == worker[w].key
  <2>1. k \in Servers
    BY <1>0, <1>3 DEF WorkerFinish, WorkerIdle
  <2>2. hand' = hand /\ workq' = workq /\ worker' = [worker EXCEPT ![w] = WorkerIdle]
    BY <1>3 DEF WorkerFinish
  <2>3. x # k /\ InFlight(x) => InFlight(x)'
    <3>1. \A v \in Workers : x # k /\ Busy(v, x) => Busy(v, x)'
      BY <1>0, <2>2 DEF Busy
    <3> QED
      BY <2>2, <3>1 DEF InFlight, Sending, Queued
  <2>4. CASE k \notin Tracked
    <3>1. states' = states /\ timers' = timers /\ orphans' = orphans
      BY <1>3, <2>4 DEF WorkerFinish
    <3>2. x \in Tracked /\ x # k /\ Covered(x)
      BY <2>4, <3>1 DEF Coverage, Tracked
    <3> QED
      BY <2>2, <2>3, <3>1, <3>2 DEF Covered, Checking
  <2>5. CASE k \in Tracked
    <3>1. PICK s \in Fresh(k) :
            /\ states' = [states EXCEPT ![k].stamp = s]
            /\ timers' = Scheduled({k}, [y \in {k} |-> s], Once({k}))
      BY <1>3, <2>5 DEF WorkerFinish
    <3>2. orphans' = orphans \ {k}
      BY <1>3, <2>5 DEF WorkerFinish
    <3>3. x \in Tracked /\ x \in Servers
      BY <3>1 DEF Tracked, TypeOK
    <3>4. x \in {k} => states'[x].stamp = [y \in {k} |-> s][x]
      BY <2>5, <3>1, <3>3 DEF TypeOK, ServerState, Tracked
    <3>5. x \notin {k} => x \in Tracked \ orphans /\ states'[x].stamp = states[x].stamp
      BY <3>1, <3>2, <3>3 DEF TypeOK, Tracked
    <3>6. \A y \in {k} : [z \in {k} |-> s][y] \in Stamps
      BY <3>1, FreshIsStamp
    <3> HIDE DEF k
    <3> QED
      BY <2>1, <2>2, <2>3, <3>1, <3>3, <3>4, <3>5, <3>6, RestampedCovered
  <2> QED
    BY <2>4, <2>5
<1> QED
  BY <1>1, <1>2, <1>3 DEF WorkerLoop

(* Every step keeps every server covered.                                  *)
LEMMA CoverageStep == TypeOK /\ Coverage /\ [Next]_vars => Coverage'
<1> SUFFICES ASSUME TypeOK, Coverage, [Next]_vars PROVE Coverage'
  OBVIOUS
<1>1. CASE Refresh
  BY <1>1, RefreshCovered
<1>2. CASE Trigger
  <2>1. PICK K \in (SUBSET Tracked) \ {{}} :
          \E stamp \in [K -> Stamps], copies \in [K -> 1..(MaxKicks - kicks)] :
            Kick(K, stamp, copies)
    BY <1>2 DEF Trigger
  <2>2. PICK stamp \in [K -> Stamps], copies \in [K -> 1..(MaxKicks - kicks)] : Kick(K, stamp, copies)
    BY <2>1
  <2>3. \A k \in K : copies[k] \in Nat \ {0}
    BY PollingAssumption
  <2> QED
    BY <2>2, <2>3, KickCovered
<1>3. CASE ForcePing
  <2>1. ASSUME NEW k \in Servers, ForcePingTracked(k) PROVE Coverage'
    <3>1. PICK s \in Stamps : Kick({k}, [x \in {k} |-> s], Once({k}))
      BY <2>1 DEF ForcePingTracked
    <3>2. {k} \in SUBSET Tracked /\ \A x \in {k} : Once({k})[x] \in Nat \ {0}
      BY <2>1 DEF ForcePingTracked, Once
    <3> QED
      BY <3>1, <3>2, KickCovered
  <2>2. CASE ForcePingFetched
    BY <2>2, FetchedCovered
  <2>3. CASE ForcePingMissing \/ \E k \in Servers : ForcePingUnknown(k)
    <3>1. UNCHANGED <<states, timers, hand, workq, worker, orphans>>
      BY <2>3 DEF ForcePingMissing, ForcePingUnknown
    <3> QED
      BY <3>1 DEF Coverage, Covered, Tracked, Checking, InFlight, Sending, Queued, Busy
  <2> QED
    BY <1>3, <2>1, <2>2, <2>3 DEF ForcePing
<1>4. CASE SchedulerLoop
  BY <1>4, SchedulerCovered
<1>5. CASE \E w \in Workers : WorkerLoop(w)
  BY <1>5, WorkerCovered
<1>6. CASE UNCHANGED vars
  BY <1>6 DEF vars, Coverage, Covered, Tracked, Checking, InFlight, Sending, Queued, Busy
<1> QED
  BY <1>1, <1>2, <1>3, <1>4, <1>5, <1>6 DEF Next

(* No tracked server is ever left without a live entry in the schedule or  *)
(* a dispatch under way, except those a force ping fetched and scheduled   *)
(* at another time than the one it wrote to the map.                       *)
THEOREM CoverageHolds == Spec => []Coverage
<1>1. Init => Coverage
  BY DEF Init, Coverage, Tracked
<1> QED
  BY <1>1, TypeCorrect, CoverageStep, PTL DEF Spec
----------------------------------------------------------------------------
(* A server has one chain of dispatches.  The count in SingleFlight is     *)
(* split into what is alive where: the current entry is in the schedule,   *)
(* in the hand of scheduler_loop, in the work queue or with a worker, and  *)
(* in one of these only once.                                              *)

Due(k)      == IF k \in Tracked THEN timers[k][states[k].stamp] ELSE 0
Accepted(k) == Checking(k) /\ IsCurrent(k, hand.stamp)
QueuedAt(k) == { i \in 1..Len(workq) : workq[i] = k }
BusyWith(k) == { w \in Workers : Busy(w, k) }

OneChain(k) ==
  /\ Due(k) \in {0, 1}
  /\ Due(k) = 1 => ~Accepted(k) /\ ~InFlight(k)
  /\ Accepted(k) => ~InFlight(k)
  /\ Sending(k) => QueuedAt(k) = {} /\ BusyWith(k) = {}
  /\ QueuedAt(k) # {} => BusyWith(k) = {}
  /\ \A i, j \in QueuedAt(k) : i = j
  /\ \A v, w \in BusyWith(k) : v = w

OneChainEach == \A k \in Servers \ disturbed : OneChain(k)

(* A dispatch is in flight in one of three places.                         *)
LEMMA InFlightIs ==
  ASSUME NEW k
  PROVE  /\ InFlight(k) <=> Sending(k) \/ QueuedAt(k) # {} \/ BusyWith(k) # {}
         /\ InFlight(k)' <=> Sending(k)' \/ QueuedAt(k)' # {} \/ BusyWith(k)' # {}
  BY DEF InFlight, Queued, QueuedAt, BusyWith, Sending, Busy

(* One chain is what SingleFlight counts. *)
LEMMA OneIsOne == OneChainEach => SingleFlight
<1> SUFFICES ASSUME NEW k \in Servers \ disturbed, OneChain(k) PROVE Chains(k) <= 1
  BY DEF OneChainEach, SingleFlight
<1>1. /\ QueuedAt(k) = {} => Cardinality(QueuedAt(k)) = 0
      /\ QueuedAt(k) # {} => Cardinality(QueuedAt(k)) = 1
  <2>1. CASE QueuedAt(k) = {}
    BY <2>1, FS_EmptySet
  <2>2. CASE QueuedAt(k) # {}
    <3>1. PICK i : QueuedAt(k) = {i}
      BY <2>2 DEF OneChain
    <3> QED  BY <2>2, <3>1, FS_Singleton
  <2> QED  BY <2>1, <2>2
<1>2. /\ BusyWith(k) = {} => Cardinality(BusyWith(k)) = 0
      /\ BusyWith(k) # {} => Cardinality(BusyWith(k)) = 1
  <2>1. CASE BusyWith(k) = {}
    BY <2>1, FS_EmptySet
  <2>2. CASE BusyWith(k) # {}
    <3>1. PICK w : BusyWith(k) = {w}
      BY <2>2 DEF OneChain
    <3> QED  BY <2>2, <3>1, FS_Singleton
  <2> QED  BY <2>1, <2>2
<1>3. Chains(k) = Due(k) + (IF Accepted(k) THEN 1 ELSE 0) + (IF Sending(k) THEN 1 ELSE 0)
                  + Cardinality(QueuedAt(k)) + Cardinality(BusyWith(k))
  BY DEF Chains, Due, Accepted, QueuedAt, BusyWith
<1>4. /\ Due(k) \in {0, 1}
      /\ Due(k) = 1 => ~Accepted(k) /\ ~Sending(k) /\ QueuedAt(k) = {} /\ BusyWith(k) = {}
      /\ Accepted(k) => ~Sending(k) /\ QueuedAt(k) = {} /\ BusyWith(k) = {}
      /\ Sending(k) => QueuedAt(k) = {} /\ BusyWith(k) = {}
      /\ QueuedAt(k) # {} => BusyWith(k) = {}
  BY InFlightIs DEF OneChain
<1> HIDE DEF OneChain
<1> QED  BY <1>1, <1>2, <1>3, <1>4

(* A server that gets a new due time while nothing of it is in flight      *)
(* begins a chain: an entry under way carries another due time.            *)
LEMMA FreshChain ==
  ASSUME NEW k, hand' = hand, ~InFlight(k)',
         k \in Tracked' => /\ states'[k].stamp \in Fresh(k)
                           /\ timers'[k][states'[k].stamp] \in {0, 1}
  PROVE  OneChain(k)'
<1>1. Due(k)' \in {0, 1}
  BY DEF Due
<1>2. ~Accepted(k)'
  BY DEF Accepted, Checking, IsCurrent, Fresh
<1>3. ~Sending(k)' /\ QueuedAt(k)' = {} /\ BusyWith(k)' = {}
  BY InFlightIs
<1> QED  BY <1>1, <1>2, <1>3 DEF OneChain

(* A server whose due time and entries stay keeps its chain. *)
LEMMA SameChain ==
  ASSUME NEW k, OneChain(k), hand' = hand, workq' = workq, worker' = worker,
         k \in Tracked' => /\ k \in Tracked
                           /\ states'[k].stamp = states[k].stamp
                           /\ timers'[k][states[k].stamp] = timers[k][states[k].stamp]
  PROVE  OneChain(k)'
<1>1. /\ Sending(k)' = Sending(k) /\ QueuedAt(k)' = QueuedAt(k)
      /\ BusyWith(k)' = BusyWith(k) /\ InFlight(k)' = InFlight(k)
  BY DEF Sending, QueuedAt, BusyWith, Busy, InFlight, Queued
<1>2. Due(k)' \in {0, Due(k)} /\ (Accepted(k)' => Accepted(k))
  BY DEF Due, Accepted, Checking, IsCurrent
<1> QED  BY <1>1, <1>2 DEF OneChain

(* A kick that leaves a server undisturbed found no dispatch of it in      *)
(* flight and adds one entry; its new stamp makes the old entry stale.     *)
LEMMA KickOne ==
  ASSUME TypeOK, OneChainEach, NEW K \in SUBSET Tracked, NEW stamp, NEW copies,
         \A k \in K : copies[k] \in Nat \ {0},
         Kick(K, stamp, copies)
  PROVE  OneChainEach'
<1> SUFFICES ASSUME NEW x \in Servers \ disturbed' PROVE OneChain(x)'
  BY DEF OneChainEach
<1>1. /\ \A k \in K : stamp[k] \in Fresh(k) /\ stamp[k] \in Stamps
      /\ K \subseteq Servers /\ Tracked' = Tracked
      /\ hand' = hand /\ workq' = workq /\ worker' = worker
  BY FreshIsStamp DEF Kick, TypeOK, Tracked
<1>2. \A k \in Servers, s \in Stamps :
        timers'[k][s] = IF k \in K /\ s = stamp[k] THEN timers[k][s] + copies[k]
                                                  ELSE timers[k][s]
  <2>1. timers' = Scheduled(K, stamp, copies)
    BY DEF Kick
  <2>2. K \in SUBSET Servers /\ \A k \in K : stamp[k] \in Stamps /\ copies[k] \in Nat
    BY <1>1
  <2> QED  BY <2>1, <2>2, ScheduledCounts
<1>3. x \notin disturbed /\ (x \in K => ~InFlight(x) /\ ~(copies[x] > 1))
  BY DEF Kick, Disturb
<1>4. CASE x \in K
  <2>1. states'[x].stamp = stamp[x]
    BY <1>1, <1>4 DEF Kick, TypeOK, ServerState
  <2>2. timers'[x][stamp[x]] = 1
    BY <1>1, <1>2, <1>3, <1>4 DEF Fresh
  <2>3. ~InFlight(x)'
    BY <1>1, <1>3, <1>4 DEF InFlight, Sending, Queued, Busy
  <2> QED  BY <1>1, <1>4, <2>1, <2>2, <2>3, FreshChain
<1>5. CASE x \notin K
  <2>1. x \in Tracked => states'[x] = states[x] /\ states[x].stamp \in Stamps
    BY <1>5 DEF Kick, TypeOK, ServerState
  <2>2. OneChain(x)
    BY <1>3 DEF OneChainEach
  <2> QED  BY <1>1, <1>2, <1>5, <2>1, <2>2, SameChain
<1> QED  BY <1>4, <1>5

(* The same for a refresh that reschedules the server.                     *)
LEMMA RefreshOne == ASSUME TypeOK, OneChainEach, Refresh PROVE OneChainEach'
<1> SUFFICES ASSUME NEW x \in Servers \ disturbed' PROVE OneChain(x)'
  BY DEF OneChainEach
<1> DEFINE A(row, stamp) ==
      /\ \A k \in DOMAIN row : IF k \in Rescheduled(row) THEN stamp[k] \in Fresh(k)
                                                         ELSE stamp[k] = states[k].stamp
      /\ states' = [k \in DOMAIN row |-> [stamp |-> stamp[k], profile |-> row[k]]]
      /\ timers' = Scheduled(Rescheduled(row), stamp, Once(Rescheduled(row)))
      /\ Disturb(Rescheduled(row), Once(Rescheduled(row)))
<1>0. PICK F \in (SUBSET Servers) \ {{}} :
        \E row \in [F -> Profiles], stamp \in [F -> Stamps] : A(row, stamp)
  BY DEF Refresh
<1>1. PICK row \in [F -> Profiles], stamp \in [F -> Stamps] : A(row, stamp)
  BY <1>0
<1> DEFINE K == Rescheduled(row)
<1>2. K \subseteq F /\ F \ K \subseteq Tracked /\ K \subseteq Servers
  BY DEF Rescheduled
<1>3. Tracked' = F /\ (x \in F => states'[x].stamp = stamp[x] /\ stamp[x] \in Stamps)
  BY <1>1 DEF Tracked
<1>4. x \notin disturbed /\ (x \in K => ~InFlight(x))
  BY <1>1 DEF Disturb
<1>5. hand' = hand /\ workq' = workq /\ worker' = worker
  BY DEF Refresh
<1>6. \A k \in Servers, s \in Stamps :
        timers'[k][s] = IF k \in K /\ s = stamp[k] THEN timers[k][s] + 1 ELSE timers[k][s]
  <2>1. timers' = Scheduled(K, stamp, Once(K)) /\ \A k \in K : stamp[k] \in Stamps
    BY <1>1, <1>2
  <2> HIDE DEF K
  <2> QED  BY <1>2, <2>1, ScheduledOnce
<1>7. /\ x \in K => stamp[x] \in Fresh(x)
      /\ x \in F \ K => stamp[x] = states[x].stamp
  BY <1>1, <1>2
<1> HIDE DEF K, A
<1>8. CASE x \in K
  <2>1. timers'[x][stamp[x]] = 1
    BY <1>2, <1>3, <1>6, <1>7, <1>8 DEF Fresh
  <2>2. ~InFlight(x)'
    BY <1>4, <1>5, <1>8 DEF InFlight, Sending, Queued, Busy
  <2> QED  BY <1>2, <1>3, <1>5, <1>7, <1>8, <2>1, <2>2, FreshChain
<1>9. CASE x \notin K
  <2>1. OneChain(x)
    BY <1>4 DEF OneChainEach
  <2>2. x \in F => x \in Tracked /\ timers'[x][stamp[x]] = timers[x][stamp[x]]
    BY <1>2, <1>3, <1>6, <1>9
  <2> QED  BY <1>3, <1>5, <1>7, <1>9, <2>1, <2>2, SameChain
<1> QED  BY <1>8, <1>9

(* A server that a force ping inserts has no chain, as it is never due.    *)
LEMMA FetchedOne == ASSUME TypeOK, OneChainEach, ForcePingFetched PROVE OneChainEach'
<1> SUFFICES ASSUME NEW x \in Servers \ disturbed' PROVE OneChain(x)'
  BY DEF OneChainEach
<1> DEFINE k == pinger.key
<1>1. k \in Servers
  BY DEF ForcePingFetched, TypeOK, PingerIdle
<1>2. PICK s \in Fresh(k), drawn \in Fresh(k), row \in Profiles :
        /\ states' = [y \in Tracked \cup {k} |->
                         IF y = k THEN [stamp |-> drawn, profile |-> row] ELSE states[y]]
        /\ timers' = Scheduled({k}, [y \in {k} |-> s], Once({k}))
        /\ Disturb({k}, Once({k}))
  BY DEF ForcePingFetched
<1> HIDE DEF k
<1>3. Tracked' = Tracked \cup {k} /\ hand' = hand /\ workq' = workq /\ worker' = worker
  BY <1>2 DEF Tracked, ForcePingFetched
<1>4. s \in Stamps /\ drawn \in Stamps
  BY <1>2, FreshIsStamp
<1>5. \A y \in Servers, t \in Stamps :
        timers'[y][t] = IF y = k /\ t = s THEN timers[y][t] + 1 ELSE timers[y][t]
  <2>1. /\ {k} \in SUBSET Servers /\ \A y \in {k} : [z \in {k} |-> s][y] \in Stamps
        /\ [z \in {k} |-> s][k] = s
    BY <1>1, <1>4
  <2> QED  BY <1>2, <2>1, ScheduledOnce
<1>6. x \notin disturbed /\ (x = k => ~InFlight(x))
  BY <1>2 DEF Disturb
<1>7. CASE x = k
  <2>1. states'[x].stamp = drawn
    BY <1>2, <1>7
  <2>2. timers'[x][drawn] \in {0, 1}
    <3>1. timers[x][drawn] = 0
      BY <1>2, <1>7 DEF Fresh
    <3> QED  BY <1>4, <1>5, <3>1
  <2>3. ~InFlight(x)'
    BY <1>3, <1>6, <1>7 DEF InFlight, Sending, Queued, Busy
  <2> QED  BY <1>2, <1>3, <1>7, <2>1, <2>2, <2>3, FreshChain
<1>8. CASE x # k
  <2>1. OneChain(x)
    BY <1>6 DEF OneChainEach
  <2>2. x \in Tracked => states'[x] = states[x] /\ states[x].stamp \in Stamps
    BY <1>2, <1>8 DEF TypeOK, ServerState
  <2> QED  BY <1>3, <1>5, <1>8, <2>1, <2>2, SameChain
<1> QED  BY <1>7, <1>8

(* The one entry goes from the schedule to the check, and from there to    *)
(* the work queue.                                                         *)
LEMMA SchedulerOne == ASSUME TypeOK, OneChainEach, SchedulerLoop PROVE OneChainEach'
<1> SUFFICES ASSUME NEW x \in Servers \ disturbed PROVE OneChain(x)'
  BY DEF OneChainEach, SchedulerLoop, SchedulerPop, SchedulerCheck, SchedulerSend
<1>0. OneChain(x) /\ (x \in Tracked => states[x].stamp \in Stamps)
  BY DEF OneChainEach, TypeOK, ServerState
<1>1. CASE \E k \in Servers, s \in Stamps : SchedulerPop(k, s)
  <2>1. PICK k \in Servers, s \in Stamps : SchedulerPop(k, s)
    BY <1>1
  <2>2. /\ states' = states /\ workq' = workq /\ worker' = worker /\ Tracked' = Tracked
        /\ hand = HandIdle /\ hand' = [pc |-> "check", key |-> k, stamp |-> s]
    BY <2>1 DEF SchedulerPop, Tracked
  <2>3. /\ ~Sending(x) /\ ~Sending(x)' /\ ~Accepted(x)
        /\ QueuedAt(x)' = QueuedAt(x) /\ BusyWith(x)' = BusyWith(x)
    BY <2>2 DEF Sending, Accepted, Checking, HandIdle, QueuedAt, BusyWith, Busy
  <2>4. (InFlight(x)' <=> InFlight(x))
    BY <2>3, InFlightIs
  <2>5. CASE IsCurrent(x, s) /\ x = k
    <3>1. timers'[x][s] = timers[x][s] - 1 /\ timers[x][s] > 0 /\ timers[x][s] \in Nat
      BY <2>1, <2>5 DEF SchedulerPop, TypeOK
    <3>2. Due(x) = timers[x][s] /\ Due(x)' = timers'[x][s]
      BY <2>2, <2>5 DEF Due, IsCurrent
    <3>3. Due(x) = 1 /\ Due(x)' = 0
      BY <1>0, <3>1, <3>2 DEF OneChain
    <3> QED  BY <1>0, <2>3, <2>4, <3>3 DEF OneChain
  <2>6. CASE ~(IsCurrent(x, s) /\ x = k)
    <3>1. Due(x)' = Due(x)
      <4>1. x \in Tracked => timers'[x][states[x].stamp] = timers[x][states[x].stamp]
        BY <1>0, <2>1, <2>6 DEF SchedulerPop, TypeOK, IsCurrent
      <4> QED  BY <2>2, <4>1 DEF Due
    <3>2. ~Accepted(x)'
      BY <2>2, <2>6 DEF Accepted, Checking, IsCurrent
    <3> QED  BY <1>0, <2>3, <2>4, <3>1, <3>2 DEF OneChain
  <2> QED  BY <2>5, <2>6
<1>2. CASE SchedulerCheck
  <2>1. /\ states' = states /\ timers' = timers /\ Tracked' = Tracked
        /\ workq' = workq /\ worker' = worker /\ hand.pc = "check"
    BY <1>2 DEF SchedulerCheck, Tracked
  <2>2. /\ ~Sending(x) /\ ~Accepted(x)' /\ Due(x)' = Due(x)
        /\ QueuedAt(x)' = QueuedAt(x) /\ BusyWith(x)' = BusyWith(x)
    BY <1>2, <2>1 DEF SchedulerCheck, Sending, Accepted, Checking, HandIdle, Due, QueuedAt,
                      BusyWith, Busy
  <2>3. Sending(x)' = Accepted(x)
    BY <1>2, <2>1 DEF SchedulerCheck, Sending, Accepted, Checking, HandIdle
  <2>4. InFlight(x)' <=> InFlight(x) \/ Accepted(x)
    BY <2>2, <2>3, InFlightIs
  <2> QED  BY <1>0, <2>2, <2>3, <2>4, InFlightIs DEF OneChain
<1>3. CASE SchedulerSend
  <2>1. /\ states' = states /\ timers' = timers /\ Tracked' = Tracked
        /\ worker' = worker /\ hand.pc = "send" /\ hand' = HandIdle
    BY <1>3 DEF SchedulerSend, Tracked
  <2>2. /\ ~Sending(x)' /\ ~Accepted(x) /\ ~Accepted(x)'
        /\ Due(x)' = Due(x) /\ BusyWith(x)' = BusyWith(x)
    BY <2>1 DEF Sending, Accepted, Checking, HandIdle, Due, BusyWith, Busy
  <2>3. /\ Len(workq) \in Nat /\ Len(workq') = Len(workq) + 1
        /\ workq'[Len(workq) + 1] = hand.key
        /\ \A i \in 1..Len(workq) : workq'[i] = workq[i]
    BY <1>3 DEF SchedulerSend, TypeOK, HandIdle
  <2>4. QueuedAt(x)' = IF Sending(x) THEN QueuedAt(x) \cup {Len(workq) + 1} ELSE QueuedAt(x)
    BY <2>1, <2>3 DEF QueuedAt, Sending
  <2>5. (InFlight(x)' <=> InFlight(x))
    BY <2>2, <2>4, InFlightIs
  <2> QED  BY <1>0, <2>2, <2>4, <2>5 DEF OneChain
<1> QED  BY <1>1, <1>2, <1>3 DEF SchedulerLoop

(* The one dispatch goes from the work queue to a worker, and from there   *)
(* back to the schedule.                                                   *)
LEMMA WorkerOne ==
  ASSUME TypeOK, OneChainEach, NEW w \in Workers, WorkerLoop(w) PROVE OneChainEach'
<1> SUFFICES ASSUME NEW x \in Servers \ disturbed' PROVE OneChain(x)'
  BY DEF OneChainEach
<1>0. worker \in [Workers -> {WorkerIdle} \cup [pc: {"snapshot", "skip", "poll"}, key: Servers]]
  BY DEF TypeOK
<1>1. CASE WorkerReceive(w)
  <2>1. /\ states' = states /\ timers' = timers /\ hand' = hand /\ Tracked' = Tracked
        /\ worker[w] = WorkerIdle /\ workq # <<>> /\ workq' = Tail(workq)
        /\ worker' = [worker EXCEPT ![w] = [pc |-> "snapshot", key |-> Head(workq)]]
        /\ disturbed' = disturbed
    BY <1>1 DEF WorkerReceive, Tracked
  <2>2. OneChain(x)
    BY <2>1 DEF OneChainEach
  <2>3. /\ Sending(x)' = Sending(x) /\ Accepted(x)' = Accepted(x) /\ Due(x)' = Due(x)
    BY <2>1 DEF Sending, Accepted, Checking, IsCurrent, Due
  <2>4. /\ Len(workq) \in Nat \ {0} /\ Len(workq') = Len(workq) - 1 /\ Head(workq) = workq[1]
        /\ \A i \in 1..(Len(workq) - 1) : workq'[i] = workq[i + 1]
    BY <2>1 DEF TypeOK
  <2>5. \A i \in QueuedAt(x)' : i + 1 \in QueuedAt(x) /\ i \in Nat \ {0}
    BY <2>4 DEF QueuedAt
  <2>6. w \notin BusyWith(x)
    BY <2>1 DEF BusyWith, Busy, WorkerIdle
  <2>7. CASE Head(workq) = x
    <3>1. 1 \in QueuedAt(x)
      BY <2>4, <2>7 DEF QueuedAt
    <3>2. QueuedAt(x)' = {}
      BY <2>2, <2>5, <3>1 DEF OneChain
    <3>3. BusyWith(x)' = BusyWith(x) \cup {w}
      BY <1>0, <2>1, <2>7 DEF BusyWith, Busy
    <3>4. InFlight(x) /\ InFlight(x)'
      BY <3>1, <3>3, InFlightIs
    <3> QED  BY <2>2, <2>3, <3>1, <3>2, <3>3, <3>4 DEF OneChain
  <2>8. CASE Head(workq) # x
    <3>1. BusyWith(x)' = BusyWith(x)
      BY <1>0, <2>1, <2>6, <2>8 DEF BusyWith, Busy
    <3>2. QueuedAt(x)' # {} <=> QueuedAt(x) # {}
      <4>1. ASSUME NEW i \in QueuedAt(x) PROVE i - 1 \in QueuedAt(x)'
        BY <2>4, <2>8 DEF QueuedAt
      <4> QED  BY <2>5, <4>1
    <3>3. \A i, j \in QueuedAt(x)' : i = j
      BY <2>2, <2>5 DEF OneChain
    <3>4. (InFlight(x)' <=> InFlight(x))
      BY <2>3, <3>1, <3>2, InFlightIs
    <3> QED  BY <2>2, <2>3, <3>1, <3>2, <3>3, <3>4 DEF OneChain
  <2> QED  BY <2>7, <2>8
<1>2. CASE WorkerSnapshot(w)
  <2>1. /\ states' = states /\ timers' = timers /\ hand' = hand /\ workq' = workq
        /\ Tracked' = Tracked /\ disturbed' = disturbed
    BY <1>2 DEF WorkerSnapshot, Tracked
  <2>2. /\ OneChain(x) /\ Sending(x)' = Sending(x) /\ Accepted(x)' = Accepted(x)
        /\ Due(x)' = Due(x) /\ QueuedAt(x)' = QueuedAt(x)
    BY <2>1 DEF OneChainEach, Sending, Accepted, Checking, IsCurrent, Due, QueuedAt
  <2>3. BusyWith(x)' \subseteq BusyWith(x)
    BY <1>0, <1>2 DEF WorkerSnapshot, BusyWith, Busy, WorkerIdle
  <2>4. InFlight(x)' => InFlight(x)
    BY <2>2, <2>3, InFlightIs
  <2> QED  BY <2>2, <2>3, <2>4 DEF OneChain
<1>3. CASE WorkerFinish(w)
  <2> DEFINE k == worker[w].key
  <2>1. /\ hand' = hand /\ workq' = workq /\ k \in Servers
        /\ worker' = [worker EXCEPT ![w] = WorkerIdle]
    BY <1>0, <1>3 DEF WorkerFinish, WorkerIdle
  <2>2. /\ BusyWith(x)' = BusyWith(x) \ {w} /\ w \in BusyWith(k)
        /\ Sending(x)' = Sending(x) /\ QueuedAt(x)' = QueuedAt(x)
    BY <1>0, <1>3, <2>1 DEF WorkerFinish, BusyWith, Busy, WorkerIdle, Sending, QueuedAt
  <2>3. InFlight(x)' => InFlight(x)
    BY <2>2, InFlightIs
  <2>4. CASE x = k /\ k \in Tracked
    <3>1. PICK s \in Fresh(k) : /\ states' = [states EXCEPT ![k].stamp = s]
                                /\ timers' = Scheduled({k}, [y \in {k} |-> s], Once({k}))
      BY <1>3, <2>4 DEF WorkerFinish
    <3>2. disturbed' = IF Sending(k) \/ Queued(k) \/ \E v \in Workers \ {w} : Busy(v, k)
                         THEN disturbed ELSE disturbed \ {k}
      BY <1>3, <2>4 DEF WorkerFinish
    <3>3. ~InFlight(x)'
      <4>1. CASE x \in disturbed
        <5>1. ~Sending(x) /\ ~Queued(x) /\ ~\E v \in Workers \ {w} : Busy(v, x)
          BY <2>4, <3>2, <4>1
        <5>2. QueuedAt(x) = {} /\ BusyWith(x) \subseteq {w}
          BY <5>1 DEF Queued, QueuedAt, BusyWith
        <5> QED  BY <2>2, <5>1, <5>2, InFlightIs
      <4>2. CASE x \notin disturbed
        <5>1. OneChain(x) /\ w \in BusyWith(x)
          BY <2>2, <2>4, <4>2 DEF OneChainEach
        <5>2. ~Sending(x) /\ QueuedAt(x) = {} /\ BusyWith(x) \ {w} = {}
          BY <5>1 DEF OneChain
        <5> QED  BY <2>2, <5>2, InFlightIs
      <4> QED  BY <4>1, <4>2
    <3>4. s \in Stamps /\ states'[x].stamp = s
      BY <2>1, <2>4, <3>1, FreshIsStamp DEF TypeOK, ServerState, Tracked
    <3>5. timers'[x][s] = 1
      <4>1. /\ {k} \in SUBSET Servers /\ \A y \in {k} : [z \in {k} |-> s][y] \in Stamps
            /\ [z \in {k} |-> s][k] = s
        BY <2>1, <3>4
      <4> HIDE DEF k
      <4>2. timers'[k][s] = timers[k][s] + 1
        BY <2>1, <3>1, <3>4, <4>1, ScheduledOnce
      <4> QED  BY <2>4, <3>1, <4>2 DEF Fresh
    <3> HIDE DEF k
    <3> QED  BY <2>1, <2>4, <3>1, <3>3, <3>4, <3>5, FreshChain
  <2>5. CASE ~(x = k /\ k \in Tracked)
    <3>1. x \notin disturbed
      BY <1>3, <2>5 DEF WorkerFinish
    <3>2. Due(x)' = Due(x) /\ Accepted(x)' = Accepted(x)
      <4>1. CASE k \notin Tracked
        BY <1>3, <2>1, <4>1 DEF WorkerFinish, Due, Accepted, Checking, IsCurrent, Tracked
      <4>2. CASE k \in Tracked
        <5>1. PICK s \in Fresh(k) : /\ states' = [states EXCEPT ![k].stamp = s]
                                    /\ timers' = Scheduled({k}, [y \in {k} |-> s], Once({k}))
          BY <1>3, <4>2 DEF WorkerFinish
        <5>2. Tracked' = Tracked /\ (x \in Tracked => states'[x] = states[x])
          BY <2>5, <4>2, <5>1 DEF Tracked
        <5>3. timers'[x] = timers[x]
          BY <2>5, <4>2, <5>1 DEF Scheduled
        <5> QED  BY <2>1, <5>2, <5>3 DEF Due, Accepted, Checking, IsCurrent
      <4> QED  BY <4>1, <4>2
    <3> HIDE DEF k
    <3> QED  BY <2>2, <2>3, <3>1, <3>2 DEF OneChainEach, OneChain
  <2> QED  BY <2>4, <2>5
<1> QED  BY <1>1, <1>2, <1>3 DEF WorkerLoop

(* Every step keeps every undisturbed server in one place.                 *)
LEMMA OneChainStep == TypeOK /\ OneChainEach /\ [Next]_vars => OneChainEach'
<1> SUFFICES ASSUME TypeOK, OneChainEach, [Next]_vars PROVE OneChainEach'
  OBVIOUS
<1>1. CASE Trigger
  <2>1. PICK K \in (SUBSET Tracked) \ {{}} :
          \E stamp \in [K -> Stamps], copies \in [K -> 1..(MaxKicks - kicks)] :
            Kick(K, stamp, copies)
    BY <1>1 DEF Trigger
  <2>2. PICK stamp \in [K -> Stamps], copies \in [K -> 1..(MaxKicks - kicks)] :
          Kick(K, stamp, copies)
    BY <2>1
  <2>3. \A k \in K : copies[k] \in Nat \ {0}
    BY PollingAssumption DEF TypeOK
  <2> QED  BY <2>2, <2>3, KickOne
<1>2. CASE \E k \in Servers : ForcePingTracked(k) \/ ForcePingUnknown(k)
  <2>1. PICK k \in Servers : ForcePingTracked(k) \/ ForcePingUnknown(k)
    BY <1>2
  <2>2. CASE ForcePingTracked(k)
    <3>1. PICK s \in Stamps : Kick({k}, [y \in {k} |-> s], Once({k}))
      BY <2>2 DEF ForcePingTracked
    <3>2. {k} \in SUBSET Tracked /\ \A y \in {k} : Once({k})[y] \in Nat \ {0}
      BY <2>2 DEF ForcePingTracked, Once
    <3> QED  BY <3>1, <3>2, KickOne
  <2>3. CASE ForcePingUnknown(k)
    BY <2>3, SameChain DEF ForcePingUnknown, OneChainEach, Tracked
  <2> QED  BY <2>1, <2>2, <2>3
<1>3. CASE ForcePingMissing \/ UNCHANGED vars
  BY <1>3, SameChain DEF ForcePingMissing, OneChainEach, Tracked, vars
<1> QED
  BY <1>1, <1>2, <1>3, RefreshOne, FetchedOne, SchedulerOne, WorkerOne DEF Next, ForcePing

(* scheduler_loop and process_work_item: next_due is what keeps a second   *)
(* entry of a server from being dispatched, so two workers poll one server *)
(* only if a refresh, a trigger or a force ping rescheduled it during a    *)
(* dispatch, and when these polls have finished one chain is left.         *)
THEOREM SingleFlightHolds == Spec => []SingleFlight
<1>1. Init => OneChainEach
  <2> SUFFICES ASSUME Init, NEW k \in Servers PROVE OneChain(k)
    BY DEF OneChainEach
  <2>1. Due(k) = 0
    BY DEF Init, Due, Tracked
  <2>2. ~Accepted(k) /\ ~Sending(k) /\ QueuedAt(k) = {} /\ BusyWith(k) = {}
    BY DEF Init, Accepted, Checking, Sending, HandIdle, QueuedAt, BusyWith, Busy, WorkerIdle
  <2> QED  BY <2>1, <2>2 DEF OneChain
<1>2. Spec => []OneChainEach
  BY <1>1, TypeCorrect, OneChainStep, PTL DEF Spec
<1> QED  BY <1>2, OneIsOne, PTL
=============================================================================
