--------------------------- MODULE EmissionProofs ---------------------------
(***************************************************************************)
(* Proofs about module Emission, for any servers, workers, answers and     *)
(* queue length: its types, and that an event means the change its type    *)
(* names.                                                                  *)
(*                                                                         *)
(* Between the update under the mutex and the try_send after it the state  *)
(* remembers an event that nobody else knows of.  The invariant says what  *)
(* the state remembers then: of a server that is not disturbed, at most    *)
(* one event is under way, and it is the state remembered unless that was  *)
(* reset since; with none under way the state remembered is what           *)
(* monitoring-service will know when the queue is empty.                   *)
(***************************************************************************)
EXTENDS Emission, TLAPS

Sends(w, k) == worker[w].pc = "send" /\ worker[w].event.key = k

AtMostOneSends(k) == \A v, w \in Workers : Sends(v, k) /\ Sends(w, k) => v = w

(* The event under way follows the last one queued. *)
EventUnderWay(k) ==
  \A w \in Workers : Sends(w, k) =>
    /\ \A p \in State : Told(k, Len(queue), p) => Means(worker[w].event, p)
    /\ emitted[k].has => emitted[k].state = worker[w].event.state

(* Nothing is under way: the state remembers the last event queued. *)
NothingUnderWay(k) ==
  emitted[k].has /\ (\A w \in Workers : ~Sends(w, k)) =>
    \A p \in State : Told(k, Len(queue), p) => emitted[k].state = p

Remembers ==
  \A k \in Servers \ disturbed : AtMostOneSends(k) /\ EventUnderWay(k) /\ NothingUnderWay(k)

WorkerState ==
  {Idle} \cup [pc: {"poll"}, key: Servers, mode: Mode]
         \cup [pc: {"update"}, key: Servers, mode: Mode, answer: Answer]
         \cup [pc: {"send"}, event: Event]

----------------------------------------------------------------------------
(* build_change_payload *)

(* An answer is a state the state map could remember.                      *)
LEMMA AnswerTyped ==
  ASSUME NEW a \in Answer
  PROVE  /\ a \in State
         /\ a.up \in BOOLEAN /\ a.online \in Nat
         /\ a = [up |-> a.up, online |-> a.online, meta |-> a.meta]
<1>1. a \in State
  BY DEF State
<1>2. CASE a = Down
  BY <1>1, <1>2 DEF Down
<1>3. CASE a # Down
  <2>1. PICK b \in Answers : a = [up |-> TRUE, online |-> b.online, meta |-> b.meta]
    BY <1>3 DEF Answer
  <2>2. b.online \in Nat
    BY EmissionAssumption
  <2> QED  BY <1>1, <2>1, <2>2
<1> QED  BY <1>2, <1>3

LEMMA StateTyped ==
  ASSUME NEW s \in State
  PROVE  /\ s.up \in BOOLEAN /\ s.online \in Nat
         /\ s = [up |-> s.up, online |-> s.online, meta |-> s.meta]
         /\ [Down EXCEPT !.meta = s.meta] \in State
<1>1. CASE s \in Answer
  <2>1. s = Down \/ \E b \in Answers : s.meta = b.meta
    BY <1>1 DEF Answer
  <2>2. [Down EXCEPT !.meta = s.meta] \in State
    BY <2>1 DEF State, Answer, Down
  <2> QED  BY <1>1, <2>2, AnswerTyped
<1>2. CASE s \notin Answer
  <2>1. PICK b \in Answers : s = [Down EXCEPT !.meta = b.meta]
    BY <1>2 DEF State
  <2>2. [Down EXCEPT !.meta = s.meta] = s
    BY <2>1 DEF Down
  <2> QED  BY <2>1, <2>2 DEF Down
<1> QED  BY <1>1, <1>2

(* Two states that agree in what emission compares are the same.           *)
LEMMA StatesDiffer ==
  ASSUME NEW s \in State, NEW t \in State, s.up = t.up, s.online = t.online, s.meta = t.meta
  PROVE  s = t
  BY StateTyped

LEMMA CurrentTyped ==
  ASSUME TypeOK, NEW k \in Servers, NEW a \in Answer
  PROVE  Current(k, a) \in State
  BY AnswerTyped, StateTyped DEF TypeOK, Current

(* The type of an event is one of six, and the event means the difference  *)
(* from the state last emitted, if there was one.                          *)
LEMMA TypeOfMeans ==
  ASSUME TypeOK, NEW k \in Servers, NEW cur \in State
  PROVE  /\ TypeOf(k, cur) \in EventType
         /\ emitted[k].has =>
              Means([key |-> k, type |-> TypeOf(k, cur), state |-> cur], emitted[k].state)
         /\ ~emitted[k].has => TypeOf(k, cur) = "state_full"
<1> DEFINE last == emitted[k].state
<1>1. last \in State /\ emitted[k].has \in BOOLEAN
  BY DEF TypeOK
<1>2. cur.up \in BOOLEAN /\ last.up \in BOOLEAN
  BY <1>1, StateTyped
<1>3. CASE ~emitted[k].has
  BY <1>3 DEF TypeOf, EventType
<1>4. CASE emitted[k].has /\ last.up # cur.up
  <2>1. TypeOf(k, cur) = IF cur.up THEN "server_up" ELSE "server_down"
    BY <1>4 DEF TypeOf
  <2> QED  BY <1>2, <1>4, <2>1 DEF EventType, Means
<1>5. CASE emitted[k].has /\ last.up = cur.up /\ last.online # cur.online
  <2>1. TypeOf(k, cur) = "online_changed"
    BY <1>5 DEF TypeOf
  <2> QED  BY <1>5, <2>1 DEF EventType, Means
<1>6. CASE emitted[k].has /\ last.up = cur.up /\ last.online = cur.online /\ last.meta # cur.meta
  <2>1. TypeOf(k, cur) = "state_updated"
    BY <1>6 DEF TypeOf
  <2> QED  BY <1>6, <2>1 DEF EventType, Means
<1>7. CASE emitted[k].has /\ last.up = cur.up /\ last.online = cur.online /\ last.meta = cur.meta
  <2>1. TypeOf(k, cur) = "heartbeat"
    BY <1>7 DEF TypeOf
  <2>2. cur = last
    BY <1>1, <1>7, StatesDiffer
  <2> QED  BY <1>7, <2>1, <2>2 DEF EventType, Means
<1> QED  BY <1>1, <1>3, <1>4, <1>5, <1>6, <1>7

(* An event that is offered is one of the first time a server is told of.  *)
LEMMA FullMeansAnything ==
  ASSUME NEW e, e.type = "state_full", NEW p
  PROVE  Means(e, p)
  BY DEF Means

----------------------------------------------------------------------------
(* What monitoring-service is told *)

(* An event at the end of the queue changes nothing before it.             *)
LEMMA ToldKept ==
  ASSUME NEW e, queue \in Seq(Event), queue' = Append(queue, e), view' = view,
         NEW k, NEW n \in 0..Len(queue), NEW s
  PROVE  Told(k, n, s)' <=> Told(k, n, s)
<1>1. \A j \in 1..n : queue'[j] = queue[j]
  OBVIOUS
<1> QED  BY <1>1 DEF Told

(* It is what its server is told last; the others are told what they were. *)
LEMMA ToldAppended ==
  ASSUME NEW e, queue \in Seq(Event), queue' = Append(queue, e), view' = view,
         NEW k, NEW s, Told(k, Len(queue), s)'
  PROVE  IF e.key = k THEN s = e.state ELSE Told(k, Len(queue), s)
<1> DEFINE n == Len(queue)
<1>1. /\ n \in Nat /\ Len(queue') = n + 1 /\ queue'[n + 1] = e
      /\ \A j \in 1..n : queue'[j] = queue[j]
  OBVIOUS
<1>2. CASE e.key = k
  <2>1. PICK j \in 1..(n + 1) : /\ queue'[j].key = k /\ queue'[j].state = s
                                /\ \A h \in (j + 1)..(n + 1) : queue'[h].key # k
    BY <1>1, <1>2 DEF Told
  <2>2. j = n + 1
    BY <1>1, <1>2, <2>1
  <2> QED  BY <1>1, <1>2, <2>1, <2>2
<1>3. CASE e.key # k
  <2>2. CASE \E j \in 1..(n + 1) : /\ queue'[j].key = k /\ queue'[j].state = s
                                   /\ \A h \in (j + 1)..(n + 1) : queue'[h].key # k
    <3>1. PICK j \in 1..(n + 1) : /\ queue'[j].key = k /\ queue'[j].state = s
                                  /\ \A h \in (j + 1)..(n + 1) : queue'[h].key # k
      BY <2>2
    <3>2. j \in 1..n
      BY <1>1, <1>3, <3>1
    <3>3. \A h \in (j + 1)..n : queue[h].key # k
      BY <1>1, <3>1, <3>2
    <3> QED  BY <1>1, <1>3, <3>1, <3>2, <3>3 DEF Told
  <2>3. CASE (\A h \in 1..(n + 1) : queue'[h].key # k) /\ view'[k] = s
    <3>1. \A h \in 1..n : queue[h].key # k
      BY <1>1, <2>3
    <3> QED  BY <1>3, <2>3, <3>1 DEF Told
  <2> QED  BY <1>1, <2>2, <2>3 DEF Told
<1> QED  BY <1>2, <1>3

(* Delivering the head moves it from the queue into the view.              *)
LEMMA ToldDelivered ==
  ASSUME queue \in Seq(Event), view \in [Servers -> State], Deliver,
         NEW k \in Servers, NEW n \in 0..Len(queue'), NEW s, Told(k, n, s)'
  PROVE  Told(k, n + 1, s)
<1> DEFINE e == Head(queue)
<1>1. /\ queue # <<>> /\ Len(queue) \in Nat /\ Len(queue') = Len(queue) - 1 /\ e = queue[1]
      /\ \A j \in 1..n : queue'[j] = queue[j + 1]
      /\ e \in Event
  BY DEF Deliver
<1>2. view'[k] = IF e.key = k THEN e.state ELSE view[k]
  BY <1>1 DEF Deliver, Event
<1> HIDE DEF e
<1>3. CASE \E j \in 1..n : /\ queue'[j].key = k /\ queue'[j].state = s
                           /\ \A h \in (j + 1)..n : queue'[h].key # k
  <2>1. PICK j \in 1..n : /\ queue'[j].key = k /\ queue'[j].state = s
                          /\ \A h \in (j + 1)..n : queue'[h].key # k
    BY <1>3
  <2>2. j + 1 \in 1..(n + 1) /\ queue[j + 1].key = k /\ queue[j + 1].state = s
    BY <1>1, <2>1
  <2>3. \A h \in (j + 2)..(n + 1) : queue[h].key # k
    <3> TAKE h \in (j + 2)..(n + 1)
    <3>1. h - 1 \in (j + 1)..n /\ h - 1 \in 1..n
      BY <2>1
    <3>2. queue'[h - 1] = queue[h]
      BY <1>1, <3>1
    <3> QED  BY <2>1, <3>1, <3>2
  <2>4. (j + 1) + 1 = j + 2
    BY <2>1
  <2> QED  BY <2>2, <2>3, <2>4 DEF Told
<1>4. CASE (\A h \in 1..n : queue'[h].key # k) /\ view'[k] = s
  <2>1. \A h \in 2..(n + 1) : queue[h].key # k
    <3> TAKE h \in 2..(n + 1)
    <3>1. h - 1 \in 1..n
      BY DEF Deliver
    <3>2. queue'[h - 1] = queue[h]
      BY <1>1, <3>1
    <3> QED  BY <1>4, <3>1, <3>2
  <2>2. CASE e.key = k
    <3>1. 1 \in 1..(n + 1) /\ queue[1].key = k /\ queue[1].state = s
      BY <1>1, <1>2, <1>4, <2>2
    <3> QED  BY <2>1, <3>1 DEF Told
  <2>3. CASE e.key # k
    <3>1. \A h \in 1..(n + 1) : queue[h].key # k
      BY <1>1, <2>1, <2>3
    <3> QED  BY <1>2, <1>4, <2>3, <3>1 DEF Told
  <2> QED  BY <2>2, <2>3
<1> QED  BY <1>3, <1>4 DEF Told

----------------------------------------------------------------------------
(* Types *)

(* What a worker holds at each point.                                      *)
LEMMA WorkerTypes ==
  ASSUME TypeOK, NEW w \in Workers
  PROVE  /\ worker \in [Workers -> WorkerState]
         /\ worker[w].pc = "poll" => worker[w].key \in Servers /\ worker[w].mode \in Mode
         /\ worker[w].pc = "update" => /\ worker[w].key \in Servers
                                       /\ worker[w].mode \in Mode /\ worker[w].answer \in Answer
         /\ worker[w].pc = "send" => worker[w].event \in Event
  BY DEF TypeOK, WorkerState, Idle

LEMMA NothingTyped == Nothing \in [has: BOOLEAN, state: State]
  BY DEF Nothing, State, Answer

(* What an update that is told leaves behind *)
LEMMA UpdateTold ==
  ASSUME TypeOK, NEW w \in Workers, Update(w)
  PROVE  LET k   == worker[w].key
             cur == Current(k, worker[w].answer)
             e   == [key |-> k, type |-> TypeOf(k, cur), state |-> cur]
         IN  /\ k \in Servers /\ e \in Event
             /\ \/ /\ Changed(k, cur) \/ HeartbeatDue(k)
                   /\ emitted' = [emitted EXCEPT ![k] = [has |-> TRUE, state |-> cur]]
                   /\ age' = [age EXCEPT ![k] = 0]
                   /\ worker' = [worker EXCEPT ![w] = [pc |-> "send", event |-> e]]
                   /\ disturbed' = disturbed \cup {j \in {k} : Overtakes(w, j)}
                \/ /\ worker' = [worker EXCEPT ![w] = Idle]
                   /\ UNCHANGED <<emitted, age, disturbed>>
<1>1. worker[w].key \in Servers /\ worker[w].answer \in Answer
  BY WorkerTypes DEF Update
<1>2. Current(worker[w].key, worker[w].answer) \in State
  BY <1>1, CurrentTyped
<1>3. TypeOf(worker[w].key, Current(worker[w].key, worker[w].answer)) \in EventType
  BY <1>1, <1>2, TypeOfMeans
<1> QED  BY <1>1, <1>2, <1>3 DEF Update, Event

(* build_change_payload and the assignments behind it.                     *)
LEMMA UpdateTyped ==
  ASSUME TypeOK, NEW w \in Workers, Update(w)
  PROVE  TypeOK'
<1> DEFINE k   == worker[w].key
           cur == Current(k, worker[w].answer)
           e   == [key |-> k, type |-> TypeOf(k, cur), state |-> cur]
<1>1. /\ k \in Servers /\ e \in Event
      /\ \/ /\ emitted' = [emitted EXCEPT ![k] = [has |-> TRUE, state |-> cur]]
            /\ age' = [age EXCEPT ![k] = 0]
            /\ worker' = [worker EXCEPT ![w] = [pc |-> "send", event |-> e]]
            /\ disturbed' = disturbed \cup {j \in {k} : Overtakes(w, j)}
         \/ /\ worker' = [worker EXCEPT ![w] = Idle]
            /\ UNCHANGED <<emitted, age, disturbed>>
  BY UpdateTold
<1>2. cur \in State
  BY <1>1 DEF Event
<1>3. UNCHANGED <<world, tracked, mode, queue, view, changes>>
  BY DEF Update
<1> HIDE DEF e, cur, k
<1>4. worker \in [Workers -> WorkerState]
  BY WorkerTypes
<1>5. [pc |-> "send", event |-> e] \in WorkerState /\ Idle \in WorkerState
  BY <1>1 DEF WorkerState
<1>6. worker' \in [Workers -> WorkerState]
  BY <1>1, <1>4, <1>5
<1>7. /\ emitted' \in [Servers -> [has: BOOLEAN, state: State]]
      /\ age' \in [Servers -> 0..HeartbeatInterval]
  <2>1. 0 \in 0..HeartbeatInterval /\ [has |-> TRUE, state |-> cur] \in [has: BOOLEAN, state: State]
    BY <1>2, EmissionAssumption
  <2>2. /\ emitted \in [Servers -> [has: BOOLEAN, state: State]]
        /\ age \in [Servers -> 0..HeartbeatInterval]
    BY DEF TypeOK
  <2> QED  BY <1>1, <2>1, <2>2
<1>8. disturbed' \subseteq Servers
  BY <1>1 DEF TypeOK
<1> QED  BY <1>3, <1>6, <1>7, <1>8 DEF TypeOK, WorkerState

(* The steps of a worker.                                                  *)
LEMMA WorkerTyped ==
  ASSUME TypeOK, NEW w \in Workers, (\E k \in Servers : StartPoll(w, k)) \/ Proceed(w)
  PROVE  TypeOK'
<1>1. CASE \E k \in Servers : StartPoll(w, k)
  BY <1>1 DEF TypeOK, StartPoll
<1>2. CASE Found(w)
  <2>1. [pc |-> "update", key |-> worker[w].key, mode |-> worker[w].mode,
         answer |-> world[worker[w].key]] \in [pc: {"update"}, key: Servers, mode: Mode, answer: Answer]
    BY <1>2, WorkerTypes DEF TypeOK, Found
  <2> QED  BY <1>2, <2>1 DEF TypeOK, Found
<1>3. CASE UpdateGone(w)
  BY <1>3 DEF TypeOK, UpdateGone
<1>4. CASE Send(w)
  <2>1. worker[w].event \in Event
    BY <1>4, WorkerTypes DEF Send
  <2>2. queue' \in Seq(Event) /\ Len(queue') <= QueueMax
    <3>1. CASE Len(queue) < QueueMax
      <4>1. queue' = Append(queue, worker[w].event) /\ queue \in Seq(Event)
        BY <1>4, <3>1 DEF TypeOK, Send
      <4>2. queue' \in Seq(Event) /\ Len(queue') = Len(queue) + 1 /\ Len(queue) \in Nat
        BY <2>1, <4>1
      <4> QED  BY <3>1, <4>2, EmissionAssumption
    <3>2. CASE ~(Len(queue) < QueueMax)
      BY <1>4, <3>2 DEF TypeOK, Send
    <3> QED  BY <3>1, <3>2
  <2>3. disturbed' \subseteq Servers
    BY <1>4, <2>1 DEF TypeOK, Send, Event
  <2> QED  BY <1>4, <2>2, <2>3 DEF TypeOK, Send
<1> QED  BY <1>1, <1>2, <1>3, <1>4, UpdateTyped DEF Proceed

LEMMA DeliverTyped ==
  ASSUME TypeOK, Deliver
  PROVE  TypeOK'
<1>1. queue \in Seq(Event) /\ queue # <<>> /\ queue' = Tail(queue) /\ Len(queue) <= QueueMax
  BY DEF TypeOK, Deliver
<1>2. /\ Head(queue) \in Event /\ queue' \in Seq(Event)
      /\ Len(queue) \in Nat /\ Len(queue') = Len(queue) - 1
  BY <1>1
<1>3. Len(queue') <= QueueMax
  BY <1>1, <1>2, EmissionAssumption
<1>4. view' \in [Servers -> State]
  BY <1>2 DEF TypeOK, Deliver, Event
<1> QED  BY <1>2, <1>3, <1>4 DEF TypeOK, Deliver

(* The world, and what a refresh or a force ping does to a server.         *)
LEMMA WorldTyped ==
  ASSUME TypeOK, NEW k \in Servers,
         WorldChanges(k) \/ AddressChanges(k) \/ ModeChanges(k) \/ Untrack(k) \/ Insert(k)
  PROVE  TypeOK'
<1>1. changes' \in 0..MaxChanges
  BY EmissionAssumption
  DEF TypeOK, WorldChanges, AddressChanges, ModeChanges, Untrack, Insert, Change
<1>2. [age EXCEPT ![k] = HeartbeatInterval] \in [Servers -> 0..HeartbeatInterval]
  BY EmissionAssumption DEF TypeOK
<1>3. CASE WorldChanges(k)
  BY <1>1, <1>3 DEF TypeOK, WorldChanges
<1>4. CASE AddressChanges(k)
  BY <1>1, <1>2, <1>4, NothingTyped DEF TypeOK, AddressChanges
<1>5. CASE ModeChanges(k)
  BY <1>1, <1>5, EmissionAssumption DEF TypeOK, ModeChanges
<1>6. CASE Untrack(k)
  BY <1>1, <1>6 DEF TypeOK, Untrack
<1>7. CASE Insert(k)
  BY <1>1, <1>2, <1>7, NothingTyped, EmissionAssumption DEF TypeOK, Insert
<1> QED  BY <1>3, <1>4, <1>5, <1>6, <1>7

(* Every step keeps the types.                                             *)
LEMMA TypeStep ==
  ASSUME TypeOK, [Next]_vars
  PROVE  TypeOK'
<1>1. CASE Tick
  <2>1. age' \in [Servers -> 0..HeartbeatInterval]
    BY <1>1, EmissionAssumption DEF TypeOK, Tick
  <2> QED  BY <1>1, <2>1 DEF TypeOK, Tick
<1>2. CASE UNCHANGED vars
  BY <1>2 DEF TypeOK, vars
<1> QED  BY <1>1, <1>2, WorkerTyped, DeliverTyped, WorldTyped DEF Next

(* Nothing has been polled when the process starts.                        *)
LEMMA TypeInit == Init => TypeOK
  BY NothingTyped, EmissionAssumption DEF Init, TypeOK, State, Answer

(* Type correctness of the emission: the result queue never holds more     *)
(* events than it has places, and a down server's payload has no players.  *)
THEOREM EmissionTypeCorrect == Spec => []TypeOK
<1>1. Init => TypeOK
  BY TypeInit
<1>2. TypeOK /\ [Next]_vars => TypeOK'
  BY TypeStep
<1> QED  BY <1>1, <1>2, PTL DEF Spec

----------------------------------------------------------------------------
(* What the state remembers *)

(* The queue and what monitoring-service has seen do not change, nor does  *)
(* the event under way to a server; its state keeps what it remembers or   *)
(* forgets it.                                                             *)
LEMMA RemembersKept ==
  ASSUME Remembers, UNCHANGED <<queue, view, disturbed>>,
         \A w \in Workers, k \in Servers : Sends(w, k)' => Sends(w, k) /\ worker'[w] = worker[w],
         \A w \in Workers, k \in Servers : Sends(w, k) => Sends(w, k)',
         \A k \in Servers : emitted'[k] = emitted[k] \/ ~emitted'[k].has
  PROVE  Remembers'
<1> SUFFICES ASSUME NEW k \in Servers \ disturbed
             PROVE  AtMostOneSends(k)' /\ EventUnderWay(k)' /\ NothingUnderWay(k)'
  BY DEF Remembers
<1>1. AtMostOneSends(k) /\ EventUnderWay(k) /\ NothingUnderWay(k)
  BY DEF Remembers
<1>2. \A s : Told(k, Len(queue), s)' <=> Told(k, Len(queue), s)
  BY DEF Told
<1>3. AtMostOneSends(k)'
  BY <1>1 DEF AtMostOneSends
<1>4. EventUnderWay(k)'
  BY <1>1, <1>2 DEF EventUnderWay
<1>5. NothingUnderWay(k)'
  BY <1>1, <1>2 DEF NothingUnderWay
<1> QED  BY <1>3, <1>4, <1>5

(* The update under the mutex. Of a server that is not disturbed no other  *)
(* event is under way, so the state compared with is the one told last.    *)
LEMMA UpdateRemembers ==
  ASSUME TypeOK, Remembers, NEW w \in Workers, Update(w)
  PROVE  Remembers'
<1> DEFINE k   == worker[w].key
           cur == Current(k, worker[w].answer)
           e   == [key |-> k, type |-> TypeOf(k, cur), state |-> cur]
<1>1. k \in Servers /\ e \in Event /\ cur \in State
  BY UpdateTold DEF Event
<1>2. UNCHANGED <<queue, view>> /\ worker[w].pc = "update" /\ worker \in [Workers -> WorkerState]
  BY WorkerTypes DEF Update
<1>3. CASE /\ worker' = [worker EXCEPT ![w] = Idle]
           /\ UNCHANGED <<emitted, age, disturbed>>
  BY <1>2, <1>3, RemembersKept DEF Sends, Idle
<1>4. CASE /\ emitted' = [emitted EXCEPT ![k] = [has |-> TRUE, state |-> cur]]
           /\ worker' = [worker EXCEPT ![w] = [pc |-> "send", event |-> e]]
           /\ disturbed' = disturbed \cup {j \in {k} : Overtakes(w, j)}
  <2>1. TypeOf(k, cur) \in EventType /\ (emitted[k].has => Means(e, emitted[k].state))
        /\ (~emitted[k].has => e.type = "state_full")
    BY <1>1, TypeOfMeans
  <2> HIDE DEF e, cur, k
  <2>2. e.key = k /\ e.state = cur
    BY DEF e
  <2> SUFFICES ASSUME NEW j \in Servers \ disturbed'
               PROVE  AtMostOneSends(j)' /\ EventUnderWay(j)' /\ NothingUnderWay(j)'
    BY DEF Remembers
  <2>3. AtMostOneSends(j) /\ EventUnderWay(j) /\ NothingUnderWay(j)
    BY <1>4 DEF Remembers
  <2>4. \A s : Told(j, Len(queue), s)' <=> Told(j, Len(queue), s)
    BY <1>2 DEF Told
  <2>5. \A v \in Workers : v # w => worker'[v] = worker[v]
    BY <1>2, <1>4
  <2>6. worker'[w].pc = "send" /\ worker'[w].event = e /\ ~Sends(w, j)
    BY <1>2, <1>4 DEF Sends
  <2>7. CASE j = k
    <3>1. ~Overtakes(w, j)
      BY <1>4, <2>7
    <3>2. \A v \in Workers : ~Sends(v, j)
      BY <2>6, <3>1 DEF Overtakes, Sends
    <3>3. \A v \in Workers : Sends(v, j)' => v = w
      BY <2>5, <3>2 DEF Sends
    <3>4. emitted'[j] = [has |-> TRUE, state |-> cur]
      BY <1>1, <1>4, <2>7 DEF TypeOK
    <3>5. \A p \in State : Told(j, Len(queue), p) => Means(e, p)
      BY <2>1, <2>3, <2>7, <3>2, FullMeansAnything DEF NothingUnderWay
    <3>6. EventUnderWay(j)'
      BY <2>2, <2>4, <2>6, <3>3, <3>4, <3>5, <1>2 DEF EventUnderWay
    <3>7. NothingUnderWay(j)'
      BY <2>2, <2>6, <2>7 DEF NothingUnderWay, Sends
    <3> QED  BY <3>3, <3>6, <3>7 DEF AtMostOneSends
  <2>8. CASE j # k
    <3>1. ~Sends(w, j)'
      BY <2>2, <2>6, <2>8 DEF Sends
    <3>2. emitted'[j] = emitted[j]
      BY <1>4, <2>8 DEF TypeOK
    <3>3. \A v \in Workers : (Sends(v, j)' <=> Sends(v, j)) /\ (Sends(v, j) => worker'[v] = worker[v])
      BY <2>5, <2>6, <3>1 DEF Sends
    <3>4. AtMostOneSends(j)'
      BY <2>3, <3>3 DEF AtMostOneSends
    <3>5. EventUnderWay(j)'
      BY <1>2, <2>3, <2>4, <3>2, <3>3 DEF EventUnderWay
    <3>6. NothingUnderWay(j)'
      BY <1>2, <2>3, <2>4, <3>2, <3>3 DEF NothingUnderWay
    <3> QED  BY <3>4, <3>5, <3>6
  <2> QED  BY <2>7, <2>8
<1> QED  BY <1>3, <1>4, UpdateTold

(* An event that finds the queue full makes its server disturbed; one that *)
(* is queued becomes what its server is told last.                         *)
LEMMA SendRemembers ==
  ASSUME TypeOK, Remembers, NEW w \in Workers, Send(w)
  PROVE  Remembers'
<1> DEFINE e == worker[w].event
<1>1. e \in Event /\ worker[w].pc = "send" /\ worker \in [Workers -> WorkerState]
  BY WorkerTypes DEF Send
<1>2. /\ worker' = [worker EXCEPT ![w] = Idle]
      /\ UNCHANGED <<emitted, view>>
  BY DEF Send
<1> SUFFICES ASSUME NEW j \in Servers \ disturbed'
             PROVE  AtMostOneSends(j)' /\ EventUnderWay(j)' /\ NothingUnderWay(j)'
  BY DEF Remembers
<1>3. disturbed \subseteq disturbed' /\ queue \in Seq(Event)
  BY DEF TypeOK, Send
<1>4. AtMostOneSends(j) /\ EventUnderWay(j) /\ NothingUnderWay(j)
  BY <1>3 DEF Remembers
<1>5. \A v \in Workers : Sends(v, j)' => Sends(v, j) /\ v # w /\ worker'[v] = worker[v]
  BY <1>1, <1>2 DEF Sends, Idle
<1>6. \A v \in Workers : Sends(v, j) /\ v # w => Sends(v, j)'
  BY <1>1, <1>2 DEF Sends
<1>7. AtMostOneSends(j)'
  BY <1>4, <1>5 DEF AtMostOneSends
<1>8. CASE Len(queue) < QueueMax
  <2>1. queue' = Append(queue, e) /\ view' = view
    BY <1>8 DEF Send
  <2>2. \A s : Told(j, Len(queue), s)' => IF e.key = j THEN s = e.state ELSE Told(j, Len(queue), s)
    BY <1>3, <2>1, ToldAppended
  <2>3. CASE e.key = j
    <3>1. Sends(w, j)
      BY <1>1, <2>3 DEF Sends
    <3>2. \A v \in Workers : ~Sends(v, j)'
      BY <1>4, <1>5, <3>1 DEF AtMostOneSends
    <3>3. emitted[j].has => emitted[j].state = e.state
      BY <1>4, <3>1 DEF EventUnderWay
    <3> QED  BY <1>2, <1>7, <2>2, <2>3, <3>2, <3>3 DEF EventUnderWay, NothingUnderWay
  <2>4. CASE e.key # j
    <3>1. ~Sends(w, j)
      BY <2>4 DEF Sends
    <3>2. EventUnderWay(j)'
      BY <1>2, <1>4, <1>5, <2>2, <2>4 DEF EventUnderWay
    <3>3. NothingUnderWay(j)'
      BY <1>2, <1>4, <1>6, <2>2, <2>4, <3>1 DEF NothingUnderWay
    <3> QED  BY <1>7, <3>2, <3>3
  <2> QED  BY <2>3, <2>4
<1>9. CASE ~(Len(queue) < QueueMax)
  <2>1. queue' = queue /\ disturbed' = disturbed \cup {e.key}
    BY <1>9 DEF Send
  <2>2. e.key # j /\ ~Sends(w, j)
    BY <2>1 DEF Sends
  <2>3. \A s : Told(j, Len(queue), s)' <=> Told(j, Len(queue), s)
    BY <1>2, <2>1 DEF Told
  <2>4. EventUnderWay(j)'
    BY <1>2, <1>4, <1>5, <2>3 DEF EventUnderWay
  <2>5. NothingUnderWay(j)'
    BY <1>2, <1>4, <1>6, <2>2, <2>3 DEF NothingUnderWay
  <2> QED  BY <1>7, <2>4, <2>5
<1> QED  BY <1>8, <1>9

(* A delivery changes what a server is told last only in name.             *)
LEMMA DeliverRemembers ==
  ASSUME TypeOK, Remembers, Deliver
  PROVE  Remembers'
<1> SUFFICES ASSUME NEW k \in Servers \ disturbed
             PROVE  AtMostOneSends(k)' /\ EventUnderWay(k)' /\ NothingUnderWay(k)'
  BY DEF Remembers, Deliver
<1>1. AtMostOneSends(k) /\ EventUnderWay(k) /\ NothingUnderWay(k)
  BY DEF Remembers
<1>2. UNCHANGED <<worker, emitted>>
  BY DEF Deliver
<1>3. /\ queue \in Seq(Event) /\ view \in [Servers -> State]
      /\ Len(queue') \in 0..Len(queue') /\ Len(queue') + 1 = Len(queue)
  BY DEF TypeOK, Deliver
<1>4. \A s : Told(k, Len(queue), s)' => Told(k, Len(queue), s)
  <2> SUFFICES ASSUME NEW s, Told(k, Len(queue), s)'
               PROVE  Told(k, Len(queue), s)
    OBVIOUS
  <2>1. PICK n \in 0..Len(queue') : n = Len(queue') /\ n + 1 = Len(queue)
    BY <1>3
  <2>2. Told(k, n, s)'
    BY <2>1 DEF Told
  <2>3. Told(k, n + 1, s)
    BY <1>3, <2>1, <2>2, ToldDelivered
  <2> QED  BY <2>1, <2>3
<1>5. AtMostOneSends(k)'
  BY <1>1, <1>2 DEF AtMostOneSends, Sends
<1>6. EventUnderWay(k)'
  BY <1>1, <1>2, <1>4 DEF EventUnderWay, Sends
<1>7. NothingUnderWay(k)'
  BY <1>1, <1>2, <1>4 DEF NothingUnderWay, Sends
<1> QED  BY <1>5, <1>6, <1>7

(* Every step keeps what the state remembers.                              *)
LEMMA RemembersStep ==
  ASSUME TypeOK, Remembers, [Next]_vars
  PROVE  Remembers'
<1>1. ASSUME NEW w \in Workers, NEW k \in Servers, StartPoll(w, k)
      PROVE  Remembers'
  <2>1. worker[w].pc # "send" /\ worker'[w].pc # "send" /\ \A v \in Workers : v # w => worker'[v] = worker[v]
    BY <1>1, WorkerTypes DEF StartPoll, Idle
  <2> QED  BY <1>1, <2>1, RemembersKept DEF StartPoll, Sends
<1>2. ASSUME NEW w \in Workers, Found(w) \/ UpdateGone(w)
      PROVE  Remembers'
  <2>1. worker[w].pc # "send" /\ worker'[w].pc # "send" /\ \A v \in Workers : v # w => worker'[v] = worker[v]
    BY <1>2, WorkerTypes DEF Found, UpdateGone, Idle
  <2> QED  BY <1>2, <2>1, RemembersKept DEF Found, UpdateGone, Sends
<1>3. ASSUME NEW k \in Servers, AddressChanges(k) \/ Insert(k)
      PROVE  Remembers'
  <2>1. emitted' = [emitted EXCEPT ![k] = Nothing] /\ UNCHANGED <<worker, queue, view, disturbed>>
    BY <1>3 DEF AddressChanges, Insert
  <2>2. \A j \in Servers : emitted'[j] = emitted[j] \/ ~emitted'[j].has
    BY <2>1 DEF TypeOK, Nothing
  <2> QED  BY <2>1, <2>2, RemembersKept DEF Sends
<1>4. ASSUME UNCHANGED <<emitted, worker, queue, view, disturbed>>
      PROVE  Remembers'
  BY <1>4, RemembersKept DEF Sends
<1>5. ASSUME NEW k \in Servers, WorldChanges(k) \/ ModeChanges(k) \/ Untrack(k)
      PROVE  Remembers'
  BY <1>4, <1>5 DEF WorldChanges, ModeChanges, Untrack
<1>6. CASE Tick \/ UNCHANGED vars
  BY <1>4, <1>6 DEF Tick, vars
<1>7. ASSUME NEW w \in Workers, Proceed(w)
      PROVE  Remembers'
  BY <1>2, <1>7, UpdateRemembers, SendRemembers DEF Proceed
<1> QED  BY <1>1, <1>3, <1>5, <1>6, <1>7, DeliverRemembers DEF Next

----------------------------------------------------------------------------
(* What the events mean *)

(* The event queued means what it did under way, the others what they did. *)
LEMMA SendMeans ==
  ASSUME TypeOK, Remembers, EventsMeanChanges, NEW w \in Workers, Send(w)
  PROVE  EventsMeanChanges'
<1> DEFINE e == worker[w].event
<1>1. e \in Event /\ worker[w].pc = "send" /\ queue \in Seq(Event) /\ view' = view
  BY WorkerTypes DEF Send, TypeOK
<1>2. CASE Len(queue) < QueueMax
  <2>1. queue' = Append(queue, e) /\ disturbed' = disturbed
    BY <1>2 DEF Send
  <2> SUFFICES ASSUME NEW i \in 1..Len(queue'), NEW p \in State,
                      queue'[i].key \notin disturbed, Told(queue[i].key, i - 1, p)'
               PROVE  Means(queue'[i], p)
    BY <2>1 DEF EventsMeanChanges, Means
  <2>2. /\ Len(queue) \in Nat /\ Len(queue') = Len(queue) + 1
        /\ queue'[Len(queue) + 1] = e
        /\ \A j \in 1..Len(queue) : queue'[j] = queue[j]
    BY <1>1, <2>1
  <2>3. PICK k : k = queue'[i].key
    OBVIOUS
  <2>4. i - 1 \in 0..Len(queue) /\ Told(k, i - 1, p)'
    BY <2>2, <2>3 DEF Told
  <2>5. Told(k, i - 1, p)
    BY <1>1, <2>1, <2>4, ToldKept
  <2>6. CASE i \in 1..Len(queue)
    BY <2>2, <2>3, <2>5, <2>6 DEF EventsMeanChanges
  <2>7. CASE i = Len(queue) + 1
    <3>1. k = e.key /\ k \in Servers \ disturbed /\ Sends(w, k)
      BY <1>1, <2>2, <2>3, <2>7 DEF Sends, Event
    <3>2. Told(k, Len(queue), p)
      BY <2>2, <2>5, <2>7
    <3> QED  BY <2>2, <2>7, <3>1, <3>2 DEF Remembers, EventUnderWay
  <2> QED  BY <2>2, <2>6, <2>7
<1>3. CASE ~(Len(queue) < QueueMax)
  <2>1. queue' = queue /\ disturbed \subseteq disturbed'
    BY <1>3 DEF Send
  <2> QED  BY <1>1, <2>1 DEF EventsMeanChanges, Told, Means
<1> QED  BY <1>2, <1>3

(* The events left in the queue follow the same ones as before.            *)
LEMMA DeliverMeans ==
  ASSUME TypeOK, EventsMeanChanges, Deliver
  PROVE  EventsMeanChanges'
<1> SUFFICES ASSUME NEW i \in 1..Len(queue'), NEW p \in State,
                    queue'[i].key \notin disturbed, Told(queue[i].key, i - 1, p)'
             PROVE  Means(queue'[i], p)
  BY DEF EventsMeanChanges, Means, Deliver
<1>1. /\ queue \in Seq(Event) /\ view \in [Servers -> State]
      /\ Len(queue) \in Nat /\ Len(queue') = Len(queue) - 1
      /\ i + 1 \in 1..Len(queue) /\ queue'[i] = queue[i + 1] /\ i - 1 \in 0..Len(queue')
  BY DEF TypeOK, Deliver
<1>2. PICK k \in Servers : k = queue'[i].key
  <2>1. queue[i + 1] \in Event
    BY <1>1
  <2>2. queue[i + 1].key \in Servers
    BY <2>1 DEF Event
  <2> QED  BY <1>1, <2>2
<1>3. Told(k, i - 1, p)'
  BY <1>2 DEF Told
<1>4. Told(k, (i - 1) + 1, p)
  BY <1>1, <1>3, ToldDelivered
<1>5. (i - 1) + 1 = (i + 1) - 1
  BY <1>1
<1> QED  BY <1>1, <1>2, <1>4, <1>5 DEF EventsMeanChanges

(* No other step touches the queue.                                        *)
LEMMA MeansStep ==
  ASSUME TypeOK, Remembers, EventsMeanChanges, [Next]_vars
  PROVE  EventsMeanChanges'
<1>1. ASSUME UNCHANGED <<queue, view>>, disturbed \subseteq disturbed'
      PROVE  EventsMeanChanges'
  BY <1>1 DEF EventsMeanChanges, Told, Means
<1>2. ASSUME NEW w \in Workers, (\E k \in Servers : StartPoll(w, k)) \/ Found(w) \/ Update(w) \/ UpdateGone(w)
      PROVE  EventsMeanChanges'
  BY <1>1, <1>2 DEF StartPoll, Found, Update, UpdateGone
<1>3. ASSUME NEW k \in Servers,
             WorldChanges(k) \/ AddressChanges(k) \/ ModeChanges(k) \/ Untrack(k) \/ Insert(k)
      PROVE  EventsMeanChanges'
  BY <1>1, <1>3 DEF WorldChanges, AddressChanges, ModeChanges, Untrack, Insert
<1>4. CASE Tick \/ UNCHANGED vars
  BY <1>1, <1>4 DEF Tick, vars
<1> QED  BY <1>2, <1>3, <1>4, SendMeans, DeliverMeans DEF Next, Proceed

(* build_change_payload compares an answer with the state it last recorded *)
(* and not with what monitoring-service has: the two agree for a server    *)
(* that lost no event and had no two under way at once, whatever the other *)
(* servers' events, the refreshes and the force pings do in between, so    *)
(* "server_up" is said of a server that was down, "online_changed" of one  *)
(* whose count differs, and a heartbeat repeats what was said before.      *)
THEOREM EventsNameTheChange == Spec => []EventsMeanChanges
<1>1. Init => TypeOK /\ Remembers /\ EventsMeanChanges
  <2> SUFFICES ASSUME Init PROVE TypeOK /\ Remembers /\ EventsMeanChanges
    OBVIOUS
  <2>1. TypeOK
    BY TypeInit
  <2>2. Remembers
    BY DEF Init, Remembers, AtMostOneSends, EventUnderWay, NothingUnderWay, Sends, Idle, Nothing
  <2>3. EventsMeanChanges
    BY DEF Init, EventsMeanChanges
  <2> QED  BY <2>1, <2>2, <2>3
<1>2. TypeOK /\ Remembers /\ EventsMeanChanges /\ [Next]_vars
        => (TypeOK /\ Remembers /\ EventsMeanChanges)'
  BY TypeStep, RemembersStep, MeansStep
<1> QED  BY <1>1, <1>2, PTL DEF Spec

=============================================================================
