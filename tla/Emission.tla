------------------------------ MODULE Emission ------------------------------
(***************************************************************************)
(* What the poller tells monitoring-service: a worker polls a server,      *)
(* compares the answer with the state last emitted (build_change_payload   *)
(* of src/src/change_detection.rs) under the mutex, and after releasing it *)
(* offers the event to the bounded result queue with try_send, which drops *)
(* it when the queue is full (process_work_item of src/src/collector.rs).  *)
(* The catalog refresh may change a server's address or its plugin mode,   *)
(* or untrack it, and a refresh or a force ping may put a new state in the *)
(* map, between any two of these steps (src/src/sync.rs).                  *)
(*                                                                         *)
(* Abstractions:                                                           *)
(*  - An answer is up or down, a player count, and one value for all the   *)
(*    rest the code compares (max_players, version, motd, country, the     *)
(*    hash of the player list).  No country is learnt while down.          *)
(*  - The time since the last emission is counted up to HeartbeatInterval. *)
(*  - When a server is polled is left open (module Polling); a second poll *)
(*    of a server may overlap the first.                                   *)
(*  - The queue hands its events to monitoring-service (module Ingest).    *)
(***************************************************************************)
EXTENDS Naturals, Sequences

CONSTANTS
  Servers, Workers,
  Answers,            (* [online, meta]: what a server that is up may answer *)
  Modes,              (* plugin modes the catalog gives: see Mode           *)
  QueueMax,           (* settings.collector.result_queue_maxsize            *)
  HeartbeatInterval,  (* settings.collector.heartbeat_interval_seconds      *)
  MaxChanges          (* bound on changes of the world and the catalog      *)

(* "probe": plugin_managed && !plugin_fallback_mode. *)
Mode == {"plain", "probe", "fallback"}

NoMeta == "none"      (* nothing known yet *)

ASSUME EmissionAssumption ==
  /\ \A a \in Answers : a.online \in Nat /\ a.meta # NoMeta
  /\ Modes \subseteq Mode /\ Modes # {}
  /\ QueueMax \in Nat \ {0} /\ HeartbeatInterval \in Nat /\ MaxChanges \in Nat

VARIABLES
  world,     (* what a poll of the server would find now                   *)
  tracked,   (* is the server in the states map?                           *)
  mode,      (* ServerState::plugin_managed and plugin_fallback_mode       *)
  emitted,   (* ServerState::has_emitted_state and last_emitted_*          *)
  age,       (* time since last_emitted_at                                 *)
  worker,    (* what each worker is doing                                  *)
  queue,     (* the result queue                                           *)
  view,      (* monitoring-service: the last event of each server          *)
  disturbed, (* history: the servers of which the queue dropped an event,  *)
             (* or of which two events were under way to it at once        *)
  changes

vars == <<world, tracked, mode, emitted, age, worker, queue, view, disturbed, changes>>

Down   == [up |-> FALSE, online |-> 0, meta |-> NoMeta]
Answer == { [up |-> TRUE, online |-> a.online, meta |-> a.meta] : a \in Answers } \cup {Down}
State  == Answer \cup { [Down EXCEPT !.meta = a.meta] : a \in Answers }

Nothing == [has |-> FALSE, state |-> Down]

EventType == {"state_full", "server_up", "server_down", "online_changed",
              "state_updated", "heartbeat"}
Event     == [key: Servers, type: EventType, state: State]

Idle == [pc |-> "idle"]

TypeOK ==
  /\ world \in [Servers -> Answer]
  /\ tracked \in [Servers -> BOOLEAN]
  /\ mode \in [Servers -> Mode]
  /\ emitted \in [Servers -> [has: BOOLEAN, state: State]]
  /\ age \in [Servers -> 0..HeartbeatInterval]
  /\ worker \in [Workers -> {Idle} \cup [pc: {"poll"}, key: Servers, mode: Mode]
                      \cup [pc: {"update"}, key: Servers, mode: Mode, answer: Answer]
                      \cup [pc: {"send"}, event: Event]]
  /\ queue \in Seq(Event) /\ Len(queue) <= QueueMax
  /\ view \in [Servers -> State]
  /\ disturbed \subseteq Servers
  /\ changes \in 0..MaxChanges

(* Another worker has an event of server k to offer. *)
Overtakes(w, k) ==
  \E v \in Workers \ {w} : worker[v].pc = "send" /\ worker[v].event.key = k

----------------------------------------------------------------------------
(* build_change_payload *)

(* A down server keeps the data it had. *)
Current(k, answer) ==
  IF answer.up THEN answer ELSE [Down EXCEPT !.meta = emitted[k].state.meta]

Changed(k, cur) == emitted[k].has => emitted[k].state # cur

(* A mutated form of HeartbeatDue: later than the interval the age counts to. *)
MutHeartbeatDue(k) == HeartbeatInterval > 0 /\ age[k] > HeartbeatInterval

(* The interval is positive and over. *)
HeartbeatDue(k) == HeartbeatInterval > 0 /\ age[k] = HeartbeatInterval

TypeOf(k, cur) ==
  LET last == emitted[k].state IN
  CASE ~emitted[k].has          -> "state_full"
    [] emitted[k].has /\ last.up # cur.up -> IF cur.up THEN "server_up" ELSE "server_down"
    [] emitted[k].has /\ last.up = cur.up /\ last.online # cur.online -> "online_changed"
    [] emitted[k].has /\ last.up = cur.up /\ last.online = cur.online /\ last.meta # cur.meta
                                -> "state_updated"
    [] OTHER                    -> "heartbeat"

----------------------------------------------------------------------------
(* A worker. *)

(* The snapshot under the mutex. *)
StartPoll(w, k) ==
  /\ worker[w] = Idle /\ tracked[k]
  /\ worker' = [worker EXCEPT ![w] = [pc |-> "poll", key |-> k, mode |-> mode[k]]]
  /\ UNCHANGED <<world, tracked, mode, emitted, age, queue, view, disturbed, changes>>

(* poll_server, of either edition, returns what the server answered or the *)
(* payload of a failure: what the world was at some moment of the poll.    *)
Found(w) ==
  /\ worker[w].pc = "poll"
  /\ worker' = [worker EXCEPT ![w] = [pc |-> "update", key |-> @.key, mode |-> @.mode,
                                      answer |-> world[@.key]]]
  /\ UNCHANGED <<world, tracked, mode, emitted, age, queue, view, disturbed, changes>>

(* A mutated form of Update: records the state before the early return. *)
MutUpdate(w) ==
  /\ worker[w].pc = "update" /\ tracked[worker[w].key]
  /\ LET k    == worker[w].key
         ans  == worker[w].answer
         cur  == Current(k, ans)
         told == ~(worker[w].mode = "probe" /\ ~ans.up) /\ (Changed(k, cur) \/ HeartbeatDue(k))
     IN /\ emitted' = [emitted EXCEPT ![k] = [has |-> TRUE, state |-> cur]]
        /\ age' = [age EXCEPT ![k] = 0]
        /\ worker' = [worker EXCEPT ![w] =
             IF told THEN [pc |-> "send", event |->
                             [key |-> k, type |-> TypeOf(k, cur), state |-> cur]]
                     ELSE Idle]
        /\ disturbed' = disturbed \cup {j \in {k} : told /\ Overtakes(w, j)}
  /\ UNCHANGED <<world, tracked, mode, queue, view, changes>>

(* The update under the mutex.  A failed poll of a server whose plugin     *)
(* reports for it (in the mode of the snapshot) is not told.               *)
Update(w) ==
  /\ worker[w].pc = "update" /\ tracked[worker[w].key]
  /\ LET k    == worker[w].key
         ans  == worker[w].answer
         cur  == Current(k, ans)
         told == ~(worker[w].mode = "probe" /\ ~ans.up) /\ (Changed(k, cur) \/ HeartbeatDue(k))
     IN IF told
          THEN /\ emitted' = [emitted EXCEPT ![k] = [has |-> TRUE, state |-> cur]]
               /\ age' = [age EXCEPT ![k] = 0]
               /\ worker' = [worker EXCEPT ![w] =
                    [pc |-> "send", event |-> [key |-> k, type |-> TypeOf(k, cur), state |-> cur]]]
               /\ disturbed' = disturbed \cup {j \in {k} : Overtakes(w, j)}
          ELSE /\ worker' = [worker EXCEPT ![w] = Idle]
               /\ UNCHANGED <<emitted, age, disturbed>>
  /\ UNCHANGED <<world, tracked, mode, queue, view, changes>>

(* The server is gone: the answer is forgotten. *)
UpdateGone(w) ==
  /\ worker[w].pc = "update" /\ ~tracked[worker[w].key]
  /\ worker' = [worker EXCEPT ![w] = Idle]
  /\ UNCHANGED <<world, tracked, mode, emitted, age, queue, view, disturbed, changes>>

(* A mutated form of Send: without regard to the capacity. *)
MutSend(w) ==
  /\ worker[w].pc = "send"
  /\ queue' = Append(queue, worker[w].event)
  /\ worker' = [worker EXCEPT ![w] = Idle]
  /\ UNCHANGED <<world, tracked, mode, emitted, age, view, disturbed, changes>>

(* try_send, after the mutex is released. *)
Send(w) ==
  /\ worker[w].pc = "send"
  /\ LET e == worker[w].event IN
     IF Len(queue) < QueueMax
       THEN /\ queue' = Append(queue, e)
            /\ UNCHANGED disturbed
       ELSE /\ disturbed' = disturbed \cup {e.key}
            /\ UNCHANGED queue
  /\ worker' = [worker EXCEPT ![w] = Idle]
  /\ UNCHANGED <<world, tracked, mode, emitted, age, view, changes>>

----------------------------------------------------------------------------
(* The rest of the system. *)

Deliver ==
  /\ queue # <<>>
  /\ view' = [view EXCEPT ![Head(queue).key] = Head(queue).state]
  /\ queue' = Tail(queue)
  /\ UNCHANGED <<world, tracked, mode, emitted, age, worker, disturbed, changes>>

Tick ==
  /\ \E k \in Servers : age[k] < HeartbeatInterval
  /\ age' = [k \in Servers |-> IF age[k] < HeartbeatInterval THEN age[k] + 1 ELSE age[k]]
  /\ UNCHANGED <<world, tracked, mode, emitted, worker, queue, view, disturbed, changes>>

Change == changes < MaxChanges /\ changes' = changes + 1

WorldChanges(k) ==
  /\ Change
  /\ \E a \in Answer \ {world[k]} : world' = [world EXCEPT ![k] = a]
  /\ UNCHANGED <<tracked, mode, emitted, age, worker, queue, view, disturbed>>

(* The refresh finds another address: reset_emitted(), and another server  *)
(* answers from now on.                                                    *)
AddressChanges(k) ==
  /\ Change
  /\ \E a \in Answer : world' = [world EXCEPT ![k] = a]
  /\ emitted' = [emitted EXCEPT ![k] = Nothing]
  /\ age' = [age EXCEPT ![k] = HeartbeatInterval]
  /\ UNCHANGED <<tracked, mode, worker, queue, view, disturbed>>

(* The refresh finds another verification or a plugin that went stale. *)
ModeChanges(k) ==
  /\ Change
  /\ \E m \in Modes \ {mode[k]} : mode' = [mode EXCEPT ![k] = m]
  /\ UNCHANGED <<world, tracked, emitted, age, worker, queue, view, disturbed>>

(* A refresh does not find the server. *)
Untrack(k) ==
  /\ Change /\ tracked[k]
  /\ tracked' = [tracked EXCEPT ![k] = FALSE]
  /\ UNCHANGED <<world, mode, emitted, age, worker, queue, view, disturbed>>

(* A new state, with nothing emitted: of a server that was not tracked, or *)
(* by a force ping that fetched the row while a refresh inserted it too.   *)
Insert(k) ==
  /\ IF tracked[k] THEN Change ELSE UNCHANGED changes
  /\ tracked' = [tracked EXCEPT ![k] = TRUE]
  /\ \E m \in Modes : mode' = [mode EXCEPT ![k] = m]
  /\ emitted' = [emitted EXCEPT ![k] = Nothing]
  /\ age' = [age EXCEPT ![k] = HeartbeatInterval]
  /\ UNCHANGED <<world, worker, queue, view, disturbed>>

Init ==
  /\ world \in [Servers -> Answer]
  /\ tracked = [k \in Servers |-> TRUE]
  /\ mode \in [Servers -> Modes]
  /\ emitted = [k \in Servers |-> Nothing]
  /\ age = [k \in Servers |-> HeartbeatInterval]
  /\ worker = [w \in Workers |-> Idle]
  /\ queue = <<>>
  /\ view = [k \in Servers |-> Down]
  /\ disturbed = {}
  /\ changes = 0

Proceed(w) == Found(w) \/ Update(w) \/ UpdateGone(w) \/ Send(w)

Next ==
  \/ \E w \in Workers : (\E k \in Servers : StartPoll(w, k)) \/ Proceed(w)
  \/ Deliver
  \/ Tick
  \/ \E k \in Servers : WorldChanges(k) \/ AddressChanges(k) \/ ModeChanges(k)
                         \/ Untrack(k) \/ Insert(k)

Spec == Init /\ [][Next]_vars

(* Every server keeps being polled (KeepsPolling of module Polling), the   *)
(* workers and the ingest loop run, and time passes.                       *)
FairSpec ==
  /\ Spec
  /\ \A k \in Servers : SF_vars(\E w \in Workers : StartPoll(w, k))
  /\ \A w \in Workers : WF_vars(Proceed(w))
  /\ WF_vars(Deliver)
  /\ WF_vars(Tick)

----------------------------------------------------------------------------
(* What monitoring-service knows of server k once it has been given the    *)
(* first n events of the queue                                             *)
Told(k, n, s) ==
  \/ \E j \in 1..n : /\ queue[j].key = k /\ queue[j].state = s
                     /\ \A h \in (j + 1)..n : queue[h].key # k
  \/ (\A h \in 1..n : queue[h].key # k) /\ view[k] = s

(* Event e tells of the change from state p that its type names, or of     *)
(* none.                                                                   *)
Means(e, p) ==
  /\ e.type = "server_up"      => e.state.up /\ ~p.up
  /\ e.type = "server_down"    => ~e.state.up /\ p.up
  /\ e.type = "online_changed" => e.state.up = p.up /\ e.state.online # p.online
  /\ e.type = "state_updated"  => e.state.up = p.up /\ e.state.online = p.online
                                  /\ e.state.meta # p.meta
  /\ e.type = "heartbeat"      => e.state = p

(* "Compares incoming snapshots with the last known state to trigger       *)
(* events only when data actually changes." (README.md:30): an event that  *)
(* announces a change differs from the event before it in the queue in the *)
(* way its type says, and a heartbeat does not differ, whatever the        *)
(* catalog changes meanwhile, as long as the queue dropped no event of the *)
(* server and no two of its events raced from the mutex to the queue.      *)
EventsMeanChanges ==
  \A i \in 1..Len(queue), p \in State :
    queue[i].key \notin disturbed /\ Told(queue[i].key, i - 1, p) => Means(queue[i], p)

Agrees(s, a) == s.up = a.up /\ (a.up => s = a)

(* Once the world has settled, monitoring-service ends up with its state,  *)
(* whatever was dropped by the full queue or overtaken by an older answer: *)
(* the heartbeat repeats the state last emitted.  A server in "probe" mode *)
(* may be down without anybody telling, one that is untracked keeps the    *)
(* state it had.                                                           *)
Converges ==
  \A k \in Servers : <>[](\/ Agrees(view[k], world[k])
                          \/ mode[k] = "probe" /\ ~world[k].up
                          \/ ~tracked[k])
=============================================================================
