----------------------------- MODULE Discovery -----------------------------
(***************************************************************************)
(* redis_discovery_probe_loop of src/src/sync.rs: requests to probe a      *)
(* candidate are popped from a Redis list one at a time, each is polled    *)
(* (module Ping) before the next is popped, and the result is set under    *)
(* the candidate's key with an expiry.                                     *)
(*                                                                         *)
(* Abstractions:                                                           *)
(*  - A request is its number in the order of arrival, its candidate, and  *)
(*    the target, or "malformed": empty, not JSON, or without an id or a   *)
(*    host.  A result is the number of its request and whether it is ok.   *)
(*  - A key expires at any time (the code keeps it for at least 60 s).     *)
(*  - redis, taken without its connection manager, does not replace a      *)
(*    connection that broke, and the loop asks for one only once.          *)
(***************************************************************************)
EXTENDS Ping, Sequences, SequencesExt

CONSTANTS
  Candidates,
  Targets,        (* targets the requests name              *)
  MaxRequests,    (* bound on the requests                  *)
  MaxFaults       (* bound on broken connections and crashes *)

ASSUME DiscoveryAssumption ==
  /\ Targets \subseteq Target
  /\ MaxRequests \in Nat /\ MaxFaults \in Nat

Malformed == [edition |-> "malformed"]
None      == [n |-> 0]

VARIABLES
  queue,     (* the list at discovery_probe_queue_key                        *)
  current,   (* the request being handled                                    *)
  conn,      (* does the loop's connection work?                             *)
  results,   (* the keys discovery_probe_result_key_prefix + candidate       *)
  sent,      (* requests pushed so far                                       *)
  settled,   (* history: requests answered, or dropped as malformed          *)
  lost,      (* history: requests lost with a connection or a crash          *)
  faults

vars == <<ping, serves, queue, current, conn, results, sent, settled, lost, faults>>

Request == [n: 1..MaxRequests, candidate: Candidates, target: Targets \cup {Malformed}]

TypeOK ==
  /\ PingTypeOK
  /\ queue \in Seq(Request)
  /\ current \in Request \cup {None} /\ (current = None <=> ping = NoPing)
  /\ conn \in BOOLEAN
  /\ results \in [Candidates -> [n: 1..MaxRequests, ok: BOOLEAN] \cup {None}]
  /\ sent \in 0..MaxRequests
  /\ settled \subseteq 1..sent /\ lost \subseteq 1..sent
  /\ faults \in 0..MaxFaults

----------------------------------------------------------------------------
(* The discovery worker or an admin's preview pushes a request. *)
Push(c, t) ==
  /\ sent < MaxRequests
  /\ sent' = sent + 1
  /\ queue' = Append(queue, [n |-> sent + 1, candidate |-> c, target |-> t])
  /\ UNCHANGED <<ping, serves, current, conn, results, settled, lost, faults>>

Expire(c) ==
  /\ results[c] # None
  /\ results' = [results EXCEPT ![c] = None]
  /\ UNCHANGED <<ping, serves, queue, current, conn, sent, settled, lost, faults>>

Fault == faults < MaxFaults /\ faults' = faults + 1

(* A mutated form of Oldest: the newest request. *)
MutOldest == Len(queue)

(* BLPOP takes the oldest. *)
Oldest == 1

Popped == queue[Oldest]
Rest   == RemoveAt(queue, Oldest)

Pop ==
  /\ current = None /\ conn /\ queue # <<>>
  /\ queue' = Rest
  /\ IF Popped.target = Malformed
       THEN /\ settled' = settled \cup {Popped.n}
            /\ UNCHANGED <<ping, serves, current>>
       ELSE /\ current' = Popped
            /\ StartPing(Popped.target)
            /\ UNCHANGED settled
  /\ UNCHANGED <<conn, results, sent, lost, faults>>

(* The connection breaks, before the request is taken or after.  The loop  *)
(* tries again every second, in vain.                                      *)
PopFails ==
  /\ current = None /\ conn /\ Fault
  /\ conn' = FALSE
  /\ \/ UNCHANGED <<queue, lost>>
     \/ queue # <<>> /\ queue' = Rest /\ lost' = lost \cup {Popped.n}
  /\ UNCHANGED <<ping, serves, current, results, sent, settled>>

Probe ==
  /\ current # None
  /\ PingStep
  /\ UNCHANGED <<queue, current, conn, results, sent, settled, lost, faults>>

Answer == [results EXCEPT ![current.candidate] = [n |-> current.n, ok |-> ping = Up]]

Done == ping' = NoPing /\ current' = None /\ UNCHANGED serves

(* A mutated form of Reply: a probe that failed is not answered. *)
MutReply ==
  /\ Ended /\ conn
  /\ results' = IF ping = Up THEN Answer ELSE results
  /\ settled' = IF ping = Up THEN settled \cup {current.n} ELSE settled
  /\ Done
  /\ UNCHANGED <<queue, conn, sent, lost, faults>>

(* SET of the result, whether the probe succeeded or not. *)
Reply ==
  /\ Ended /\ conn
  /\ results' = Answer
  /\ settled' = settled \cup {current.n}
  /\ Done
  /\ UNCHANGED <<queue, conn, sent, lost, faults>>

(* The SET fails, applied or not; the loop goes on to the next request. *)
ReplyFails ==
  /\ Ended
  /\ \/ ~conn /\ UNCHANGED <<conn, faults>>
     \/ conn /\ Fault /\ conn' = FALSE
  /\ \/ UNCHANGED results
     \/ conn /\ results' = Answer
  /\ lost' = lost \cup {current.n}
  /\ Done
  /\ UNCHANGED <<queue, sent, settled>>

(* The process dies and is started again. *)
Restart ==
  /\ Fault
  /\ lost' = IF current = None THEN lost ELSE lost \cup {current.n}
  /\ Done
  /\ conn' = TRUE
  /\ UNCHANGED <<queue, results, sent, settled>>

Init ==
  /\ ping = NoPing /\ serves = 0
  /\ queue = <<>> /\ current = None /\ conn = TRUE
  /\ results = [c \in Candidates |-> None]
  /\ sent = 0 /\ settled = {} /\ lost = {} /\ faults = 0

Loop == Pop \/ Probe \/ Reply \/ ReplyFails

Next ==
  \/ \E c \in Candidates : Expire(c) \/ \E t \in Targets \cup {Malformed} : Push(c, t)
  \/ Loop \/ PopFails
  \/ Restart

Spec == Init /\ [][Next]_vars

(* The loop's task runs, and every wait of a poll ends. *)
FairSpec == Spec /\ WF_vars(Loop)

----------------------------------------------------------------------------
(* Two requests for one candidate may be queued (a worker's and an admin's *)
(* preview): while its key lives, a result is only replaced by that of a   *)
(* later request, also across failures and restarts.                       *)
NeverOlder ==
  [][ \A c \in Candidates :
        results[c] # None /\ results'[c] # None => results'[c].n >= results[c].n ]_vars

(* Every request is settled, whatever its poll meets and however many wait *)
(* before it, unless it was lost with a crash or a broken connection; or   *)
(* it waits for a restart, because the connection broke before.            *)
EveryRequestSettled ==
  \A n \in 1..MaxRequests : sent >= n ~> (n \in settled \cup lost \/ ~conn)
=============================================================================
