----------------------------- MODULE DelayQueue -----------------------------
(***************************************************************************)
(* What SchedulerHandle of src/src/scheduler.rs promises its callers: a    *)
(* submitted entry enters the queue, and the queue hands over its entries  *)
(* one at a time, none before it is due, the earliest due first and, among *)
(* equals, in the order they entered.                                      *)
(***************************************************************************)
EXTENDS Naturals

CONSTANTS
  MaxCalls,   (* bound on the calls of schedule()   *)
  MaxTime     (* bound on the clock                 *)

VARIABLES
  clock,      (* SchedulerHandle::now(), in whole ticks *)
  calls,      (* calls of schedule() so far             *)
  submitted,  (* entries on their way into the queue    *)
  queue,      (* entries in the queue                   *)
  entered,    (* how many entries have entered          *)
  taken       (* entries handed over                    *)

qvars == <<clock, calls, submitted, queue, entered, taken>>

(* An entry is the number of its schedule() call, which stands for its     *)
(* key, and its due time; in the queue it also has its rank of entry.      *)
Before(a, b) == a.due < b.due \/ (a.due = b.due /\ a.seq <= b.seq)

First(q, e) == e \in q /\ \A x \in q : Before(e, x)

Init ==
  /\ clock = 0 /\ calls = 0 /\ entered = 0
  /\ submitted = {} /\ queue = {} /\ taken = {}

Tick ==
  /\ clock < MaxTime
  /\ clock' = clock + 1
  /\ UNCHANGED <<calls, submitted, queue, entered, taken>>

Submit ==
  /\ calls < MaxCalls
  /\ calls' = calls + 1
  /\ \E due \in 0..MaxTime : submitted' = submitted \cup {[id |-> calls + 1, due |-> due]}
  /\ UNCHANGED <<clock, queue, entered, taken>>

Enter(e) ==
  /\ e \in submitted
  /\ submitted' = submitted \ {e}
  /\ entered' = entered + 1
  /\ queue' = queue \cup {[id |-> e.id, due |-> e.due, seq |-> entered + 1]}
  /\ UNCHANGED <<clock, calls, taken>>

Take ==
  /\ \E e \in queue :
       /\ First(queue, e)
       /\ e.due <= clock
       /\ queue' = queue \ {e}
       /\ taken' = taken \cup {e.id}
  /\ UNCHANGED <<clock, calls, submitted, entered>>

EnterAny == \E e \in submitted : Enter(e)

Next == Tick \/ Submit \/ EnterAny \/ Take

Spec == Init /\ [][Next]_qvars

(* What is submitted enters, and while the first entry is due the queue    *)
(* keeps handing over.                                                     *)
FairSpec == Spec /\ WF_qvars(EnterAny) /\ WF_qvars(Take)
=============================================================================
