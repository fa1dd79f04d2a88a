-------------------------- MODULE SchedulerProofs --------------------------
(***************************************************************************)
(* Theorems about Scheduler, for any number of schedule() calls and any    *)
(* clock: no wakeup is lost, and every step is a step of a delay queue.    *)
(***************************************************************************)
EXTENDS Scheduler, TLAPS

(* The heap, the counters and the notification state stay well formed.     *)
THEOREM SchedulerTypeCorrect == Spec => []TypeOK
<1>1. Init => TypeOK
  <2>1. 0 \in 0..MaxTime /\ 0 \in 0..MaxCalls /\ 0 \in Nat
    BY SchedulerAssumption
  <2>2. Init => permit \in BOOLEAN /\ woken \in BOOLEAN
    BY DEF Init
  <2> QED
    BY <2>1, <2>2, Zenon DEF Init, TypeOK, Time
<1>2. TypeOK /\ [Next]_vars => TypeOK'
  <2> SUFFICES ASSUME TypeOK, [Next]_vars PROVE TypeOK'
    OBVIOUS
  <2> USE SchedulerAssumption
  <2>1. CASE Tick
    BY <2>1 DEF Tick, TypeOK, Time
  <2>2. CASE Schedule
    <3>1. PICK due \in Time : spawned' = spawned \cup {[id |-> calls + 1, due |-> due]}
      BY <2>2 DEF Schedule
    <3>2. calls + 1 \in 1..MaxCalls
      BY <2>2 DEF Schedule, TypeOK
    <3>3. spawned' \subseteq Call
      BY <3>1, <3>2 DEF TypeOK, Call
    <3> QED
      BY <2>2, <3>2, <3>3 DEF Schedule, TypeOK
  <2>3. ASSUME NEW t \in spawned, Push(t) PROVE TypeOK'
    <3>1. t \in Call
      BY DEF TypeOK
    <3>2. [id |-> t.id, due |-> t.due, seq |-> counter + 1] \in Entry
      BY <3>1 DEF TypeOK, Call, Entry
    <3> QED
      BY <2>3, <3>2 DEF Push, TypeOK
  <2>4. CASE NotifyOne
    <3>1. permit' \in BOOLEAN /\ woken' \in BOOLEAN
      BY <2>4 DEF NotifyOne, TypeOK
    <3>2. notifying' \in Nat
      BY <2>4 DEF NotifyOne, TypeOK
    <3> QED
      BY <2>4, <3>1, <3>2 DEF NotifyOne, TypeOK
  <2>5. CASE Peek
    <3>1. \A e \in heap : e.due \in Time
      BY DEF TypeOK, Entry
    <3>2. target' \in Time
      BY <2>5, <3>1 DEF Peek, TypeOK
    <3> QED
      BY <2>5, <3>2 DEF Peek, TypeOK
  <2>6. CASE Pop
    <3>1. \A e \in heap : e.id \in 1..MaxCalls
      BY DEF TypeOK, Entry
    <3>2. heap' \subseteq heap /\ returned' \subseteq 1..MaxCalls
      BY <2>6, <3>1 DEF Pop, TypeOK
    <3> QED
      BY <2>6, <3>2 DEF Pop, TypeOK
  <2>7. CASE Call_next_due \/ Decide \/ Notified \/ SleepElapsed
    BY <2>7 DEF Call_next_due, Decide, Notified, SleepElapsed, TypeOK
  <2>8. CASE UNCHANGED vars
    BY <2>8 DEF vars, TypeOK
  <2> QED
    BY <2>1, <2>2, <2>3, <2>4, <2>5, <2>6, <2>7, <2>8 DEF Next, NextDue
<1> QED
  BY <1>1, <1>2, PTL DEF Spec

(* next_due() never waits or sleeps past an entry in the heap unless a     *)
(* notification is on its way to it, wherever a push falls.  The invariant *)
(* is inductive: a peek establishes it, a push pays for what it breaks     *)
(* with a pending notification, and a notification that is consumed sends  *)
(* the loop back to the peek.                                              *)
THEOREM NoLostWakeupHolds == Spec => []NoLostWakeup
<1>1. Init => NoLostWakeup
  BY DEF Init, NoLostWakeup
<1>2. TypeOK /\ NoLostWakeup /\ [Next]_vars => NoLostWakeup'
  <2> SUFFICES ASSUME TypeOK, NoLostWakeup, [Next]_vars PROVE NoLostWakeup'
    OBVIOUS
  <2>1. ASSUME NEW t \in spawned, Push(t) PROVE NoLostWakeup'
    BY <2>1 DEF Push, NoLostWakeup, Signalled, TypeOK
  <2>2. CASE NotifyOne
    <3>1. Signalled'
      BY <2>2 DEF NotifyOne, Signalled, TypeOK
    <3> QED
      BY <3>1 DEF NoLostWakeup
  <2>3. CASE Peek
    <3>1. CASE heap = {} /\ pc' = "wait"
      BY <2>3, <3>1 DEF Peek, NoLostWakeup
    <3>2. CASE \E e \in heap : Top(e) /\ pc' = "decide" /\ target' = e.due
      <4>1. PICK e \in heap : Top(e) /\ pc' = "decide" /\ target' = e.due
        BY <3>2
      <4>2. \A x \in heap : x.due >= e.due
        BY <4>1 DEF Top, Before, TypeOK, Entry, Time
      <4> QED
        BY <2>3, <4>1, <4>2 DEF Peek, NoLostWakeup
    <3> QED
      BY <2>3, <3>1, <3>2 DEF Peek
  <2>4. CASE Decide
    BY <2>4 DEF Decide, NoLostWakeup, Signalled
  <2>5. CASE Call_next_due \/ Notified \/ SleepElapsed \/ Pop
    <3>1. pc' \in {"peek", "pop", "caller"}
      BY <2>5 DEF Call_next_due, Notified, SleepElapsed, Pop
    <3> QED
      BY <3>1 DEF NoLostWakeup
  <2>6. CASE Tick \/ Schedule \/ UNCHANGED vars
    BY <2>6 DEF Tick, Schedule, vars, NoLostWakeup, Signalled
  <2> QED
    BY <2>1, <2>2, <2>3, <2>4, <2>5, <2>6 DEF Next, NextDue
<1> QED
  BY <1>1, <1>2, SchedulerTypeCorrect, PTL DEF Spec

(* The scheduler implements the safety part of DelayQueue: an entry comes  *)
(* out once, when due, the earliest first and in order of entry.           *)
THEOREM SchedulerIsDelayQueue == Spec => Abstract!Spec
<1>1. Init => Abstract!Init
  BY DEF Init, Abstract!Init
<1>2. [Next]_vars => [Abstract!Next]_Abstract!qvars
  <2> SUFFICES ASSUME [Next]_vars PROVE [Abstract!Next]_Abstract!qvars
    OBVIOUS
  <2> USE DEF Abstract!Next, Abstract!qvars
  <2>1. CASE Tick
    BY <2>1 DEF Tick, Abstract!Tick
  <2>2. CASE Schedule
    BY <2>2 DEF Schedule, Abstract!Submit, Time
  <2>3. ASSUME NEW t \in spawned, Push(t) PROVE Abstract!EnterAny
    BY <2>3 DEF Push, Abstract!Enter, Abstract!EnterAny
  <2>4. CASE Pop
    <3>1. CASE \E e \in heap : /\ Top(e) /\ e.due <= now
                               /\ heap' = heap \ {e}
                               /\ returned' = returned \cup {e.id}
      BY <2>4, <3>1 DEF Pop, Top, Before, Abstract!Take, Abstract!First, Abstract!Before
    <3>2. CASE UNCHANGED <<heap, returned>>
      BY <2>4, <3>2 DEF Pop
    <3> QED
      BY <2>4, <3>1, <3>2 DEF Pop
  <2>5. CASE NotifyOne \/ Call_next_due \/ Peek \/ Decide \/ Notified \/ SleepElapsed
    BY <2>5 DEF NotifyOne, Call_next_due, Peek, Decide, Notified, SleepElapsed
  <2>6. CASE UNCHANGED vars
    BY <2>6 DEF vars
  <2> QED
    BY <2>1, <2>2, <2>3, <2>4, <2>5, <2>6 DEF Next, NextDue
<1> QED
  BY <1>1, <1>2, PTL DEF Spec, Abstract!Spec
=============================================================================
