----------------------------- MODULE Scheduler ------------------------------
(***************************************************************************)
(* SchedulerHandle of src/src/scheduler.rs: the heap behind its mutex, the *)
(* task schedule() spawns to push an entry and then notify, and the loop   *)
(* of next_due(), which peeks, sleeps or waits for a notification, and     *)
(* pops.  A step ends where the code releases the mutex or awaits, so      *)
(* pushes and notifications fall between any two steps of the loop.        *)
(*                                                                         *)
(* Abstractions: seconds are whole ticks; a key is the number of the       *)
(* schedule() call that brought it; the u64 counter does not wrap.         *)
(*                                                                         *)
(* tokio::sync::Notify holds at most one permit: notify_one() wakes the    *)
(* registered waiter or stores the permit, notified() consumes it, and a   *)
(* woken waiter that is dropped (the other branch of select! won) hands    *)
(* its notification back.                                                  *)
(***************************************************************************)
EXTENDS Naturals

CONSTANTS
  MaxCalls,   (* bound on the calls of schedule() *)
  MaxTime     (* bound on the clock               *)

ASSUME SchedulerAssumption == MaxCalls \in Nat /\ MaxTime \in Nat

VARIABLES
  now,        (* SchedulerHandle::now()                                     *)
  calls,      (* calls of schedule() so far                                 *)
  spawned,    (* tasks of schedule() that have not taken the mutex yet      *)
  heap,       (* Inner::heap                                                *)
  counter,    (* Inner::counter                                             *)
  notifying,  (* tasks between drop(lock) and notify_one()                  *)
  permit,     (* Notify: a stored permit                                    *)
  woken,      (* Notify: the registered waiter has been notified            *)
  pc,         (* where next_due() is                                        *)
  target,     (* due time of the entry next_due() has peeked at             *)
  returned    (* history: the entries next_due() has returned               *)

vars == <<now, calls, spawned, heap, counter, notifying, permit, woken, pc,
          target, returned>>

Time == 0..MaxTime

Call  == [id: 1..MaxCalls, due: Time]
Entry == [id: 1..MaxCalls, due: Time, seq: Nat]

TypeOK ==
  /\ now \in Time
  /\ calls \in 0..MaxCalls
  /\ spawned \subseteq Call
  /\ heap \subseteq Entry
  /\ counter \in Nat
  /\ notifying \in Nat
  /\ permit \in BOOLEAN /\ woken \in BOOLEAN
  /\ pc \in {"caller", "peek", "wait", "decide", "sleep", "pop"}
  /\ target \in Time
  /\ returned \subseteq 1..MaxCalls

(* Ord for ScheduleEntry, reversed for a min-heap. *)
Before(a, b) == a.due < b.due \/ (a.due = b.due /\ a.seq <= b.seq)

Top(e) == e \in heap /\ \A x \in heap : Before(e, x)

----------------------------------------------------------------------------
Tick ==
  /\ now < MaxTime
  /\ now' = now + 1
  /\ UNCHANGED <<calls, spawned, heap, counter, notifying, permit, woken, pc, target, returned>>

(* schedule(key, due) only spawns a task; callers pass any due time. *)
Schedule ==
  /\ calls < MaxCalls
  /\ calls' = calls + 1
  /\ \E due \in Time : spawned' = spawned \cup {[id |-> calls + 1, due |-> due]}
  /\ UNCHANGED <<now, heap, counter, notifying, permit, woken, pc, target, returned>>

(* Mutated form: notify only when the heap was empty. *)
MutPushQuiet(t) ==
  /\ t \in spawned
  /\ spawned' = spawned \ {t}
  /\ counter' = counter + 1
  /\ heap' = heap \cup {[id |-> t.id, due |-> t.due, seq |-> counter + 1]}
  /\ notifying' = IF heap = {} THEN notifying + 1 ELSE notifying
  /\ UNCHANGED <<now, calls, permit, woken, pc, target, returned>>

(* The task under the mutex. *)
Push(t) ==
  /\ t \in spawned
  /\ spawned' = spawned \ {t}
  /\ counter' = counter + 1
  /\ heap' = heap \cup {[id |-> t.id, due |-> t.due, seq |-> counter + 1]}
  /\ notifying' = notifying + 1
  /\ UNCHANGED <<now, calls, permit, woken, pc, target, returned>>

Registered == pc \in {"wait", "sleep"}

(* The task after the mutex: notify_one(). *)
NotifyOne ==
  /\ notifying > 0
  /\ notifying' = notifying - 1
  /\ IF Registered /\ ~woken /\ ~permit
       THEN woken' = TRUE /\ UNCHANGED permit
       ELSE permit' = TRUE /\ UNCHANGED woken
  /\ UNCHANGED <<now, calls, spawned, heap, counter, pc, target, returned>>

(* scheduler_loop is ready for the next key. *)
Call_next_due ==
  /\ pc = "caller"
  /\ pc' = "peek"
  /\ UNCHANGED <<now, calls, spawned, heap, counter, notifying, permit, woken, target, returned>>

(* Mutated form: sleep past the end of time on an empty heap. *)
MutPeekForever ==
  /\ pc = "peek"
  /\ pc' = "decide"
  /\ \/ heap = {} /\ target' = MaxTime + 1
     \/ \E e \in heap : Top(e) /\ target' = e.due
  /\ UNCHANGED <<now, calls, spawned, heap, counter, notifying, permit, woken, returned>>

Peek ==
  /\ pc = "peek"
  /\ \/ heap = {} /\ pc' = "wait" /\ UNCHANGED target
     \/ \E e \in heap : Top(e) /\ pc' = "decide" /\ target' = e.due
  /\ UNCHANGED <<now, calls, spawned, heap, counter, notifying, permit, woken, returned>>

Decide ==
  /\ pc = "decide"
  /\ pc' = IF target > now THEN "sleep" ELSE "pop"
  /\ UNCHANGED <<now, calls, spawned, heap, counter, notifying, permit, woken, target, returned>>

(* notified().await, on an empty heap or in the select!. *)
Notified ==
  /\ Registered
  /\ woken \/ permit
  /\ IF woken THEN woken' = FALSE /\ UNCHANGED permit
              ELSE permit' = FALSE /\ UNCHANGED woken
  /\ pc' = "peek"
  /\ UNCHANGED <<now, calls, spawned, heap, counter, notifying, target, returned>>

(* The sleep of the select! is over; the waiter is dropped. *)
SleepElapsed ==
  /\ pc = "sleep"
  /\ target <= now
  /\ pc' = "pop"
  /\ permit' = (permit \/ woken)
  /\ woken' = FALSE
  /\ UNCHANGED <<now, calls, spawned, heap, counter, notifying, target, returned>>

(* Mutated form: return the entry that was peeked at, not what is on top.  *)
MutPop ==
  /\ pc = "pop"
  /\ \E e \in heap :
       /\ e.due = target
       /\ heap' = heap \ {e} /\ returned' = returned \cup {e.id} /\ pc' = "caller"
  /\ UNCHANGED <<now, calls, spawned, counter, notifying, permit, woken, target>>

(* Under the mutex again: pop what is on top by now, if it is due. *)
Pop ==
  /\ pc = "pop"
  /\ \/ \E e \in heap :
          /\ Top(e) /\ e.due <= now
          /\ heap' = heap \ {e}
          /\ returned' = returned \cup {e.id}
          /\ pc' = "caller"
     \/ /\ \A e \in heap : Top(e) => e.due > now
        /\ pc' = "peek"
        /\ UNCHANGED <<heap, returned>>
  /\ UNCHANGED <<now, calls, spawned, counter, notifying, permit, woken, target>>

----------------------------------------------------------------------------
Init ==
  /\ now = 0 /\ calls = 0 /\ counter = 0 /\ notifying = 0
  /\ spawned = {} /\ heap = {} /\ returned = {}
  /\ permit = FALSE /\ woken = FALSE
  /\ pc = "caller" /\ target = 0

NextDue == Call_next_due \/ Peek \/ Decide \/ Notified \/ SleepElapsed \/ Pop

Next ==
  \/ Tick
  \/ Schedule
  \/ \E t \in spawned : Push(t)
  \/ NotifyOne
  \/ NextDue

Spec == Init /\ [][Next]_vars

(* tokio runs every spawned task and the loop; scheduler_loop comes back   *)
(* for the next entry (module Polling shows that its sends do not block    *)
(* forever).                                                               *)
FairSpec ==
  /\ Spec
  /\ WF_vars(\E t \in spawned : Push(t))
  /\ WF_vars(NotifyOne)
  /\ WF_vars(NextDue)

----------------------------------------------------------------------------
(* A notification that will make the loop look at the heap again. *)
Signalled == permit \/ woken \/ notifying > 0

(* No lost wakeup: next_due() waits on an empty heap, or sleeps until an   *)
(* entry is due, only while that is the right thing to wait for: as soon   *)
(* as an earlier entry is in the heap a notification is under way.  The    *)
(* push falls between the peek and the wait in some of these behaviours.   *)
NoLostWakeup ==
  /\ pc = "wait" /\ heap # {} => Signalled
  /\ pc \in {"decide", "sleep"} => \A e \in heap : e.due >= target \/ Signalled

(* The detailed scheduler is a delay queue: entries come out once, when    *)
(* due, in order of due time and of entry, and (with the fairness) the     *)
(* loop never sleeps past one.                                             *)
Abstract == INSTANCE DelayQueue WITH
  clock <- now, submitted <- spawned, queue <- heap, entered <- counter, taken <- returned

IsDelayQueue == Abstract!FairSpec
=============================================================================
