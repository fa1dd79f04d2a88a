------------------------------ MODULE Outcome ------------------------------
(***************************************************************************)
(* What a finished poll does to the state of its server and to the         *)
(* catalog: the failure counters and the next interval, the probe for      *)
(* Bedrock support with its UpdateServerEdition, and the favicon with its  *)
(* UpdateServerFavicon.  Source: process_work_item of src/src/collector.rs,*)
(* maybe_probe_bedrock and maybe_update_favicon of src/src/ping.rs,        *)
(* build_state and its helpers of src/src/models.rs, and the refresh and   *)
(* force ping of src/src/sync.rs that write the same state.                *)
(*                                                                         *)
(* The worker keeps the `states` mutex across the awaits of the probe and  *)
(* of both calls; the catalog, the world, the fetch of the refresh and the *)
(* polls of the other workers go on meanwhile.                             *)
(*                                                                         *)
(* Abstractions:                                                           *)
(*  - One server.  Others only make its tasks wait for the mutex.          *)
(*  - next_bedrock_probe is None or some time nobody compares with now.    *)
(*  - A favicon stands for its own hash; one that is no data:image URL is  *)
(*    NoFavicon.                                                           *)
(*  - initial_failures counts up to the threshold it is compared with; the *)
(*    jitter of the interval and the plugin interval (a constant) are left *)
(*    out; consecutive_failures is never read.                             *)
(***************************************************************************)
EXTENDS Naturals

CONSTANTS
  Workers,
  Favicons,        (* favicons a Java server may show                        *)
  FirstFavicons,   (* those it may show when the poller starts               *)
  ProbeEnabled,    (* settings.collector.bedrock_probe_interval_seconds # 0  *)
  FailuresBeforeSlowdown, SlowdownMultiplier,  (* settings.collector         *)
  OnlineInterval, OfflineInterval, MaxSlowInterval,
  MaxChanges,      (* bound on changes of the world and edits of the catalog *)
  MaxFailures      (* bound on failed fetches, probes and calls and restarts *)

Nobody == "nobody"   (* the holder of a mutex that is free *)

ASSUME OutcomeAssumption ==
  /\ FirstFavicons \subseteq Favicons
  /\ Nobody \notin Workers
  /\ ProbeEnabled \in BOOLEAN
  /\ FailuresBeforeSlowdown \in Nat
  /\ \A n \in {SlowdownMultiplier, OnlineInterval, OfflineInterval, MaxSlowInterval,
               MaxChanges, MaxFailures} : n \in Nat

Edition   == {"java", "bedrock", "java_bedrock"}
NoFavicon == "no favicon"
Gone      == "gone"       (* the edition of a server the catalog does not list *)
NotPolled == 0           (* no interval yet *)
Nothing   == [pc |-> "nothing"]

VARIABLES
  world,    (* what a poll and a probe would find                            *)
  catalog,  (* the server's row at server-service                            *)
  page,     (* the row a refresh has fetched and not applied yet             *)
  pinger,   (* the row a force ping has fetched and not inserted yet         *)
  state,    (* its ServerState, if it is tracked                             *)
  lock,     (* who holds the states mutex across an await                    *)
  worker,   (* what each worker is doing                                     *)
  answered, (* history: a poll of the server succeeded since it is tracked   *)
  failed,   (* history: polls that failed in a row, up to the threshold      *)
  doubt,    (* history: the last upload that was applied was reported as    *)
            (* failed, and the state remembers another one                  *)
  changes, failures

vars == <<world, catalog, page, pinger, state, lock, worker, answered, failed, doubt, changes, failures>>

(* `behind`: the catalog's edition changed after the row was fetched. *)
Fetched == [pc: {"row"}, edition: Edition \cup {Gone}, behind: BOOLEAN]

Least(a, b) == IF a < b THEN a ELSE b
Most(a, b)  == IF a < b THEN b ELSE a

ServerState ==
  [pc: {"tracked"}, edition: Edition, behind: BOOLEAN, probe: BOOLEAN,
   hash: Favicons \cup {NoFavicon}, succeeded: BOOLEAN,
   initial: 0..FailuresBeforeSlowdown, interval: Nat]

Answer == [up: BOOLEAN, favicon: Favicons \cup {NoFavicon}]

(* wants_bedrock_probe of the row *)
WantsProbe(edition) == ProbeEnabled /\ edition = "java"

(* The server is probed exactly while its row, as the poller knows it,     *)
(* says Java; in the middle of a critical section its worker holds the     *)
(* mutex.                                                                  *)
TypeOK ==
  /\ world \in [up: BOOLEAN, bedrock: BOOLEAN, favicon: Favicons \cup {NoFavicon}]
  /\ catalog \in [edition: Edition \cup {Gone}, favicon: Favicons \cup {NoFavicon}]
  /\ page \in Fetched \cup {Nothing} /\ pinger \in Fetched \cup {Nothing}
  /\ state \in ServerState \cup {Nothing}
  /\ state # Nothing => state.probe = WantsProbe(state.edition)
  /\ lock \in Workers \cup {Nobody}
  /\ worker \in [Workers -> {Nothing} \cup [pc: {"poll"}, bedrock: BOOLEAN]
       \cup [pc: {"enter", "probe", "promote", "promoted", "upload", "uploaded"}, answer: Answer]]
  /\ \A w \in Workers :
       lock = w <=> worker[w].pc \notin {"nothing", "poll", "enter"}
  /\ lock # Nobody => state # Nothing
  /\ answered \in BOOLEAN /\ doubt \in BOOLEAN /\ failed \in 0..FailuresBeforeSlowdown
  /\ changes \in 0..MaxChanges /\ failures \in 0..MaxFailures

----------------------------------------------------------------------------
(* The states of a server that the other tasks write under the mutex. *)

(* build_state of a fetched row *)
NewState(row) ==
  [pc |-> "tracked", edition |-> row.edition, behind |-> row.behind,
   probe |-> WantsProbe(row.edition), hash |-> NoFavicon, succeeded |-> FALSE,
   initial |-> 0, interval |-> NotPolled]

(* A mutated form of Updated: a probe that is set is never taken back. *)
MutUpdated(row) ==
  [state EXCEPT !.edition = row.edition, !.behind = row.behind,
                !.probe = @ \/ WantsProbe(row.edition)]

(* Another: the row of a server that is tracked is not replaced. *)
MutKept(row) == [state EXCEPT !.probe = WantsProbe(state.edition)]

(* The refresh's update of a server that is tracked already. *)
Updated(row) ==
  [state EXCEPT !.edition = row.edition, !.behind = row.behind,
                !.probe = WantsProbe(row.edition)]

Track(row) ==
  /\ state' = NewState(row)
  /\ answered' = FALSE /\ failed' = 0 /\ doubt' = FALSE

(* fetch_servers: the mutex is not held. *)
FetchPage ==
  /\ page = Nothing
  /\ page' = [pc |-> "row", edition |-> catalog.edition, behind |-> FALSE]
  /\ UNCHANGED <<world, catalog, pinger, state, lock, worker, answered, failed, doubt, changes, failures>>

(* The list is incomplete or empty; one without the server untracks it if  *)
(* any other server is in it.                                              *)
FetchFails ==
  /\ page = Nothing /\ failures < MaxFailures
  /\ failures' = failures + 1
  /\ page' = [pc |-> "row", edition |-> Gone, behind |-> TRUE]
  /\ UNCHANGED <<world, catalog, pinger, state, lock, worker, answered, failed, doubt, changes>>

ApplyPage ==
  /\ page # Nothing /\ lock = Nobody
  /\ page' = Nothing
  /\ \/ page.edition = Gone /\ state' = Nothing /\ UNCHANGED <<answered, failed, doubt>>
     \/ page.edition # Gone /\ state = Nothing /\ Track(page)
     \/ page.edition # Gone /\ state # Nothing /\ state' = Updated(page)
        /\ UNCHANGED <<answered, failed, doubt>>
  /\ UNCHANGED <<world, catalog, pinger, lock, worker, changes, failures>>

(* A force ping of a server that is not tracked fetches its row without    *)
(* the mutex and inserts a new state, whatever the map holds by then.      *)
ForcePingFetch ==
  /\ pinger = Nothing /\ state = Nothing /\ catalog.edition # Gone
  /\ pinger' = [pc |-> "row", edition |-> catalog.edition, behind |-> FALSE]
  /\ UNCHANGED <<world, catalog, page, state, lock, worker, answered, failed, doubt, changes, failures>>

ForcePingInsert ==
  /\ pinger # Nothing /\ lock = Nobody
  /\ Track(pinger)
  /\ pinger' = Nothing
  /\ UNCHANGED <<world, catalog, page, lock, worker, changes, failures>>

----------------------------------------------------------------------------
(* A worker. *)

At(w, pc) == worker[w].pc = pc
Goto(w, pc) == worker' = [worker EXCEPT ![w].pc = pc]

(* The snapshot of the edition to poll (normalize_edition knows two); a    *)
(* server that is not tracked is not polled.                               *)
StartPoll(w) ==
  /\ worker[w] = Nothing /\ state # Nothing /\ lock = Nobody
  /\ worker' = [worker EXCEPT ![w] = [pc |-> "poll", bedrock |-> state.edition = "bedrock"]]
  /\ UNCHANGED <<world, catalog, page, pinger, state, lock, answered, failed, doubt, changes, failures>>

(* poll_server: only the answer of a Java server has a favicon. *)
Found(w) ==
  /\ At(w, "poll")
  /\ worker' = [worker EXCEPT ![w] = [pc |-> "enter", answer |->
       IF worker[w].bedrock THEN [up |-> world.bedrock, favicon |-> NoFavicon]
       ELSE [up |-> world.up, favicon |-> IF world.up THEN world.favicon ELSE NoFavicon]]]
  /\ UNCHANGED <<world, catalog, page, pinger, state, lock, answered, failed, doubt, changes, failures>>

UpTo(n) == IF n < FailuresBeforeSlowdown THEN n + 1 ELSE n

(* A mutated form of Counted: a success is not remembered. *)
MutCounted(up) ==
  IF up THEN [state EXCEPT !.initial = 0] ELSE [state EXCEPT !.initial = UpTo(@)]

(* has_succeeded and initial_failures after a poll *)
Counted(up) ==
  [state EXCEPT !.succeeded = @ \/ up,
                !.initial = IF up \/ state.succeeded THEN @ ELSE UpTo(@)]

(* The interval to the next poll, without its jitter *)
NextInterval(st, up) ==
  IF ~up /\ ~st.succeeded /\ st.initial >= FailuresBeforeSlowdown
    THEN Least(Most(OfflineInterval * SlowdownMultiplier, OfflineInterval), MaxSlowInterval)
    ELSE IF up THEN OnlineInterval ELSE OfflineInterval

(* The next poll is scheduled and the mutex released. *)
Leave(w, st) ==
  /\ state' = [st EXCEPT !.interval = NextInterval(st, worker[w].answer.up)]
  /\ lock' = Nobody
  /\ worker' = [worker EXCEPT ![w] = Nothing]

(* Entry of maybe_update_favicon: there is a favicon, and it is another    *)
(* one than the last uploaded.                                             *)
ThenFavicon(w, st) ==
  IF worker[w].answer.favicon \in {NoFavicon, st.hash}
    THEN Leave(w, st)
    ELSE state' = st /\ lock' = w /\ Goto(w, "upload")

(* The mutex is taken; a server that is gone is forgotten. *)
EnterGone(w) ==
  /\ At(w, "enter") /\ lock = Nobody /\ state = Nothing
  /\ worker' = [worker EXCEPT ![w] = Nothing]
  /\ UNCHANGED <<world, catalog, page, pinger, state, lock, answered, failed, doubt, changes, failures>>

Enter(w) ==
  /\ At(w, "enter") /\ lock = Nobody /\ state # Nothing
  /\ LET up == worker[w].answer.up IN
     /\ answered' = (answered \/ up)
     /\ failed' = IF up THEN 0 ELSE UpTo(failed)
     /\ IF state.probe THEN state' = Counted(up) /\ lock' = w /\ Goto(w, "probe")
                       ELSE ThenFavicon(w, Counted(up))
  /\ UNCHANGED <<world, catalog, page, pinger, doubt, changes, failures>>

(* A mutated form of Rescheduled: the probe is left as it was. *)
MutRescheduled(edition) == [state EXCEPT !.edition = edition]

(* schedule_next_bedrock_probe, of the row as it is now *)
Rescheduled(edition) == [state EXCEPT !.edition = edition, !.probe = WantsProbe(edition)]

(* The probe, or the call after it, brought nothing. *)
Silent(w) == ThenFavicon(w, Rescheduled(state.edition))

(* maybe_probe_bedrock: one ping, and if it is answered the call. *)
ProbeAnswered(w) ==
  /\ At(w, "probe") /\ world.bedrock
  /\ Goto(w, "promote")
  /\ UNCHANGED <<world, catalog, page, pinger, state, lock, answered, failed, doubt, changes, failures>>

(* Nobody answers, or a datagram is lost. *)
ProbeFails(w) ==
  /\ At(w, "probe")
  /\ \/ ~world.bedrock /\ UNCHANGED failures
     \/ failures < MaxFailures /\ failures' = failures + 1
  /\ Silent(w)
  /\ UNCHANGED <<world, catalog, page, pinger, answered, failed, doubt, changes>>

(* The catalog's row changes; what was fetched before is behind. *)
Edited(edition) ==
  /\ catalog' = [catalog EXCEPT !.edition = edition]
  /\ page'   = IF page = Nothing THEN page ELSE [page EXCEPT !.behind = TRUE]
  /\ pinger' = IF pinger = Nothing THEN pinger ELSE [pinger EXCEPT !.behind = TRUE]

(* UpdateServerEdition is applied by server-service. *)
Promote(w) ==
  /\ At(w, "promote") /\ catalog.edition # Gone
  /\ IF catalog.edition = "java_bedrock"
       THEN UNCHANGED <<catalog, page, pinger, state>>
       ELSE Edited("java_bedrock") /\ state' = [state EXCEPT !.behind = TRUE]
  /\ Goto(w, "promoted")
  /\ UNCHANGED <<world, lock, answered, failed, doubt, changes, failures>>

(* The reply: only with it does the poller's row say java_bedrock. *)
Promoted(w) ==
  /\ At(w, "promoted")
  /\ ThenFavicon(w, Rescheduled("java_bedrock"))
  /\ UNCHANGED <<world, catalog, page, pinger, answered, failed, doubt, changes, failures>>

(* The server is not known, the call is not applied, or it is and the      *)
(* reply does not arrive.                                                  *)
PromoteFails(w) ==
  /\ \/ At(w, "promote") /\ catalog.edition = Gone /\ UNCHANGED failures
     \/ (At(w, "promote") \/ At(w, "promoted")) /\ failures < MaxFailures /\ failures' = failures + 1
  /\ Silent(w)
  /\ UNCHANGED <<world, catalog, page, pinger, answered, failed, doubt, changes>>

(* UpdateServerFavicon is applied. *)
Upload(w) ==
  /\ At(w, "upload") /\ catalog.edition # Gone
  /\ catalog' = [catalog EXCEPT !.favicon = worker[w].answer.favicon]
  /\ Goto(w, "uploaded")
  /\ UNCHANGED <<world, page, pinger, state, lock, answered, failed, doubt, changes, failures>>

(* The reply: only with it is the hash remembered. *)
Uploaded(w) ==
  /\ At(w, "uploaded")
  /\ Leave(w, [state EXCEPT !.hash = worker[w].answer.favicon])
  /\ doubt' = FALSE
  /\ UNCHANGED <<world, catalog, page, pinger, answered, failed, changes, failures>>

(* A mutated form of UploadFails: the hash is remembered all the same. *)
MutUploadFails(w) ==
  /\ \/ At(w, "upload") /\ catalog.edition = Gone /\ UNCHANGED failures
     \/ (At(w, "upload") \/ At(w, "uploaded")) /\ failures < MaxFailures /\ failures' = failures + 1
  /\ Leave(w, [state EXCEPT !.hash = worker[w].answer.favicon])
  /\ doubt' = (doubt \/ At(w, "uploaded"))
  /\ UNCHANGED <<world, catalog, page, pinger, answered, failed, changes>>

UploadFails(w) ==
  /\ \/ At(w, "upload") /\ catalog.edition = Gone /\ UNCHANGED failures
     \/ (At(w, "upload") \/ At(w, "uploaded")) /\ failures < MaxFailures /\ failures' = failures + 1
  /\ Leave(w, state)
  /\ doubt' = (doubt \/ At(w, "uploaded"))
  /\ UNCHANGED <<world, catalog, page, pinger, answered, failed, changes>>

----------------------------------------------------------------------------
(* The rest of the world. *)

Change == changes < MaxChanges /\ changes' = changes + 1

(* The server goes up or down, turns Bedrock support on or off, or shows   *)
(* another favicon.                                                        *)
WorldChanges ==
  /\ Change
  /\ \/ world' = [world EXCEPT !.up = ~@]
     \/ world' = [world EXCEPT !.bedrock = ~@]
     \/ \E f \in (Favicons \cup {NoFavicon}) \ {world.favicon} :
          world' = [world EXCEPT !.favicon = f]
  /\ UNCHANGED <<catalog, page, pinger, state, lock, worker, answered, failed, doubt, failures>>

(* Somebody edits, lists or deletes the server in the catalog. *)
Edit ==
  /\ Change
  /\ \E e \in (Edition \cup {Gone}) \ {catalog.edition} :
       /\ Edited(e)
       /\ state' = IF state = Nothing THEN state ELSE [state EXCEPT !.behind = TRUE]
  /\ UNCHANGED <<world, lock, worker, answered, failed, doubt, failures>>

(* The process dies and is started again: the states are only in memory. *)
Restart ==
  /\ failures < MaxFailures /\ failures' = failures + 1
  /\ state' = Nothing /\ page' = Nothing /\ pinger' = Nothing /\ lock' = Nobody
  /\ worker' = [w \in Workers |-> Nothing]
  /\ answered' = FALSE /\ failed' = 0 /\ doubt' = FALSE
  /\ UNCHANGED <<world, catalog, changes>>

(* At first the catalog knows only what somebody has registered. *)
Init ==
  /\ world \in [up: BOOLEAN, bedrock: BOOLEAN, favicon: FirstFavicons \cup {NoFavicon}]
  /\ catalog \in [edition: {"java", "bedrock"}, favicon: {NoFavicon}]
  /\ page = Nothing /\ pinger = Nothing /\ state = Nothing
  /\ lock = Nobody
  /\ worker = [w \in Workers |-> Nothing]
  /\ answered = FALSE /\ failed = 0 /\ doubt = FALSE
  /\ changes = 0 /\ failures = 0

Sync == FetchPage \/ FetchFails \/ ApplyPage \/ ForcePingFetch \/ ForcePingInsert

Proceed(w) ==
  \/ Found(w) \/ EnterGone(w) \/ Enter(w)
  \/ ProbeAnswered(w) \/ ProbeFails(w) \/ Promote(w) \/ Promoted(w) \/ PromoteFails(w)
  \/ Upload(w) \/ Uploaded(w) \/ UploadFails(w)

Next ==
  \/ Sync
  \/ \E w \in Workers : StartPoll(w) \/ Proceed(w)
  \/ WorldChanges \/ Edit \/ Restart

Spec == Init /\ [][Next]_vars

(* The refresh repeats for ever, a tracked server keeps being polled       *)
(* (KeepsPolling of module Polling), polls and calls end, and tokio's      *)
(* mutex is fair.                                                          *)
FairSpec ==
  /\ Spec
  /\ WF_vars(FetchPage) /\ SF_vars(ApplyPage)
  /\ SF_vars(\E w \in Workers : StartPoll(w))
  /\ \A w \in Workers : SF_vars(Proceed(w))

----------------------------------------------------------------------------
(* UpdateServerEdition names no expected value, so the poller may write    *)
(* over what somebody else decided.  It does so only in ignorance: an      *)
(* edition that is not Java is overwritten only if it changed after the    *)
(* row was fetched that the state was last built or updated from, however  *)
(* long the page, the force ping or the probe took.                        *)
OverwritesOnlyStale ==
  [][ \A w \in Workers :
        At(w, "promote") /\ worker'[w].pc = "promoted" =>
          catalog.edition \in {"java", "java_bedrock"} \/ state.behind ]_vars

(* A server that answers the Bedrock ping does not stay a plain Java       *)
(* server in the catalog, and the poller ends up with the edition the      *)
(* catalog has: lost datagrams, failed calls, calls that were applied but  *)
(* reported as failed, and pages that bring the old edition back only      *)
(* delay it.                                                               *)
EditionSettles ==
  <>[](/\ ProbeEnabled /\ world.bedrock => catalog.edition # "java"
       /\ catalog.edition # Gone => state # Nothing /\ state.edition = catalog.edition)

(* The favicon a Java server shows ends up in the catalog, although an     *)
(* older poll may finish after a newer one and a call may fail, with one   *)
(* exception: an upload that was applied but reported as failed leaves the *)
(* hash of the one before, and a server that shows that one (because it    *)
(* went back to it, or because the upload was of an older poll) is taken   *)
(* for unchanged.                                                          *)
FaviconSettles ==
  <>[](world.up /\ world.favicon # NoFavicon /\ catalog.edition \in {"java", "java_bedrock"}
         => \/ catalog.favicon = world.favicon
            \/ doubt /\ state.hash = world.favicon)

(* A server is slowed down only before it ever answered, after as many     *)
(* failed polls in a row as configured, and being slowed down never makes  *)
(* it polled more often than the settings allow for: overlapping polls,    *)
(* whichever finishes last, do not slow down a server that answered since  *)
(* it is tracked.                                                          *)
Backoff ==
  state # Nothing /\ state.interval # NotPolled /\ lock = Nobody =>
    /\ answered => state.interval \in {OnlineInterval, OfflineInterval}
    /\ state.interval > Most(OnlineInterval, OfflineInterval) =>
         failed = FailuresBeforeSlowdown
    /\ ~answered => state.interval >= Least(OfflineInterval, MaxSlowInterval)
=============================================================================
