---------------------------- MODULE OutcomeProofs ----------------------------
(***************************************************************************)
(* Proofs about module Outcome, for any workers, favicons, intervals and   *)
(* bounds: its types (who may be inside the critical section), when a      *)
(* server is slowed down, and when the poller overwrites an edition in the *)
(* catalog.                                                                *)
(*                                                                         *)
(* A worker is inside its critical section exactly while it holds the      *)
(* mutex, so nothing but its own steps, an edit of the catalog and a       *)
(* restart changes anything until it leaves: that is what TypeOK says of   *)
(* lock and worker, and what the two other parts of the invariant need.    *)
(***************************************************************************)
EXTENDS Outcome, TLAPS

(* What the state counts is what has happened since it was inserted.  Once *)
(* the server has answered initial_failures is not kept up any more, and   *)
(* NextInterval does not look at it any more either.                       *)
Counters ==
  /\ state # Nothing =>
       /\ state.succeeded = answered
       /\ ~answered => state.initial = failed
  /\ \A w \in Workers : lock = w /\ worker[w].answer.up => answered

(* A row that is not behind is the catalog's, wherever it is kept.  From   *)
(* the decision to probe to the reply of UpdateServerEdition the state     *)
(* says Java, and when the call was applied it is behind.                  *)
RowsAreCurrent ==
  /\ page # Nothing /\ ~page.behind => page.edition = catalog.edition
  /\ pinger # Nothing /\ ~pinger.behind => pinger.edition = catalog.edition
  /\ state # Nothing /\ ~state.behind => state.edition = catalog.edition
  /\ \A w \in Workers :
       /\ worker[w].pc \in {"probe", "promote", "promoted"} => state.edition = "java"
       /\ At(w, "promoted") => state.behind

(* A force ping inserts only a row the catalog has. *)
ForcePingListed == pinger # Nothing => pinger.edition # Gone

Inside == {"probe", "promote", "promoted", "upload", "uploaded"}
HoldsAnswer == {"enter"} \cup Inside

----------------------------------------------------------------------------
(* The operators the actions are built from *)

LEMMA TimesIsNat == ASSUME NEW a \in Nat, NEW b \in Nat PROVE a * b \in Nat
  BY Z3

(* Both kinds of interval are lengths of time.                             *)
LEMMA IntervalIsNat ==
  ASSUME NEW st \in ServerState, NEW up \in BOOLEAN
  PROVE  NextInterval(st, up) \in Nat
<1>1. OfflineInterval * SlowdownMultiplier \in Nat
  BY TimesIsNat, OutcomeAssumption
<1> QED  BY <1>1, OutcomeAssumption DEF NextInterval, Least, Most

(* Only a server that never answered and has failed as often as configured *)
(* gets an interval that is not one of the two regular ones, and it is not *)
(* below the offline interval unless the maximum is.                       *)
LEMMA IntervalOfPoll ==
  ASSUME NEW st \in ServerState, NEW up \in BOOLEAN
  PROVE  /\ up \/ st.succeeded => NextInterval(st, up) \in {OnlineInterval, OfflineInterval}
         /\ NextInterval(st, up) > Most(OnlineInterval, OfflineInterval) =>
              ~st.succeeded /\ st.initial = FailuresBeforeSlowdown
         /\ ~up => NextInterval(st, up) >= Least(OfflineInterval, MaxSlowInterval)
<1> DEFINE slow == OfflineInterval * SlowdownMultiplier
<1>1. slow \in Nat
  BY TimesIsNat, OutcomeAssumption
<1>2. st.initial \in 0..FailuresBeforeSlowdown
  BY DEF ServerState
<1> HIDE DEF slow
<1>3. NextInterval(st, up) =
        IF ~up /\ ~st.succeeded /\ st.initial >= FailuresBeforeSlowdown
          THEN Least(Most(slow, OfflineInterval), MaxSlowInterval)
          ELSE IF up THEN OnlineInterval ELSE OfflineInterval
  BY DEF NextInterval, slow
<1> QED  BY <1>1, <1>2, <1>3, OutcomeAssumption DEF Least, Most

(* ServerState::new, from a row the catalog has.                           *)
LEMMA NewStateTyped ==
  ASSUME NEW row \in Fetched, row.edition # Gone
  PROVE  /\ NewState(row) \in ServerState
         /\ NewState(row) # Nothing
         /\ NewState(row).probe = WantsProbe(NewState(row).edition)
  BY OutcomeAssumption DEF NewState, Fetched, ServerState, WantsProbe, NotPolled, Nothing

(* The counts of a poll leave the edition alone.                           *)
LEMMA CountedTyped ==
  ASSUME TypeOK, state # Nothing, NEW up \in BOOLEAN
  PROVE  /\ Counted(up) \in ServerState
         /\ Counted(up).probe = WantsProbe(Counted(up).edition)
         /\ Counted(up).edition = state.edition
         /\ Counted(up).behind = state.behind
         /\ Counted(up).succeeded = (state.succeeded \/ up)
         /\ ~state.succeeded /\ ~up => Counted(up).initial = UpTo(state.initial)
<1>1. state \in ServerState /\ state.probe = WantsProbe(state.edition)
  BY DEF TypeOK
<1>2. /\ FailuresBeforeSlowdown \in Nat
      /\ UpTo(state.initial) \in 0..FailuresBeforeSlowdown
  BY <1>1, OutcomeAssumption DEF UpTo, ServerState
<1>3. (state.succeeded \/ up) \in BOOLEAN
  BY Zenon
<1>4. CASE up \/ state.succeeded
  <2>1. Counted(up) = [state EXCEPT !.succeeded = state.succeeded \/ up, !.initial = state.initial]
    BY <1>4 DEF Counted
  <2> QED  BY <1>1, <1>3, <1>4, <2>1 DEF ServerState
<1>5. CASE ~(up \/ state.succeeded)
  <2>1. Counted(up) = [state EXCEPT !.succeeded = state.succeeded \/ up, !.initial = UpTo(state.initial)]
    BY <1>5 DEF Counted
  <2> QED  BY <1>1, <1>2, <1>3, <1>5, <2>1 DEF ServerState
<1> QED  BY <1>4, <1>5

(* A new edition leaves the counts alone.                                  *)
LEMMA RescheduledTyped ==
  ASSUME TypeOK, state # Nothing, NEW edition \in Edition
  PROVE  /\ Rescheduled(edition) \in ServerState
         /\ Rescheduled(edition).probe = WantsProbe(edition)
         /\ Rescheduled(edition).edition = edition
         /\ Rescheduled(edition).behind = state.behind
         /\ Rescheduled(edition).succeeded = state.succeeded
         /\ Rescheduled(edition).initial = state.initial
  BY OutcomeAssumption DEF TypeOK, Rescheduled, ServerState, WantsProbe

(* A state is not the absence of one.                                      *)
LEMMA TrackedIsSomething ==
  ASSUME NEW st \in ServerState
  PROVE  st # Nothing
  BY DEF ServerState, Nothing

(* A worker that leaves: the mutex is free, nobody is inside. *)
LEMMA LeaveTyped ==
  ASSUME TypeOK, NEW w \in Workers, lock \in {Nobody, w}, worker[w].pc \in HoldsAnswer,
         NEW st \in ServerState, st.probe = WantsProbe(st.edition), Leave(w, st)
  PROVE  /\ state' \in ServerState /\ state' # Nothing
         /\ state'.probe = WantsProbe(state'.edition)
         /\ state' = [st EXCEPT !.interval = NextInterval(st, worker[w].answer.up)]
         /\ lock' = Nobody
         /\ worker' = [worker EXCEPT ![w] = Nothing]
         /\ \A v \in Workers : worker'[v].pc \in {"nothing", "poll", "enter"}
<1>1. worker[w].answer \in Answer
  BY DEF TypeOK, HoldsAnswer, Inside, Nothing
<1>2. NextInterval(st, worker[w].answer.up) \in Nat
  BY <1>1, IntervalIsNat DEF Answer
<1>3. /\ state' \in ServerState /\ state' # Nothing
      /\ state'.probe = WantsProbe(state'.edition)
  BY <1>2 DEF Leave, ServerState, Nothing
<1>4. \A v \in Workers : worker'[v].pc \in {"nothing", "poll", "enter"}
  BY OutcomeAssumption DEF Leave, TypeOK, Nothing, Nobody
<1> QED  BY <1>3, <1>4 DEF Leave
(* A worker that has a favicon to look at either leaves or goes on to the  *)
(* upload, and holds the mutex for it.                                     *)
LEMMA FaviconTyped ==
  ASSUME TypeOK, NEW w \in Workers, lock \in {Nobody, w}, worker[w].pc \in HoldsAnswer,
         NEW st \in ServerState, st.probe = WantsProbe(st.edition), ThenFavicon(w, st)
  PROVE  /\ state' \in ServerState /\ state' # Nothing
         /\ state'.probe = WantsProbe(state'.edition)
         /\ \/ Leave(w, st)
            \/ /\ state' = st /\ lock' = w
               /\ worker' = [worker EXCEPT ![w] = [pc |-> "upload", answer |-> worker[w].answer]]
         /\ \A v \in Workers : v # w => worker'[v] = worker[v]
<1>1. CASE Leave(w, st)
  <2>1. /\ state' \in ServerState /\ state' # Nothing
        /\ state'.probe = WantsProbe(state'.edition)
        /\ worker' = [worker EXCEPT ![w] = Nothing]
    BY <1>1, LeaveTyped
  <2> QED  BY <1>1, <2>1 DEF TypeOK
<1>2. CASE state' = st /\ lock' = w /\ Goto(w, "upload")
  <2>1. [worker[w] EXCEPT !.pc = "upload"] = [pc |-> "upload", answer |-> worker[w].answer]
    BY DEF TypeOK, HoldsAnswer, Inside, Nothing
  <2>2. worker' = [worker EXCEPT ![w] = [pc |-> "upload", answer |-> worker[w].answer]]
    BY <1>2, <2>1 DEF Goto
  <2> QED  BY <1>2, <2>2, TrackedIsSomething DEF TypeOK
<1> QED  BY <1>1, <1>2 DEF ThenFavicon

(* A worker goes on inside: its answer is kept. *)
LEMMA GotoTyped ==
  ASSUME TypeOK, NEW w \in Workers, worker[w].pc \in HoldsAnswer, NEW pc \in Inside, Goto(w, pc)
  PROVE  worker' = [worker EXCEPT ![w] = [pc |-> pc, answer |-> worker[w].answer]]
<1>1. [worker[w] EXCEPT !.pc = pc] = [pc |-> pc, answer |-> worker[w].answer]
  BY DEF TypeOK, HoldsAnswer, Inside, Nothing
<1> QED  BY <1>1 DEF Goto

----------------------------------------------------------------------------
(* Types *)

(* What the workers are doing, and who holds the mutex *)
WorkerTyped ==
  /\ worker \in [Workers -> {Nothing} \cup [pc: {"poll"}, bedrock: BOOLEAN]
       \cup [pc: {"enter", "probe", "promote", "promoted", "upload", "uploaded"}, answer: Answer]]
  /\ lock \in Workers \cup {Nobody}
  /\ \A w \in Workers : lock = w <=> worker[w].pc \notin {"nothing", "poll", "enter"}

(* A worker with an answer leaves, or goes on with the mutex. *)
LEMMA WorkerLeft ==
  ASSUME TypeOK, NEW w \in Workers, lock \in {Nobody, w},
         lock' = Nobody, worker' = [worker EXCEPT ![w] = Nothing]
  PROVE  WorkerTyped'
  BY OutcomeAssumption DEF TypeOK, WorkerTyped, Nothing, Nobody

(* A worker that goes on inside the critical section holds the mutex.      *)
LEMMA WorkerInside ==
  ASSUME TypeOK, NEW w \in Workers, lock \in {Nobody, w}, worker[w].pc \in HoldsAnswer,
         NEW pc \in Inside, lock' = w,
         worker' = [worker EXCEPT ![w] = [pc |-> pc, answer |-> worker[w].answer]]
  PROVE  WorkerTyped'
<1>1. worker[w].answer \in Answer
  BY DEF TypeOK, HoldsAnswer, Inside, Nothing
<1>2. [pc |-> pc, answer |-> worker[w].answer] \in
        [pc: {"enter", "probe", "promote", "promoted", "upload", "uploaded"}, answer: Answer]
  BY <1>1 DEF Inside
<1>3. \A v \in Workers : lock' = v <=> worker'[v].pc \notin {"nothing", "poll", "enter"}
  <2> TAKE v \in Workers
  <2>1. CASE v = w
    BY <2>1 DEF TypeOK, Inside
  <2>2. CASE v # w
    BY <2>2, OutcomeAssumption DEF TypeOK, Nobody
  <2> QED  BY <2>1, <2>2
<1> QED  BY <1>2, <1>3 DEF TypeOK, WorkerTyped

(* The end of the critical section: the favicon call, or leaving.          *)
LEMMA FaviconWorker ==
  ASSUME TypeOK, NEW w \in Workers, lock \in {Nobody, w}, worker[w].pc \in HoldsAnswer,
         NEW st \in ServerState, st.probe = WantsProbe(st.edition), ThenFavicon(w, st)
  PROVE  WorkerTyped'
<1>1. CASE Leave(w, st)
  BY <1>1, LeaveTyped, WorkerLeft
<1>2. CASE /\ state' = st /\ lock' = w
           /\ worker' = [worker EXCEPT ![w] = [pc |-> "upload", answer |-> worker[w].answer]]
  BY <1>2, WorkerInside DEF Inside
<1> QED  BY <1>1, <1>2, FaviconTyped

(* Whoever is inside holds the mutex, and the server is tracked. *)
LEMMA InsideHoldsLock ==
  ASSUME TypeOK, NEW w \in Workers, worker[w].pc \in Inside
  PROVE  lock = w /\ state \in ServerState /\ state # Nothing /\ worker[w].pc \in HoldsAnswer
         /\ state.probe = WantsProbe(state.edition)
  BY OutcomeAssumption DEF TypeOK, Inside, HoldsAnswer, Nobody

(* After an edit every row that was fetched before is behind.              *)
LEMMA EditedTyped ==
  ASSUME TypeOK, NEW e \in Edition \cup {Gone}, Edited(e)
  PROVE  /\ catalog' \in [edition: Edition \cup {Gone}, favicon: Favicons \cup {NoFavicon}]
         /\ catalog'.edition = e
         /\ page' \in Fetched \cup {Nothing} /\ pinger' \in Fetched \cup {Nothing}
         /\ page' # Nothing => page'.behind
         /\ pinger' # Nothing => pinger'.behind
  BY DEF TypeOK, Edited, Fetched, Nothing

LEMMA BehindTyped ==
  ASSUME NEW st \in ServerState, st.probe = WantsProbe(st.edition)
  PROVE  LET b == [st EXCEPT !.behind = TRUE]
         IN  /\ b \in ServerState /\ b # Nothing /\ b.probe = WantsProbe(b.edition)
             /\ b.edition = st.edition /\ b.behind /\ b.succeeded = st.succeeded
             /\ b.initial = st.initial /\ b.interval = st.interval
  BY DEF ServerState, Nothing

LEMMA TrackTyped ==
  ASSUME NEW row \in Fetched, row.edition # Gone, Track(row)
  PROVE  /\ state' \in ServerState /\ state' # Nothing
         /\ state'.probe = WantsProbe(state'.edition)
         /\ answered' \in BOOLEAN /\ doubt' \in BOOLEAN /\ failed' \in 0..FailuresBeforeSlowdown
<1>1. state' = NewState(row)
  BY DEF Track
<1>2. failed' \in 0..FailuresBeforeSlowdown
  BY OutcomeAssumption DEF Track
<1> QED  BY <1>1, <1>2, NewStateTyped DEF Track

(* Fetching and applying a page, and a force ping.                         *)
LEMMA SyncTyped ==
  ASSUME TypeOK, ForcePingListed, Sync
  PROVE  TypeOK'
<1>1. CASE FetchPage
  BY <1>1 DEF TypeOK, FetchPage, Fetched
<1>2. CASE FetchFails
  BY <1>2, OutcomeAssumption DEF TypeOK, FetchFails, Fetched
<1>3. CASE ApplyPage
  <2>1. page \in Fetched
    BY <1>3 DEF TypeOK, ApplyPage
  <2>2. CASE page.edition = Gone /\ state' = Nothing /\ UNCHANGED <<answered, failed, doubt>>
    BY <1>3, <2>2 DEF TypeOK, ApplyPage, Nobody
  <2>3. CASE page.edition # Gone /\ state = Nothing /\ Track(page)
    BY <1>3, <2>1, <2>3, TrackTyped DEF TypeOK, ApplyPage, Nobody
  <2>4. CASE page.edition # Gone /\ state # Nothing /\ state' = Updated(page)
             /\ UNCHANGED <<answered, failed, doubt>>
    <3>1. /\ Updated(page) \in ServerState
          /\ Updated(page).probe = WantsProbe(Updated(page).edition)
      BY <2>1, <2>4, OutcomeAssumption DEF TypeOK, Updated, ServerState, Fetched, WantsProbe
    <3> QED  BY <1>3, <2>4, <3>1 DEF TypeOK, ApplyPage, Nobody
  <2> QED  BY <1>3, <2>2, <2>3, <2>4 DEF ApplyPage
<1>4. CASE ForcePingFetch
  BY <1>4 DEF TypeOK, ForcePingFetch, Fetched
<1>5. CASE ForcePingInsert
  <2>1. pinger \in Fetched
    BY <1>5 DEF TypeOK, ForcePingInsert
  <2>2. pinger.edition # Gone
    BY <1>5 DEF ForcePingListed, ForcePingInsert
  <2> QED  BY <1>5, <2>1, <2>2, TrackTyped DEF TypeOK, ForcePingInsert, Nobody
<1> QED  BY <1>1, <1>2, <1>3, <1>4, <1>5 DEF Sync

(* A worker takes the snapshot.                                            *)
LEMMA StartPollTyped ==
  ASSUME TypeOK, NEW w \in Workers, StartPoll(w)
  PROVE  TypeOK'
<1>1. [pc |-> "poll", bedrock |-> state.edition = "bedrock"] \in [pc: {"poll"}, bedrock: BOOLEAN]
  BY Zenon
<1> QED  BY <1>1 DEF TypeOK, StartPoll, Nothing

(* The answer arrives.                                                     *)
LEMMA FoundTyped ==
  ASSUME TypeOK, NEW w \in Workers, Found(w)
  PROVE  TypeOK'
<1> DEFINE found == IF worker[w].bedrock
                      THEN [up |-> world.bedrock, favicon |-> NoFavicon]
                      ELSE [up |-> world.up, favicon |-> IF world.up THEN world.favicon ELSE NoFavicon]
<1>1. found \in Answer
  BY DEF TypeOK, Answer
<1>2. worker' = [worker EXCEPT ![w] = [pc |-> "enter", answer |-> found]]
  BY DEF Found
<1> HIDE DEF found
<1>3. [pc |-> "enter", answer |-> found] \in
        [pc: {"enter", "probe", "promote", "promoted", "upload", "uploaded"}, answer: Answer]
  BY <1>1
<1> QED  BY <1>2, <1>3 DEF TypeOK, Found, At

(* The worker takes the mutex, with or without a server to update.         *)
LEMMA EnterTyped ==
  ASSUME TypeOK, NEW w \in Workers, Enter(w) \/ EnterGone(w)
  PROVE  TypeOK'
<1>1. CASE EnterGone(w)
  BY <1>1 DEF TypeOK, EnterGone, At, Nothing
<1>2. CASE Enter(w)
  <2> DEFINE up == worker[w].answer.up
             st == Counted(up)
  <2>1. up \in BOOLEAN /\ worker[w].pc \in HoldsAnswer /\ lock = Nobody /\ state # Nothing
    BY <1>2 DEF TypeOK, Enter, At, HoldsAnswer, Answer, Nothing
  <2>2. st \in ServerState /\ st.probe = WantsProbe(st.edition) /\ st # Nothing
    BY <2>1, CountedTyped, TrackedIsSomething
  <2>3. answered' \in BOOLEAN /\ failed' \in 0..FailuresBeforeSlowdown
    <3>1. (answered \/ up) \in BOOLEAN
      BY Zenon
    <3>2. UpTo(failed) \in 0..FailuresBeforeSlowdown
      BY OutcomeAssumption DEF TypeOK, UpTo
    <3> QED  BY <1>2, <3>1, <3>2, OutcomeAssumption DEF Enter
  <2>4. CASE state' = st /\ lock' = w /\ Goto(w, "probe")
    <3>1. worker' = [worker EXCEPT ![w] = [pc |-> "probe", answer |-> worker[w].answer]]
      BY <2>1, <2>4, GotoTyped DEF Inside
    <3>2. WorkerTyped'
      BY <2>1, <2>4, <3>1, WorkerInside DEF Inside
    <3>3. state' \in ServerState /\ state' # Nothing /\ state'.probe = WantsProbe(state'.edition)
      BY <2>2, <2>4
    <3> QED  BY <1>2, <2>3, <3>2, <3>3 DEF TypeOK, WorkerTyped, Enter
  <2>5. CASE ThenFavicon(w, st)
    <3> HIDE DEF st, up
    <3>1. state' \in ServerState /\ state' # Nothing /\ state'.probe = WantsProbe(state'.edition)
      BY <2>1, <2>2, <2>5, FaviconTyped
    <3>2. WorkerTyped'
      BY <2>1, <2>2, <2>5, FaviconWorker
    <3> QED  BY <1>2, <2>3, <3>1, <3>2 DEF TypeOK, WorkerTyped, Enter
  <2> QED  BY <1>2, <2>4, <2>5 DEF Enter
<1> QED  BY <1>1, <1>2

(* The steps after the answer of the probe or of the first call: the row's *)
(* edition is set, and the favicon is next.                                *)
LEMMA SilentTyped ==
  ASSUME TypeOK, NEW w \in Workers, worker[w].pc \in Inside, NEW edition \in Edition,
         ThenFavicon(w, Rescheduled(edition))
  PROVE  /\ WorkerTyped'
         /\ state' \in ServerState /\ state' # Nothing /\ state'.probe = WantsProbe(state'.edition)
<1>1. lock = w /\ state # Nothing /\ worker[w].pc \in HoldsAnswer
  BY InsideHoldsLock
<1>2. /\ Rescheduled(edition) \in ServerState
      /\ Rescheduled(edition).probe = WantsProbe(Rescheduled(edition).edition)
  BY <1>1, RescheduledTyped
<1> QED  BY <1>1, <1>2, FaviconTyped, FaviconWorker

(* The Bedrock probe and UpdateServerEdition.                              *)
LEMMA ProbeTyped ==
  ASSUME TypeOK, NEW w \in Workers,
         ProbeAnswered(w) \/ ProbeFails(w) \/ Promote(w) \/ Promoted(w) \/ PromoteFails(w)
  PROVE  TypeOK'
<1>0. state # Nothing => state.edition \in Edition
  BY DEF TypeOK, ServerState
<1>1. CASE ProbeAnswered(w)
  <2>1. worker[w].pc \in Inside
    BY <1>1 DEF ProbeAnswered, At, Inside
  <2>2. WorkerTyped'
    BY <1>1, <2>1, InsideHoldsLock, GotoTyped, WorkerInside DEF ProbeAnswered, Inside
  <2> QED  BY <1>1, <2>2 DEF TypeOK, WorkerTyped, ProbeAnswered
<1>2. CASE ProbeFails(w)
  <2>1. worker[w].pc \in Inside
    BY <1>2 DEF ProbeFails, At, Inside
  <2>2. /\ WorkerTyped'
        /\ state' \in ServerState /\ state' # Nothing /\ state'.probe = WantsProbe(state'.edition)
    BY <1>0, <1>2, <2>1, SilentTyped, InsideHoldsLock DEF ProbeFails, Silent
  <2> QED  BY <1>2, <2>2, OutcomeAssumption DEF TypeOK, WorkerTyped, ProbeFails
<1>3. CASE Promote(w)
  <2>1. worker[w].pc \in Inside
    BY <1>3 DEF Promote, At, Inside
  <2>2. WorkerTyped'
    BY <1>3, <2>1, InsideHoldsLock, GotoTyped, WorkerInside DEF Promote, Inside
  <2>3. CASE catalog.edition = "java_bedrock"
    BY <1>3, <2>2, <2>3 DEF TypeOK, WorkerTyped, Promote
  <2>4. CASE catalog.edition # "java_bedrock"
    <3>1. Edited("java_bedrock") /\ state' = [state EXCEPT !.behind = TRUE]
      BY <1>3, <2>4 DEF Promote
    <3>2. state' \in ServerState /\ state' # Nothing /\ state'.probe = WantsProbe(state'.edition)
      BY <2>1, <3>1, InsideHoldsLock, BehindTyped
    <3>3. /\ catalog' \in [edition: Edition \cup {Gone}, favicon: Favicons \cup {NoFavicon}]
          /\ page' \in Fetched \cup {Nothing} /\ pinger' \in Fetched \cup {Nothing}
      BY <3>1, EditedTyped DEF Edition
    <3> QED  BY <1>3, <2>2, <3>2, <3>3 DEF TypeOK, WorkerTyped, Promote
  <2> QED  BY <2>3, <2>4
<1>4. CASE Promoted(w)
  <2>1. worker[w].pc \in Inside
    BY <1>4 DEF Promoted, At, Inside
  <2>2. /\ WorkerTyped'
        /\ state' \in ServerState /\ state' # Nothing /\ state'.probe = WantsProbe(state'.edition)
    BY <1>4, <2>1, SilentTyped DEF Promoted, Edition
  <2> QED  BY <1>4, <2>2 DEF TypeOK, WorkerTyped, Promoted
<1>5. CASE PromoteFails(w)
  <2>1. worker[w].pc \in Inside
    BY <1>5 DEF PromoteFails, At, Inside
  <2>2. /\ WorkerTyped'
        /\ state' \in ServerState /\ state' # Nothing /\ state'.probe = WantsProbe(state'.edition)
    BY <1>0, <1>5, <2>1, SilentTyped, InsideHoldsLock DEF PromoteFails, Silent
  <2> QED  BY <1>5, <2>2, OutcomeAssumption DEF TypeOK, WorkerTyped, PromoteFails
<1> QED  BY <1>1, <1>2, <1>3, <1>4, <1>5

(* UpdateServerFavicon.                                                    *)
LEMMA UploadTyped ==
  ASSUME TypeOK, NEW w \in Workers, Upload(w) \/ Uploaded(w) \/ UploadFails(w)
  PROVE  TypeOK'
<1>1. worker[w].pc \in Inside /\ worker[w].answer \in Answer
  BY DEF TypeOK, Upload, Uploaded, UploadFails, At, Inside, Nothing
<1>2. lock = w /\ state \in ServerState /\ state # Nothing /\ worker[w].pc \in HoldsAnswer
      /\ state.probe = WantsProbe(state.edition)
  BY <1>1, InsideHoldsLock
<1>3. CASE Upload(w)
  <2>1. WorkerTyped'
    BY <1>1, <1>2, <1>3, GotoTyped, WorkerInside DEF Upload, Inside
  <2>2. catalog' \in [edition: Edition \cup {Gone}, favicon: Favicons \cup {NoFavicon}]
    BY <1>1, <1>3 DEF TypeOK, Upload, Answer
  <2> QED  BY <1>2, <1>3, <2>1, <2>2 DEF TypeOK, WorkerTyped, Upload
<1>4. CASE Uploaded(w)
  <2> DEFINE st == [state EXCEPT !.hash = worker[w].answer.favicon]
  <2>1. st \in ServerState /\ st.probe = WantsProbe(st.edition)
    BY <1>1, <1>2 DEF ServerState, Answer
  <2>2. Leave(w, st)
    BY <1>4 DEF Uploaded
  <2> HIDE DEF st
  <2>3. state' \in ServerState /\ state' # Nothing /\ state'.probe = WantsProbe(state'.edition)
        /\ WorkerTyped'
    BY <1>2, <2>1, <2>2, LeaveTyped, WorkerLeft
  <2> QED  BY <1>4, <2>3 DEF TypeOK, WorkerTyped, Uploaded
<1>5. CASE UploadFails(w)
  <2>1. state' \in ServerState /\ state' # Nothing /\ state'.probe = WantsProbe(state'.edition)
        /\ WorkerTyped'
    BY <1>2, <1>5, LeaveTyped, WorkerLeft DEF UploadFails
  <2>2. doubt' \in BOOLEAN
    <3>1. (doubt \/ At(w, "uploaded")) \in BOOLEAN
      BY Zenon
    <3> QED  BY <1>5, <3>1 DEF UploadFails
  <2> QED  BY <1>5, <2>1, <2>2, OutcomeAssumption DEF TypeOK, WorkerTyped, UploadFails
<1> QED  BY <1>3, <1>4, <1>5

(* The world, somebody's edit, and a restart.                              *)
LEMMA WorldTyped ==
  ASSUME TypeOK, WorldChanges \/ Edit \/ Restart
  PROVE  TypeOK'
<1>1. CASE WorldChanges
  <2>1. world' \in [up: BOOLEAN, bedrock: BOOLEAN, favicon: Favicons \cup {NoFavicon}]
    BY <1>1 DEF TypeOK, WorldChanges
  <2> QED  BY <1>1, <2>1, OutcomeAssumption DEF TypeOK, WorldChanges, Change
<1>2. CASE Edit
  <2>1. PICK e \in (Edition \cup {Gone}) \ {catalog.edition} :
          /\ Edited(e)
          /\ state' = IF state = Nothing THEN state ELSE [state EXCEPT !.behind = TRUE]
    BY <1>2 DEF Edit
  <2>2. /\ catalog' \in [edition: Edition \cup {Gone}, favicon: Favicons \cup {NoFavicon}]
        /\ page' \in Fetched \cup {Nothing} /\ pinger' \in Fetched \cup {Nothing}
    BY <2>1, EditedTyped
  <2>3. /\ state' \in ServerState \cup {Nothing}
        /\ state' # Nothing => state'.probe = WantsProbe(state'.edition)
        /\ state # Nothing => state' # Nothing
    BY <2>1, BehindTyped DEF TypeOK
  <2> QED  BY <1>2, <2>2, <2>3, OutcomeAssumption DEF TypeOK, Edit, Change
<1>3. CASE Restart
  <2>1. WorkerTyped'
    BY <1>3, OutcomeAssumption DEF WorkerTyped, Restart, Nothing, Nobody
  <2>2. failures' \in 0..MaxFailures /\ failed' \in 0..FailuresBeforeSlowdown
    BY <1>3, OutcomeAssumption DEF TypeOK, Restart
  <2> QED  BY <1>3, <2>1, <2>2 DEF TypeOK, WorkerTyped, Restart
<1> QED  BY <1>1, <1>2, <1>3

(* A row that a force ping has fetched keeps its edition until it is      *)
(* inserted or lost.                                                       *)
LEMMA ForcePingStep ==
  ASSUME TypeOK, ForcePingListed, [Next]_vars
  PROVE  ForcePingListed'
<1>1. CASE UNCHANGED pinger
  BY <1>1 DEF ForcePingListed
<1>2. CASE pinger' = Nothing
  BY <1>2 DEF ForcePingListed
<1>3. CASE ForcePingFetch
  BY <1>3 DEF ForcePingListed, ForcePingFetch
<1>4. ASSUME NEW e \in Edition \cup {Gone}, Edited(e)
      PROVE  ForcePingListed'
  BY <1>4 DEF ForcePingListed, Edited, TypeOK, Fetched, Nothing
<1>5. ASSUME NEW w \in Workers, Promote(w)
      PROVE  ForcePingListed'
  BY <1>1, <1>4, <1>5 DEF Promote, Edition
<1>6. CASE Edit
  BY <1>4, <1>6 DEF Edit
<1>7. CASE Restart
  BY <1>2, <1>7 DEF Restart
<1>8. CASE Sync
  BY <1>1, <1>2, <1>3, <1>8 DEF Sync, FetchPage, FetchFails, ApplyPage, ForcePingInsert
<1>9. ASSUME NEW w \in Workers, StartPoll(w) \/ Proceed(w), ~Promote(w)
      PROVE  pinger' = pinger
  BY <1>9 DEF StartPoll, Proceed, Found, EnterGone, Enter, ProbeAnswered, ProbeFails, Promoted,
              PromoteFails, Upload, Uploaded, UploadFails
<1>10. CASE WorldChanges \/ UNCHANGED vars
  BY <1>1, <1>10 DEF WorldChanges, vars
<1> QED  BY <1>1, <1>5, <1>6, <1>7, <1>8, <1>9, <1>10 DEF Next

(* Every step keeps the types.                                             *)
LEMMA TypeStep ==
  ASSUME TypeOK, ForcePingListed, [Next]_vars
  PROVE  TypeOK'
<1>1. ASSUME NEW w \in Workers, StartPoll(w) \/ Proceed(w)
      PROVE  TypeOK'
  BY <1>1, StartPollTyped, FoundTyped, EnterTyped, ProbeTyped, UploadTyped DEF Proceed
<1>2. CASE UNCHANGED vars
  BY <1>2 DEF TypeOK, vars
<1> QED  BY <1>1, <1>2, SyncTyped, WorldTyped DEF Next

(* Nothing is tracked when the process starts.                             *)
LEMMA TypeInit == Init => TypeOK /\ ForcePingListed
<1> SUFFICES ASSUME Init PROVE TypeOK /\ ForcePingListed
  OBVIOUS
<1>1. WorkerTyped
  BY OutcomeAssumption DEF Init, WorkerTyped, Nothing, Nobody
<1>2. /\ world \in [up: BOOLEAN, bedrock: BOOLEAN, favicon: Favicons \cup {NoFavicon}]
      /\ catalog \in [edition: Edition \cup {Gone}, favicon: Favicons \cup {NoFavicon}]
  BY OutcomeAssumption DEF Init, Edition
<1>3. /\ failed \in 0..FailuresBeforeSlowdown
      /\ changes \in 0..MaxChanges /\ failures \in 0..MaxFailures
  BY OutcomeAssumption DEF Init
<1> QED  BY <1>1, <1>2, <1>3 DEF Init, TypeOK, WorkerTyped, ForcePingListed

(* Type correctness of process_work_item, maybe_probe_bedrock and          *)
(* maybe_update_favicon: a worker is inside the critical section exactly   *)
(* while it holds the states mutex, the state it works on is not taken     *)
(* away under it, and the server has a probe scheduled exactly while its   *)
(* row says Java.                                                          *)
THEOREM OutcomeTypeCorrect == Spec => []TypeOK
<1>1. Init => TypeOK /\ ForcePingListed
  BY TypeInit
<1>2. TypeOK /\ ForcePingListed /\ [Next]_vars => (TypeOK /\ ForcePingListed)'
  BY TypeStep, ForcePingStep
<1> QED  BY <1>1, <1>2, PTL DEF Spec

----------------------------------------------------------------------------
(* When a server is slowed down *)

(* The interval is computed from counts that say what has happened.        *)
LEMMA LeaveCounts ==
  ASSUME TypeOK, NEW w \in Workers, lock \in {Nobody, w}, worker[w].pc \in HoldsAnswer,
         NEW st \in ServerState, st.probe = WantsProbe(st.edition), Leave(w, st),
         st.succeeded = answered', ~answered' => st.initial = failed',
         worker[w].answer.up => answered'
  PROVE  Counters' /\ Backoff'
<1> DEFINE up == worker[w].answer.up
<1>1. /\ state' = [st EXCEPT !.interval = NextInterval(st, up)]
      /\ lock' = Nobody
  BY LeaveTyped
<1>2. /\ state'.succeeded = st.succeeded /\ state'.initial = st.initial
      /\ state'.interval = NextInterval(st, up)
  BY <1>1 DEF ServerState
<1>3. up \in BOOLEAN
  BY DEF TypeOK, HoldsAnswer, Inside, Nothing, Answer
<1> HIDE DEF up
<1>4. /\ up \/ st.succeeded => NextInterval(st, up) \in {OnlineInterval, OfflineInterval}
      /\ NextInterval(st, up) > Most(OnlineInterval, OfflineInterval) =>
           ~st.succeeded /\ st.initial = FailuresBeforeSlowdown
      /\ ~up => NextInterval(st, up) >= Least(OfflineInterval, MaxSlowInterval)
  BY <1>3, IntervalOfPoll
<1>5. Counters'
  BY <1>1, <1>2, OutcomeAssumption DEF Counters, Nobody
<1>6. Backoff'
  BY <1>2, <1>4 DEF Backoff, up
<1> QED  BY <1>5, <1>6

(* Neither the favicon call nor leaving changes a count.                   *)
LEMMA FaviconCounts ==
  ASSUME TypeOK, NEW w \in Workers, lock \in {Nobody, w}, worker[w].pc \in HoldsAnswer,
         NEW st \in ServerState, st.probe = WantsProbe(st.edition), ThenFavicon(w, st),
         st.succeeded = answered', ~answered' => st.initial = failed',
         worker[w].answer.up => answered'
  PROVE  Counters' /\ Backoff'
<1>1. CASE Leave(w, st)
  BY <1>1, LeaveCounts
<1>2. CASE /\ state' = st /\ lock' = w
           /\ worker' = [worker EXCEPT ![w] = [pc |-> "upload", answer |-> worker[w].answer]]
  <2>1. worker'[w].answer.up = worker[w].answer.up
    BY <1>2 DEF TypeOK
  <2> QED  BY <1>2, <2>1, OutcomeAssumption DEF Counters, Backoff, Nobody
<1> QED  BY <1>1, <1>2, FaviconTyped

(* Nothing that a poll counts changes. *)
LEMMA CountsKept ==
  ASSUME TypeOK, TypeOK', Counters, Backoff, UNCHANGED <<lock, answered, failed>>,
         state' # Nothing =>
           /\ state # Nothing
           /\ state'.succeeded = state.succeeded /\ state'.initial = state.initial
           /\ state'.interval = state.interval,
         \A w \in Workers : lock = w => worker'[w].answer = worker[w].answer
  PROVE  Counters' /\ Backoff'
  BY DEF Counters, Backoff

(* A state that is inserted starts from nothing, as the histories do.      *)
LEMMA SyncCounts ==
  ASSUME TypeOK, TypeOK', Counters, Backoff, Sync
  PROVE  Counters' /\ Backoff'
<1>1. ASSUME NEW row \in Fetched, row.edition # Gone, Track(row), lock = Nobody,
             UNCHANGED <<lock, worker>>
      PROVE  Counters' /\ Backoff'
  BY <1>1, OutcomeAssumption DEF Counters, Backoff, Track, NewState, Nobody
<1>2. CASE FetchPage \/ FetchFails \/ ForcePingFetch
  BY <1>2, CountsKept DEF FetchPage, FetchFails, ForcePingFetch
<1>3. CASE ApplyPage
  <2>1. page \in Fetched
    BY <1>3 DEF TypeOK, ApplyPage
  <2>2. CASE state' = Nothing /\ UNCHANGED <<answered, failed>>
    BY <1>3, <2>2, CountsKept DEF ApplyPage
  <2>3. CASE page.edition # Gone /\ state # Nothing /\ state' = Updated(page)
             /\ UNCHANGED <<answered, failed>>
    <3>1. /\ state'.succeeded = state.succeeded /\ state'.initial = state.initial
          /\ state'.interval = state.interval
      BY <2>3 DEF TypeOK, Updated, ServerState
    <3> QED  BY <1>3, <2>3, <3>1, CountsKept DEF ApplyPage
  <2> QED  BY <1>1, <1>3, <2>1, <2>2, <2>3 DEF ApplyPage
<1>4. CASE ForcePingInsert
  BY <1>4, OutcomeAssumption DEF ForcePingInsert, Counters, Backoff, Track, NewState, Nobody
<1> QED  BY <1>2, <1>3, <1>4 DEF Sync

(* The poll is counted in the state and in the histories at once.          *)
LEMMA EnterCounts ==
  ASSUME TypeOK, TypeOK', Counters, Backoff, NEW w \in Workers, Enter(w)
  PROVE  Counters' /\ Backoff'
<1> DEFINE up == worker[w].answer.up
           st == Counted(up)
<1>1. up \in BOOLEAN /\ worker[w].pc \in HoldsAnswer /\ lock = Nobody /\ state # Nothing
  BY DEF TypeOK, Enter, At, HoldsAnswer, Answer, Nothing
<1>2. /\ st \in ServerState /\ st.probe = WantsProbe(st.edition)
      /\ st.succeeded = (state.succeeded \/ up)
      /\ ~state.succeeded /\ ~up => st.initial = UpTo(state.initial)
  BY <1>1, CountedTyped
<1>3. answered' = (answered \/ up) /\ failed' = IF up THEN 0 ELSE UpTo(failed)
  BY DEF Enter
<1>4. state.succeeded = answered /\ (~answered => state.initial = failed)
  BY <1>1 DEF Counters
<1> HIDE DEF st
<1>5. st.succeeded = answered' /\ (up => answered')
  BY <1>2, <1>3, <1>4
<1>6. ~answered' => st.initial = failed'
  BY <1>2, <1>3, <1>4
<1>7. CASE ThenFavicon(w, st)
  BY <1>1, <1>2, <1>5, <1>6, <1>7, FaviconCounts
<1>8. CASE state' = st /\ lock' = w /\ Goto(w, "probe")
  <2>1. worker'[w].answer.up = up
    BY <1>1, <1>8, GotoTyped DEF Inside, TypeOK
  <2> QED  BY <1>5, <1>6, <1>8, <2>1, OutcomeAssumption DEF Counters, Backoff, Nobody
<1> QED  BY <1>7, <1>8 DEF Enter, st

(* The steps inside the critical section keep what the poll has counted. *)
LEMMA InsideCounts ==
  ASSUME TypeOK, TypeOK', Counters, Backoff, NEW w \in Workers,
         \/ ProbeAnswered(w) \/ ProbeFails(w) \/ Promote(w) \/ Promoted(w) \/ PromoteFails(w)
         \/ Upload(w) \/ Uploaded(w) \/ UploadFails(w)
  PROVE  Counters' /\ Backoff'
<1>1. /\ worker[w].pc \in Inside /\ worker[w].answer \in Answer
      /\ UNCHANGED <<answered, failed>>
  BY DEF TypeOK, ProbeAnswered, ProbeFails, Promote, Promoted, PromoteFails, Upload, Uploaded,
         UploadFails, At, Inside, Nothing
<1>2. lock = w /\ state \in ServerState /\ state # Nothing /\ worker[w].pc \in HoldsAnswer
      /\ state.probe = WantsProbe(state.edition)
  BY <1>1, InsideHoldsLock
<1>3. /\ state.succeeded = answered /\ (~answered => state.initial = failed)
      /\ worker[w].answer.up => answered
  BY <1>2 DEF Counters
<1>4. ASSUME NEW pc \in Inside, Goto(w, pc), UNCHANGED lock,
             state' = state \/ state' = [state EXCEPT !.behind = TRUE]
      PROVE  Counters' /\ Backoff'
  <2>1. worker' = [worker EXCEPT ![w] = [pc |-> pc, answer |-> worker[w].answer]]
    BY <1>2, <1>4, GotoTyped
  <2>2. worker'[w].answer.up = worker[w].answer.up
    BY <2>1 DEF TypeOK
  <2>3. state'.succeeded = state.succeeded /\ state'.initial = state.initial
    BY <1>2, <1>4 DEF ServerState
  <2> QED  BY <1>1, <1>2, <1>3, <1>4, <2>2, <2>3, OutcomeAssumption DEF Counters, Backoff, Nobody
<1>5. ASSUME NEW edition \in Edition, ThenFavicon(w, Rescheduled(edition))
      PROVE  Counters' /\ Backoff'
  <2>1. /\ Rescheduled(edition) \in ServerState
        /\ Rescheduled(edition).probe = WantsProbe(Rescheduled(edition).edition)
        /\ Rescheduled(edition).succeeded = state.succeeded
        /\ Rescheduled(edition).initial = state.initial
    BY <1>2, RescheduledTyped
  <2> QED  BY <1>1, <1>2, <1>3, <1>5, <2>1, FaviconCounts
<1>6. state.edition \in Edition
  BY <1>2 DEF ServerState
<1>7. CASE ProbeAnswered(w) \/ Promote(w) \/ Upload(w)
  BY <1>4, <1>7 DEF ProbeAnswered, Promote, Upload, Inside
<1>8. CASE ProbeFails(w) \/ PromoteFails(w)
  BY <1>5, <1>6, <1>8 DEF ProbeFails, PromoteFails, Silent
<1>9. CASE Promoted(w)
  BY <1>5, <1>9 DEF Promoted, Edition
<1>10. CASE Uploaded(w)
  <2> DEFINE st == [state EXCEPT !.hash = worker[w].answer.favicon]
  <2>1. /\ st \in ServerState /\ st.probe = WantsProbe(st.edition)
        /\ st.succeeded = state.succeeded /\ st.initial = state.initial
    BY <1>1, <1>2 DEF ServerState, Answer
  <2>2. Leave(w, st)
    BY <1>10 DEF Uploaded
  <2> HIDE DEF st
  <2> QED  BY <1>1, <1>2, <1>3, <2>1, <2>2, LeaveCounts
<1>11. CASE UploadFails(w)
  BY <1>1, <1>2, <1>3, <1>11, LeaveCounts DEF UploadFails
<1> QED  BY <1>7, <1>8, <1>9, <1>10, <1>11

(* Every step keeps the counts.                                            *)
LEMMA CountsStep ==
  ASSUME TypeOK, TypeOK', Counters, Backoff, [Next]_vars
  PROVE  Counters' /\ Backoff'
<1>1. ASSUME NEW w \in Workers, StartPoll(w) \/ Found(w) \/ EnterGone(w)
      PROVE  Counters' /\ Backoff'
  <2>1. lock # w /\ \A v \in Workers : v # w => worker'[v] = worker[v]
    BY <1>1 DEF TypeOK, StartPoll, Found, EnterGone, At, Nothing
  <2> QED  BY <1>1, <2>1, CountsKept DEF StartPoll, Found, EnterGone
<1>2. ASSUME NEW w \in Workers, Proceed(w)
      PROVE  Counters' /\ Backoff'
  BY <1>1, <1>2, EnterCounts, InsideCounts DEF Proceed
<1>3. CASE WorldChanges \/ UNCHANGED vars
  BY <1>3, CountsKept DEF WorldChanges, vars
<1>4. CASE Edit
  <2>1. state # Nothing => /\ state'.succeeded = state.succeeded /\ state'.initial = state.initial
                           /\ state'.interval = state.interval
    BY <1>4 DEF TypeOK, Edit, ServerState
  <2> QED  BY <1>4, <2>1, CountsKept DEF Edit
<1>5. CASE Restart
  BY <1>5, OutcomeAssumption DEF Restart, Counters, Backoff, Nobody, Nothing
<1> QED  BY <1>1, <1>2, <1>3, <1>4, <1>5, SyncCounts DEF Next

(* The failure slowdown of process_work_item: initial_failures counts the  *)
(* failed polls in a row of a server that never answered, as long as it    *)
(* never did; so only such a server is slowed down, after as many failures *)
(* as configured, and never polled more often than the settings allow,     *)
(* whichever of two overlapping polls takes the mutex first.               *)
THEOREM SlowsDownOnlyTheSilent == Spec => []Backoff
<1>1. Init => TypeOK /\ ForcePingListed /\ Counters /\ Backoff
  BY TypeInit, OutcomeAssumption DEF Init, Counters, Backoff, Nobody
<1>2. TypeOK /\ ForcePingListed /\ Counters /\ Backoff /\ [Next]_vars
        => (TypeOK /\ ForcePingListed /\ Counters /\ Backoff)'
  BY TypeStep, ForcePingStep, CountsStep
<1> QED  BY <1>1, <1>2, PTL DEF Spec

----------------------------------------------------------------------------
(* When an edition in the catalog is overwritten *)

(* An edit leaves no row that claims to be current but is not.             *)
LEMMA EditedCurrent ==
  ASSUME TypeOK, NEW e \in Edition \cup {Gone}, Edited(e)
  PROVE  /\ page' # Nothing /\ ~page'.behind => page'.edition = catalog'.edition
         /\ pinger' # Nothing /\ ~pinger'.behind => pinger'.edition = catalog'.edition
  BY EditedTyped

(* The mutex is free: nobody is between the probe and its reply. *)
LEMMA FreeCurrent ==
  ASSUME TypeOK, TypeOK', lock' = Nobody,
         page' # Nothing /\ ~page'.behind => page'.edition = catalog'.edition,
         pinger' # Nothing /\ ~pinger'.behind => pinger'.edition = catalog'.edition,
         state' # Nothing /\ ~state'.behind => state'.edition = catalog'.edition
  PROVE  RowsAreCurrent'
<1>1. \A v \in Workers : worker'[v].pc \in {"nothing", "poll", "enter"}
  BY OutcomeAssumption DEF TypeOK, Nobody
<1> QED  BY <1>1 DEF RowsAreCurrent, At

(* A worker inside goes on, and the row it works on is the one described.  *)
LEMMA InsideCurrent ==
  ASSUME TypeOK, TypeOK', NEW w \in Workers, lock' = w,
         page' # Nothing /\ ~page'.behind => page'.edition = catalog'.edition,
         pinger' # Nothing /\ ~pinger'.behind => pinger'.edition = catalog'.edition,
         state' # Nothing /\ ~state'.behind => state'.edition = catalog'.edition,
         worker'[w].pc \in {"probe", "promote", "promoted"} => state'.edition = "java",
         worker'[w].pc = "promoted" => state'.behind
  PROVE  RowsAreCurrent'
<1>1. \A v \in Workers : v # w => worker'[v].pc \in {"nothing", "poll", "enter"}
  BY DEF TypeOK
<1> QED  BY <1>1 DEF RowsAreCurrent, At

(* The favicon call concerns no edition.                                   *)
LEMMA FaviconCurrent ==
  ASSUME TypeOK, TypeOK', RowsAreCurrent, NEW w \in Workers, lock \in {Nobody, w},
         worker[w].pc \in HoldsAnswer, UNCHANGED <<catalog, page, pinger>>,
         NEW st \in ServerState, st.probe = WantsProbe(st.edition), ThenFavicon(w, st),
         ~st.behind => st.edition = catalog.edition
  PROVE  RowsAreCurrent'
<1>1. CASE Leave(w, st)
  <2>1. lock' = Nobody /\ state' = [st EXCEPT !.interval = NextInterval(st, worker[w].answer.up)]
    BY <1>1, LeaveTyped
  <2>2. state'.behind = st.behind /\ state'.edition = st.edition
    BY <2>1 DEF ServerState
  <2> QED  BY <2>1, <2>2, FreeCurrent DEF RowsAreCurrent
<1>2. CASE /\ state' = st /\ lock' = w
           /\ worker' = [worker EXCEPT ![w] = [pc |-> "upload", answer |-> worker[w].answer]]
  <2>1. worker'[w].pc = "upload"
    BY <1>2 DEF TypeOK
  <2> QED  BY <1>2, <2>1, InsideCurrent DEF RowsAreCurrent
<1> QED  BY <1>1, <1>2, FaviconTyped

(* Nothing a row depends on changes but the row itself. *)
LEMMA SyncCurrent ==
  ASSUME TypeOK, TypeOK', RowsAreCurrent, Sync
  PROVE  RowsAreCurrent'
<1>1. CASE FetchPage \/ FetchFails \/ ForcePingFetch
  BY <1>1 DEF FetchPage, FetchFails, ForcePingFetch, RowsAreCurrent, At
<1>2. CASE ApplyPage
  <2>1. page \in Fetched
    BY <1>2 DEF TypeOK, ApplyPage
  <2>2. state' # Nothing => state'.behind = page.behind /\ state'.edition = page.edition
    <3>1. CASE state' = Nothing
      BY <3>1
    <3>2. CASE Track(page)
      BY <3>2 DEF Track, NewState
    <3>3. CASE state # Nothing /\ state' = Updated(page)
      BY <2>1, <3>3 DEF Updated, TypeOK, ServerState
    <3> QED  BY <1>2, <3>1, <3>2, <3>3 DEF ApplyPage
  <2> QED  BY <1>2, <2>2, FreeCurrent DEF ApplyPage, RowsAreCurrent
<1>3. CASE ForcePingInsert
  <2>1. state'.behind = pinger.behind /\ state'.edition = pinger.edition
    BY <1>3 DEF ForcePingInsert, Track, NewState
  <2> QED  BY <1>3, <2>1, FreeCurrent DEF ForcePingInsert, RowsAreCurrent
<1> QED  BY <1>1, <1>2, <1>3 DEF Sync

(* Only a server the state takes for Java is probed.                       *)
LEMMA EnterCurrent ==
  ASSUME TypeOK, TypeOK', RowsAreCurrent, NEW w \in Workers, Enter(w)
  PROVE  RowsAreCurrent'
<1> DEFINE st == Counted(worker[w].answer.up)
<1>1. /\ worker[w].answer.up \in BOOLEAN /\ worker[w].pc \in HoldsAnswer
      /\ lock = Nobody /\ state # Nothing /\ state.probe = WantsProbe(state.edition)
      /\ UNCHANGED <<catalog, page, pinger>>
  BY DEF TypeOK, Enter, At, HoldsAnswer, Answer, Nothing
<1>2. /\ st \in ServerState /\ st.probe = WantsProbe(st.edition)
      /\ st.behind = state.behind /\ st.edition = state.edition
  BY <1>1, CountedTyped
<1> HIDE DEF st
<1>3. ~st.behind => st.edition = catalog.edition
  BY <1>1, <1>2 DEF RowsAreCurrent
<1>4. CASE ThenFavicon(w, st)
  BY <1>1, <1>2, <1>3, <1>4, FaviconCurrent
<1>5. CASE state.probe /\ state' = st /\ lock' = w /\ Goto(w, "probe")
  <2>1. worker'[w].pc = "probe"
    BY <1>1, <1>5, GotoTyped DEF Inside, TypeOK
  <2>2. state'.edition = "java"
    BY <1>1, <1>2, <1>5 DEF WantsProbe
  <2> QED  BY <1>1, <1>3, <1>5, <2>1, <2>2, InsideCurrent DEF RowsAreCurrent
<1> QED  BY <1>4, <1>5 DEF Enter, st

(* Once applied, the call has made the row behind; the reply brings the    *)
(* state in line.                                                          *)
LEMMA ProbeCurrent ==
  ASSUME TypeOK, TypeOK', RowsAreCurrent, NEW w \in Workers,
         ProbeAnswered(w) \/ ProbeFails(w) \/ Promote(w) \/ Promoted(w) \/ PromoteFails(w)
  PROVE  RowsAreCurrent'
<1>1. /\ worker[w].pc \in {"probe", "promote", "promoted"} /\ worker[w].pc \in Inside
      /\ state.edition = "java"
  BY DEF RowsAreCurrent, ProbeAnswered, ProbeFails, Promote, Promoted, PromoteFails, At, Inside
<1>2. /\ lock = w /\ state \in ServerState /\ state # Nothing /\ worker[w].pc \in HoldsAnswer
      /\ state.probe = WantsProbe(state.edition)
  BY <1>1, InsideHoldsLock
<1>3. ASSUME NEW edition \in Edition, ThenFavicon(w, Rescheduled(edition)),
             UNCHANGED <<catalog, page, pinger>>,
             state.behind \/ edition = state.edition
      PROVE  RowsAreCurrent'
  <2>1. /\ Rescheduled(edition) \in ServerState
        /\ Rescheduled(edition).probe = WantsProbe(Rescheduled(edition).edition)
        /\ Rescheduled(edition).edition = edition
        /\ Rescheduled(edition).behind = state.behind
    BY <1>2, RescheduledTyped
  <2>2. ~Rescheduled(edition).behind => Rescheduled(edition).edition = catalog.edition
    BY <1>2, <1>3, <2>1 DEF RowsAreCurrent
  <2> QED  BY <1>2, <1>3, <2>1, <2>2, FaviconCurrent
<1>4. CASE ProbeAnswered(w)
  <2>1. worker'[w].pc = "promote"
    BY <1>2, <1>4, GotoTyped DEF ProbeAnswered, Inside, TypeOK
  <2> QED  BY <1>1, <1>2, <1>4, <2>1, InsideCurrent DEF ProbeAnswered, RowsAreCurrent
<1>5. CASE ProbeFails(w) \/ PromoteFails(w)
  BY <1>1, <1>3, <1>5 DEF ProbeFails, PromoteFails, Silent, Edition
<1>6. CASE Promote(w)
  <2>1. worker'[w].pc = "promoted"
    BY <1>2, <1>6, GotoTyped DEF Promote, Inside, TypeOK
  <2>2. CASE catalog.edition = "java_bedrock"
    <3>1. state.behind
      BY <1>1, <1>2, <2>2 DEF RowsAreCurrent
    <3> QED  BY <1>1, <1>2, <1>6, <2>1, <2>2, <3>1, InsideCurrent DEF Promote, RowsAreCurrent
  <2>3. CASE catalog.edition # "java_bedrock"
    <3>1. Edited("java_bedrock") /\ state' = [state EXCEPT !.behind = TRUE]
      BY <1>6, <2>3 DEF Promote
    <3>2. state'.behind /\ state'.edition = "java"
      BY <1>1, <1>2, <3>1, BehindTyped
    <3> QED  BY <1>2, <1>6, <2>1, <3>1, <3>2, EditedCurrent, InsideCurrent DEF Promote, Edition
  <2> QED  BY <2>2, <2>3
<1>7. CASE Promoted(w)
  <2>1. state.behind
    BY <1>7 DEF Promoted, RowsAreCurrent
  <2> QED  BY <1>3, <1>7, <2>1 DEF Promoted, Edition
<1> QED  BY <1>4, <1>5, <1>6, <1>7

(* The end of the favicon call concerns no edition either.                 *)
LEMMA UploadCurrent ==
  ASSUME TypeOK, TypeOK', RowsAreCurrent, NEW w \in Workers, Upload(w) \/ Uploaded(w) \/ UploadFails(w)
  PROVE  RowsAreCurrent'
<1>1. worker[w].pc \in Inside /\ worker[w].answer \in Answer
  BY DEF TypeOK, Upload, Uploaded, UploadFails, At, Inside, Nothing
<1>2. lock = w /\ state \in ServerState /\ state # Nothing /\ worker[w].pc \in HoldsAnswer
      /\ state.probe = WantsProbe(state.edition)
  BY <1>1, InsideHoldsLock
<1>3. ASSUME NEW st \in ServerState, st.probe = WantsProbe(st.edition), Leave(w, st),
             st.behind = state.behind, st.edition = state.edition,
             UNCHANGED <<catalog, page, pinger>>
      PROVE  RowsAreCurrent'
  <2>1. lock' = Nobody /\ state' = [st EXCEPT !.interval = NextInterval(st, worker[w].answer.up)]
    BY <1>2, <1>3, LeaveTyped
  <2>2. state'.behind = st.behind /\ state'.edition = st.edition
    BY <2>1 DEF ServerState
  <2> QED  BY <1>2, <1>3, <2>1, <2>2, FreeCurrent DEF RowsAreCurrent
<1>4. CASE Upload(w)
  <2>1. worker'[w].pc = "uploaded" /\ catalog'.edition = catalog.edition
    BY <1>2, <1>4, GotoTyped DEF Upload, Inside, TypeOK
  <2> QED  BY <1>2, <1>4, <2>1, InsideCurrent DEF Upload, RowsAreCurrent
<1>5. CASE Uploaded(w)
  <2> DEFINE st == [state EXCEPT !.hash = worker[w].answer.favicon]
  <2>1. /\ st \in ServerState /\ st.probe = WantsProbe(st.edition)
        /\ st.behind = state.behind /\ st.edition = state.edition
    BY <1>1, <1>2 DEF ServerState, Answer
  <2>2. Leave(w, st) /\ UNCHANGED <<catalog, page, pinger>>
    BY <1>5 DEF Uploaded
  <2> HIDE DEF st
  <2> QED  BY <1>3, <2>1, <2>2
<1>6. CASE UploadFails(w)
  BY <1>2, <1>3, <1>6 DEF UploadFails
<1> QED  BY <1>4, <1>5, <1>6

(* Every step keeps the rows current or behind.                            *)
LEMMA CurrentStep ==
  ASSUME TypeOK, TypeOK', RowsAreCurrent, [Next]_vars
  PROVE  RowsAreCurrent'
<1>1. ASSUME NEW w \in Workers, StartPoll(w) \/ Found(w) \/ EnterGone(w)
      PROVE  RowsAreCurrent'
  <2>1. /\ \A v \in Workers : v # w => worker'[v] = worker[v]
        /\ worker'[w].pc \in {"nothing", "poll", "enter"}
        /\ UNCHANGED <<catalog, page, pinger, state>>
    BY <1>1 DEF TypeOK, StartPoll, Found, EnterGone, Nothing
  <2> QED  BY <2>1 DEF RowsAreCurrent, At
<1>2. ASSUME NEW w \in Workers, Proceed(w)
      PROVE  RowsAreCurrent'
  BY <1>1, <1>2, EnterCurrent, ProbeCurrent, UploadCurrent DEF Proceed
<1>3. CASE WorldChanges \/ UNCHANGED vars
  BY <1>3 DEF WorldChanges, vars, RowsAreCurrent, At
<1>4. CASE Edit
  <2>1. PICK e \in (Edition \cup {Gone}) \ {catalog.edition} :
          /\ Edited(e)
          /\ state' = IF state = Nothing THEN state ELSE [state EXCEPT !.behind = TRUE]
    BY <1>4 DEF Edit
  <2>2. state' # Nothing => state # Nothing /\ state'.behind /\ state'.edition = state.edition
    BY <2>1, BehindTyped DEF TypeOK
  <2>3. UNCHANGED <<lock, worker>>
    BY <1>4 DEF Edit
  <2>4. \A w \in Workers : worker[w].pc \in {"probe", "promote", "promoted"} =>
          state' # Nothing /\ state'.edition = "java" /\ state'.behind
    <3> TAKE w \in Workers
    <3> HAVE worker[w].pc \in {"probe", "promote", "promoted"}
    <3>1. state \in ServerState /\ state # Nothing /\ state.probe = WantsProbe(state.edition)
      BY InsideHoldsLock DEF Inside
    <3>2. state' # Nothing
      BY <2>1, <3>1, BehindTyped
    <3> QED  BY <2>2, <3>2 DEF RowsAreCurrent
  <2> QED  BY <2>1, <2>2, <2>3, <2>4, EditedCurrent DEF RowsAreCurrent, At
<1>5. CASE Restart
  BY <1>5, FreeCurrent DEF Restart
<1> QED  BY <1>1, <1>2, <1>3, <1>4, <1>5, SyncCurrent DEF Next

(* UpdateServerEdition carries no expected value, but maybe_probe_bedrock  *)
(* sends it only for a state that says Java and keeps the mutex from the   *)
(* decision to the reply: when the catalog holds another edition by then,  *)
(* the catalog changed after the row was fetched, by an edit or by an      *)
(* earlier call of the poller whose reply was lost.                        *)
THEOREM OverwritesOnlyWhatIsBehind == Spec => OverwritesOnlyStale
<1>1. Init => TypeOK /\ ForcePingListed /\ RowsAreCurrent
  BY TypeInit, OutcomeAssumption DEF Init, RowsAreCurrent, At, Nothing
<1>2. TypeOK /\ ForcePingListed /\ RowsAreCurrent /\ [Next]_vars
        => (TypeOK /\ ForcePingListed /\ RowsAreCurrent)'
  BY TypeStep, ForcePingStep, CurrentStep
<1>3. TypeOK /\ RowsAreCurrent =>
        \A w \in Workers : At(w, "promote") => catalog.edition = "java" \/ state.behind
  BY InsideHoldsLock DEF RowsAreCurrent, At, Inside
<1>4. TypeOK /\ ForcePingListed /\ RowsAreCurrent /\ [Next]_vars =>
        [\A w \in Workers :
           At(w, "promote") /\ worker'[w].pc = "promoted" =>
             catalog.edition \in {"java", "java_bedrock"} \/ state.behind]_vars
  BY <1>3
<1> QED  BY <1>1, <1>2, <1>4, PTL DEF Spec, OverwritesOnlyStale

=============================================================================
