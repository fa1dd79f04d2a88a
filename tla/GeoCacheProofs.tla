--------------------------- MODULE GeoCacheProofs ---------------------------
(***************************************************************************)
(* Theorems about GeoCache, for any tasks, targets, permits and times: the *)
(* two caches together never serve an answer older than their times add up *)
(* to, only a race overwrites a fresh entry, the DNS cache stays bounded,  *)
(* and the types.                                                          *)
(*                                                                         *)
(* The argument for the first: the age of a fresh entry and the time it    *)
(* has left add up to at most what it was given, so an answer that goes    *)
(* from the DNS cache through an HTTP request into the other cache takes   *)
(* at most DnsTtl - 1, then Timeout, with it.                              *)
(***************************************************************************)
EXTENDS GeoCache, FiniteSetTheorems, TLAPS

(* The age of a result when it is stored. *)
StoredBy(found) == IF found THEN DnsTtl - 1 + Timeout ELSE DnsRetry - 1

(* For how long an entry is kept. *)
DnsKept(found) == IF found THEN DnsTtl ELSE DnsRetry
GeoKept(found) == IF found THEN GeoTtl + Jitter ELSE GeoRetry

Timed == [found: BOOLEAN, left: Nat, age: Nat]

DnsInv ==
  \A k \in DOMAIN dns :
    dns[k] \in Timed /\ (dns[k].left > 0 => dns[k].age + dns[k].left <= DnsKept(dns[k].found))

GeoInv ==
  \A k \in DOMAIN geo :
    /\ geo[k] \in Timed
    /\ geo[k].left > 0 => geo[k].age + geo[k].left <= StoredBy(geo[k].found) + GeoKept(geo[k].found)

(* What a task has in hand, by where it is. *)
Held(p, h, n) ==
  /\ h \in [found: BOOLEAN, age: Nat] /\ n \in Nat
  /\ p = "insert" => h.age = 0
  /\ p = "http"   => h.found /\ h.age + n <= StoredBy(TRUE)
  /\ p = "store"  => h.age <= StoredBy(h.found)

HandInv ==
  /\ DOMAIN pc = Tasks /\ DOMAIN hand = Tasks /\ DOMAIN timer = Tasks
  /\ \A w \in Tasks : Held(pc[w], hand[w], timer[w])

QueueInv == waiting \in Seq(Tasks) /\ DOMAIN target = Tasks

IInv == DnsInv /\ GeoInv /\ HandInv

(* The settings are numbers. *)
LEMMA Times ==
  /\ DnsTtl \in Nat \ {0} /\ DnsRetry \in Nat \ {0} /\ Timeout \in Nat
  /\ GeoTtl \in Nat /\ GeoRetry \in Nat /\ Jitter \in Nat
BY GeoAssumption

(* Whatever fetch_geo would answer is young enough. *)
LEMMA IInvBounds == IInv => BoundedStaleness
<1> SUFFICES ASSUME IInv PROVE BoundedStaleness
  OBVIOUS
<1>1. ASSUME NEW k \in GeoKeys, Fresh(geo, k)
      PROVE  geo[k].age < IF geo[k].found THEN Stale ELSE DnsRetry + GeoRetry
  BY <1>1, Times DEF IInv, GeoInv, Fresh, Timed, StoredBy, GeoKept, Stale
<1>2. ASSUME NEW w \in Tasks, pc[w] = "store"
      PROVE  hand[w].age < IF hand[w].found THEN Stale ELSE DnsRetry + GeoRetry
  BY <1>2, Times DEF IInv, HandInv, Held, StoredBy, Stale
<1> QED
  BY <1>1, <1>2 DEF BoundedStaleness

(* Nothing is cached at the start. *)
LEMMA InitIInv == Init => IInv
<1> SUFFICES ASSUME Init PROVE IInv
  OBVIOUS
<1>1. DOMAIN dns = {} /\ DOMAIN geo = {}
  BY DEF Init
<1>2. HandInv
  <2>1. \A w \in Tasks : pc[w] = "idle" /\ hand[w] = None /\ timer[w] = 0
    BY DEF Init
  <2>2. Held("idle", None, 0)
    BY DEF Held, None
  <2>3. DOMAIN pc = Tasks /\ DOMAIN hand = Tasks /\ DOMAIN timer = Tasks
    BY DEF Init
  <2> QED
    BY <2>1, <2>2, <2>3 DEF HandInv
<1> QED
  BY <1>1, <1>2 DEF IInv, DnsInv, GeoInv

(* A step of one task that leaves it with p, h and n. *)
LEMMA OneTask ==
  ASSUME HandInv, NEW w \in Tasks, NEW p, NEW h, NEW n, Held(p, h, n),
         pc' = [pc EXCEPT ![w] = p],
         \/ hand' = [hand EXCEPT ![w] = h]
         \/ h = hand[w] /\ UNCHANGED hand,
         \/ timer' = [timer EXCEPT ![w] = n]
         \/ n = timer[w] /\ UNCHANGED timer
  PROVE  HandInv'
<1>1. pc'[w] = p /\ hand'[w] = h /\ timer'[w] = n
  BY DEF HandInv
<1>2. ASSUME NEW v \in Tasks, v # w
      PROVE  pc'[v] = pc[v] /\ hand'[v] = hand[v] /\ timer'[v] = timer[v]
  BY <1>2 DEF HandInv
<1>3. \A v \in Tasks : Held(pc'[v], hand'[v], timer'[v])
  BY <1>1, <1>2 DEF HandInv
<1>4. DOMAIN pc' = Tasks /\ DOMAIN hand' = Tasks /\ DOMAIN timer' = Tasks
  BY DEF HandInv
<1> QED
  BY <1>3, <1>4 DEF HandInv

(* A fresh DNS entry, taken before it expires, goes to the HTTP request or *)
(* is stored as it is.                                                     *)
LEMMA ResolvedFromCacheIInv ==
  ASSUME IInv, NEW w \in Tasks, Fresh(dns, DnsKey(target[w])), ResolvedFromCache(w),
         UNCHANGED caches
  PROVE  IInv'
<1> DEFINE e == dns[DnsKey(target[w])]
<1>1. e \in Timed /\ e.age <= DnsKept(e.found) - 1
  BY Times DEF IInv, DnsInv, Fresh, Timed, DnsKept
<1> DEFINE p == IF e.found THEN "http" ELSE "store"
           h == [found |-> e.found, age |-> e.age]
           n == IF e.found THEN Timeout ELSE 0
<1>2. hand' = [hand EXCEPT ![w] = h] /\ pc' = [pc EXCEPT ![w] = p] /\ timer' = [timer EXCEPT ![w] = n]
  BY DEF ResolvedFromCache, Resolved
<1> HIDE DEF e
<1>3. Held(p, h, n)
  BY <1>1, Times DEF Held, Timed, DnsKept, StoredBy
<1> HIDE DEF p, h, n
<1>4. HandInv'
  BY <1>2, <1>3, OneTask DEF IInv
<1> QED
  BY <1>4 DEF IInv, DnsInv, GeoInv, caches

(* A step that changes neither a cache nor an answer, nor lets a task have *)
(* one.                                                                    *)
LEMMA WaitIInv ==
  ASSUME IInv, NEW w \in Tasks, NEW q \in {"resolve", "queued", "lookup"},
         pc' = [pc EXCEPT ![w] = q], UNCHANGED <<caches, hand, timer>>
  PROVE  IInv'
<1>1. Held(q, hand[w], timer[w])
  BY DEF IInv, HandInv, Held
<1>2. HandInv'
  BY <1>1, OneTask DEF IInv
<1> QED
  BY <1>2 DEF IInv, DnsInv, GeoInv, caches

(* A step that leaves the caches and the tasks alone. *)
LEMMA FrameIInv ==
  ASSUME IInv, UNCHANGED <<caches, pc, hand, timer>>
  PROVE  IInv'
BY DEF IInv, DnsInv, GeoInv, HandInv, caches

(* fetch_geo answers from its cache or begins. *)
LEMMA FetchIInv ==
  ASSUME IInv, NEW w \in Tasks, NEW t \in Targets, Fetch(w, t)
  PROVE  IInv'
<1>1. CASE Fresh(geo, GeoKey(t))
  BY <1>1, FrameIInv DEF Fetch
<1>2. CASE ~Fresh(geo, GeoKey(t))
  BY <1>2, WaitIInv DEF Fetch
<1> QED
  BY <1>1, <1>2

(* The first look at the DNS cache. *)
LEMMA CheckCacheIInv ==
  ASSUME IInv, NEW w \in Tasks, CheckCache(w)
  PROVE  IInv'
<1>1. CASE Fresh(dns, DnsKey(target[w]))
  BY <1>1, ResolvedFromCacheIInv DEF CheckCache
<1>2. CASE ~Fresh(dns, DnsKey(target[w]))
  BY <1>2, WaitIInv DEF CheckCache
<1> QED
  BY <1>1, <1>2

(* The second look, with the permit. *)
LEMMA GetPermitIInv ==
  ASSUME IInv, GetPermit, Head(waiting) \in Tasks
  PROVE  IInv'
<1> DEFINE w == Head(waiting)
<1>1. Recheck(w) /\ UNCHANGED caches
  BY DEF GetPermit
<1> HIDE DEF w
<1>2. w \in Tasks
  BY DEF w
<1>3. CASE Fresh(dns, DnsKey(target[w]))
  BY <1>1, <1>2, <1>3, ResolvedFromCacheIInv DEF Recheck
<1>4. CASE ~Fresh(dns, DnsKey(target[w]))
  BY <1>1, <1>2, <1>4, WaitIInv DEF Recheck
<1> QED
  BY <1>3, <1>4

(* lookup_host returns: the answer is new. *)
LEMMA LookupDoneIInv ==
  ASSUME IInv, NEW w \in Tasks, LookupDone(w)
  PROVE  IInv'
<1>1. PICK found \in BOOLEAN : hand' = [hand EXCEPT ![w] = [found |-> found, age |-> 0]]
  BY DEF LookupDone, None
<1>2. Held("insert", [found |-> found, age |-> 0], timer[w])
  BY DEF IInv, HandInv, Held
<1>3. HandInv'
  BY <1>1, <1>2, OneTask DEF IInv, LookupDone
<1> QED
  BY <1>3 DEF IInv, DnsInv, GeoInv, LookupDone, caches

(* A new entry has its age and all of its time ahead. *)
LEMMA InsertDnsIInv ==
  ASSUME IInv, NEW w \in Tasks, InsertDns(w)
  PROVE  IInv'
<1> DEFINE k     == DnsKey(target[w])
           found == hand[w].found
           e     == [found |-> found, left |-> IF found THEN DnsTtl ELSE DnsRetry,
                     age |-> hand[w].age]
           p     == IF found THEN "http" ELSE "store"
           h     == [found |-> found, age |-> hand[w].age]
           n     == IF found THEN Timeout ELSE 0
<1>1. found \in BOOLEAN /\ hand[w].age = 0
  BY DEF IInv, HandInv, Held, InsertDns
<1>2. /\ dns' = Put(Evicted, k, e) /\ geo' = geo
      /\ hand' = [hand EXCEPT ![w] = h] /\ pc' = [pc EXCEPT ![w] = p]
      /\ timer' = [timer EXCEPT ![w] = n]
  BY DEF InsertDns, Resolved
<1>3. DnsInv'
  <2>1. e \in Timed /\ e.age + e.left <= DnsKept(e.found)
    BY <1>1, Times DEF Timed, DnsKept
  <2> HIDE DEF k, e
  <2>2. \A x \in DOMAIN Evicted : x \in DOMAIN dns /\ Evicted[x] = dns[x]
    BY DEF Evicted, Restrict
  <2>3. \A x \in DOMAIN dns' : dns'[x] = e \/ (x \in DOMAIN dns /\ dns'[x] = dns[x])
    BY <1>2, <2>2 DEF Put
  <2> QED
    BY <2>1, <2>3 DEF IInv, DnsInv
<1>4. HandInv'
  <2>1. Held(p, h, n)
    BY <1>1, Times DEF Held, StoredBy
  <2> HIDE DEF p, h, n
  <2> QED
    BY <1>2, <2>1, OneTask DEF IInv
<1> QED
  BY <1>2, <1>3, <1>4 DEF IInv, GeoInv

(* The request ends within its timeout. *)
LEMMA HttpDoneIInv ==
  ASSUME IInv, NEW w \in Tasks, HttpDone(w)
  PROVE  IInv'
<1>1. PICK h : /\ h = hand[w] \/ h = None
               /\ hand' = [hand EXCEPT ![w] = h] \/ (h = hand[w] /\ UNCHANGED hand)
  BY DEF HttpDone
<1>2. Held("store", h, 0)
  <2>1. Held("http", hand[w], timer[w])
    BY DEF IInv, HandInv, HttpDone
  <2>2. Held("store", hand[w], 0)
    BY <2>1, Times DEF Held, StoredBy
  <2>3. Held("store", None, 0)
    BY Times DEF Held, StoredBy, None
  <2> QED
    BY <1>1, <2>2, <2>3
<1>3. HandInv'
  BY <1>1, <1>2, OneTask DEF IInv, HttpDone
<1> QED
  BY <1>3 DEF IInv, DnsInv, GeoInv, HttpDone, caches

(* The result takes its age with it. *)
LEMMA StoreIInv ==
  ASSUME IInv, NEW w \in Tasks, Store(w)
  PROVE  IInv'
<1>1. PICK ttl \in IF hand[w].found THEN Ttls ELSE {GeoRetry} :
        geo' = Put(geo, GeoKey(target[w]),
                   [found |-> hand[w].found, left |-> ttl, age |-> hand[w].age])
  BY DEF Store
<1>2. ttl \in Nat /\ ttl <= GeoKept(hand[w].found)
  BY Times DEF Ttls, GeoKept
<1>3. hand[w] \in [found: BOOLEAN, age: Nat] /\ hand[w].age <= StoredBy(hand[w].found)
  BY DEF IInv, HandInv, Held, Store
<1> DEFINE e == [found |-> hand[w].found, left |-> ttl, age |-> hand[w].age]
<1>4. e \in Timed /\ e.age + e.left <= StoredBy(e.found) + GeoKept(e.found)
  BY <1>2, <1>3, Times DEF Timed, StoredBy, GeoKept
<1>5. GeoInv'
  <2> HIDE DEF e
  <2>1. geo' = Put(geo, GeoKey(target[w]), e)
    BY <1>1 DEF e
  <2>2. \A x \in DOMAIN geo' : geo'[x] = e \/ (x \in DOMAIN geo /\ geo'[x] = geo[x])
    BY <2>1 DEF Put
  <2> QED
    BY <1>4, <2>2 DEF IInv, GeoInv
<1>6. HandInv'
  <2>1. Held("idle", None, timer[w])
    BY DEF IInv, HandInv, Held, None
  <2> QED
    BY <2>1, OneTask DEF IInv, Store
<1> QED
  BY <1>5, <1>6 DEF IInv, DnsInv, Store

(* A second makes an entry that is still fresh one older, with one less    *)
(* left, and a request likewise.                                           *)
LEMMA TickIInv ==
  ASSUME IInv, Tick
  PROVE  IInv'
<1>1. /\ DOMAIN dns' = DOMAIN dns /\ DOMAIN geo' = DOMAIN geo
      /\ \A k \in DOMAIN dns : dns'[k] = [dns[k] EXCEPT !.left = Later(@), !.age = Older(@)]
      /\ \A k \in DOMAIN geo : geo'[k] = [geo[k] EXCEPT !.left = Later(@), !.age = Older(@)]
  BY DEF Tick, Aged
<1>2. \A n \in Nat : Older(n) \in Nat /\ Older(n) <= n + 1
  BY DEF Older
<1>3. \A n \in Nat : /\ Later(n) \in Nat
                     /\ Later(n) > 0 => n > 0 /\ Later(n) = n - 1
                     /\ n > 0 => Later(n) = n - 1
  BY DEF Later
<1>4. ASSUME NEW e \in Timed, NEW f, f = [e EXCEPT !.left = Later(@), !.age = Older(@)]
      PROVE  /\ f \in Timed /\ f.found = e.found
             /\ f.left > 0 => e.left > 0 /\ f.age + f.left <= e.age + e.left
  <2>1. e.left \in Nat /\ e.age \in Nat
    BY DEF Timed
  <2>2. f.left = Later(e.left) /\ f.age = Older(e.age) /\ f.found = e.found /\ f \in Timed
    BY <1>2, <1>3, <1>4, <2>1 DEF Timed
  <2> QED
    BY <1>2, <1>3, <2>1, <2>2
<1>5. DnsInv'
  <2>1. ASSUME NEW k \in DOMAIN dns
        PROVE  /\ dns'[k] \in Timed
               /\ dns'[k].left > 0 => dns'[k].age + dns'[k].left <= DnsKept(dns'[k].found)
    <3>1. /\ dns[k] \in Timed
          /\ dns[k].left > 0 => dns[k].age + dns[k].left <= DnsKept(dns[k].found)
      BY DEF IInv, DnsInv
    <3>2. /\ dns'[k] \in Timed /\ dns'[k].found = dns[k].found
          /\ dns'[k].left > 0 =>
               dns[k].left > 0 /\ dns'[k].age + dns'[k].left <= dns[k].age + dns[k].left
      BY <1>1, <1>4, <3>1
    <3> QED
      BY <3>1, <3>2, Times DEF Timed, DnsKept
  <2> QED
    BY <1>1, <2>1 DEF DnsInv
<1>6. GeoInv'
  <2>1. ASSUME NEW k \in DOMAIN geo
        PROVE  /\ geo'[k] \in Timed
               /\ geo'[k].left > 0 =>
                    geo'[k].age + geo'[k].left
                      <= StoredBy(geo'[k].found) + GeoKept(geo'[k].found)
    <3>1. /\ geo[k] \in Timed
          /\ geo[k].left > 0 =>
               geo[k].age + geo[k].left <= StoredBy(geo[k].found) + GeoKept(geo[k].found)
      BY DEF IInv, GeoInv
    <3>2. /\ geo'[k] \in Timed /\ geo'[k].found = geo[k].found
          /\ geo'[k].left > 0 =>
               geo[k].left > 0 /\ geo'[k].age + geo'[k].left <= geo[k].age + geo[k].left
      BY <1>1, <1>4, <3>1
    <3> QED
      BY <3>1, <3>2, Times DEF Timed, StoredBy, GeoKept
  <2> QED
    BY <1>1, <2>1 DEF GeoInv
<1>7. HandInv'
  <2>1. ASSUME NEW w \in Tasks PROVE Held(pc'[w], hand'[w], timer'[w])
    <3>1. /\ Held(pc[w], hand[w], timer[w]) /\ pc'[w] = pc[w] /\ timer'[w] = Later(timer[w])
          /\ pc[w] # "insert" /\ pc[w] # "store"
      BY DEF IInv, HandInv, Tick
    <3>2. CASE pc[w] = "http"
      <4>1. hand'[w] = [hand[w] EXCEPT !.age = Older(@)] /\ timer[w] > 0
        BY <3>2 DEF Tick
      <4>2. hand[w] \in [found: BOOLEAN, age: Nat] /\ timer[w] \in Nat
        BY <3>1 DEF Held
      <4>3. /\ hand'[w] \in [found: BOOLEAN, age: Nat]
            /\ hand'[w].found = hand[w].found /\ hand'[w].age = Older(hand[w].age)
        BY <1>2, <4>1, <4>2
      <4> QED
        BY <1>2, <1>3, <3>1, <3>2, <4>1, <4>2, <4>3, Times DEF Held, StoredBy
    <3>3. CASE pc[w] # "http"
      BY <1>3, <3>1, <3>3 DEF Held, Tick
    <3> QED
      BY <3>2, <3>3
  <2> QED
    BY <2>1 DEF IInv, HandInv, Tick
<1> QED
  BY <1>5, <1>6, <1>7 DEF IInv

(* Those that wait for a permit are tasks, and every task has a target. *)
LEMMA QueueStep ==
  ASSUME QueueInv, [Next]_vars
  PROVE  QueueInv'
<1>1. waiting' \in Seq(Tasks)
  <2>1. CASE \E w \in Tasks : CheckCache(w)
    BY <2>1 DEF CheckCache, QueueInv
  <2>2. CASE GetPermit
    BY <2>2 DEF GetPermit, QueueInv
  <2>3. CASE UNCHANGED waiting
    BY <2>3 DEF QueueInv
  <2> QED
    BY <2>1, <2>2, <2>3
       DEF Next, Step, Fetch, LookupDone, InsertDns, HttpDone, Store, Tick, vars
<1>2. DOMAIN target' = Tasks
  BY DEF QueueInv, Next, Step, CheckCache, GetPermit, Fetch, LookupDone, InsertDns, HttpDone,
         Store, Tick, vars, task
<1> QED
  BY <1>1, <1>2 DEF QueueInv

(* Every step keeps the invariant. *)
LEMMA NextIInv ==
  ASSUME IInv, QueueInv, [Next]_vars
  PROVE  IInv'
<1>1. ASSUME NEW w \in Tasks, Step(w) PROVE IInv'
  BY <1>1, CheckCacheIInv, LookupDoneIInv, InsertDnsIInv, HttpDoneIInv, StoreIInv DEF Step
<1>2. ASSUME NEW w \in Tasks, NEW t \in Targets, Fetch(w, t) PROVE IInv'
  BY <1>2, FetchIInv
<1>3. CASE GetPermit
  <2>1. Head(waiting) \in Tasks
    BY <1>3 DEF GetPermit, QueueInv
  <2> QED
    BY <1>3, <2>1, GetPermitIInv
<1>4. CASE Tick
  BY <1>4, TickIInv
<1>5. CASE UNCHANGED vars
  BY <1>5, FrameIInv DEF vars, task
<1> QED
  BY <1>1, <1>2, <1>3, <1>4, <1>5 DEF Next

----------------------------------------------------------------------------
(* No answer of fetch_geo is as old as the times of the two caches and the *)
(* timeout of the request between them add up to, for any settings and any *)
(* interleaving of the tasks that share the caches.                        *)
THEOREM BoundedStalenessHolds == Spec => []BoundedStaleness
<1>1. Init => IInv /\ QueueInv
  BY InitIInv DEF Init, QueueInv
<1>2. IInv /\ QueueInv /\ [Next]_vars => IInv' /\ QueueInv'
  BY NextIInv, QueueStep
<1>3. IInv => BoundedStaleness
  BY IInvBounds
<1> QED
  BY <1>1, <1>2, <1>3, PTL DEF Spec

----------------------------------------------------------------------------
(* A name that is looked up has no fresh entry, but one written meanwhile. *)
RaceInv ==
  \A w \in Tasks :
    pc[w] \in {"lookup", "insert"} /\ w \notin raced => ~Fresh(dns, DnsKey(target[w]))

(* A step that starts no lookup and leaves the DNS cache alone. *)
LEMMA QuietRace ==
  ASSUME RaceInv, UNCHANGED <<dns, raced>>,
         \A w \in Tasks : pc'[w] \in {"lookup", "insert"} =>
                            pc[w] \in {"lookup", "insert"} /\ target'[w] = target[w]
  PROVE  RaceInv'
BY DEF RaceInv, Fresh

(* The steps of a task but the write. *)
LEMMA StepRace ==
  ASSUME IInv, QueueInv, RaceInv, NEW w \in Tasks,
         \/ CheckCache(w) \/ LookupDone(w) \/ HttpDone(w) \/ Store(w)
         \/ \E t \in Targets : Fetch(w, t)
  PROVE  RaceInv'
<1>1. UNCHANGED <<dns, raced>>
  BY DEF CheckCache, LookupDone, HttpDone, Store, Fetch, caches
<1>2. DOMAIN pc = Tasks
  BY DEF IInv, HandInv
<1>3. CASE CheckCache(w)
  BY <1>1, <1>2, <1>3, QuietRace DEF CheckCache, ResolvedFromCache, Resolved
<1>4. CASE LookupDone(w)
  BY <1>1, <1>2, <1>4, QuietRace DEF LookupDone
<1>5. CASE HttpDone(w)
  BY <1>1, <1>2, <1>5, QuietRace DEF HttpDone
<1>6. CASE Store(w)
  BY <1>1, <1>2, <1>6, QuietRace DEF Store, QueueInv
<1>7. ASSUME NEW t \in Targets, Fetch(w, t) PROVE RaceInv'
  BY <1>1, <1>2, <1>7, QuietRace DEF Fetch, QueueInv
<1> QED
  BY <1>3, <1>4, <1>5, <1>6, <1>7

(* The double check starts no lookup of a fresh name. *)
LEMMA GetPermitRace ==
  ASSUME IInv, QueueInv, RaceInv, GetPermit
  PROVE  RaceInv'
<1> DEFINE w == Head(waiting)
<1>1. w \in Tasks /\ Recheck(w) /\ UNCHANGED <<dns, target, raced>>
  BY DEF GetPermit, QueueInv, caches
<1> HIDE DEF w
<1>2. DOMAIN pc = Tasks
  BY DEF IInv, HandInv
<1>3. CASE Fresh(dns, DnsKey(target[w]))
  BY <1>1, <1>2, <1>3, QuietRace DEF Recheck, ResolvedFromCache, Resolved
<1>4. CASE ~Fresh(dns, DnsKey(target[w]))
  BY <1>1, <1>2, <1>4 DEF Recheck, RaceInv, Fresh
<1> QED
  BY <1>3, <1>4

(* A write marks the lookups of its name. *)
LEMMA InsertDnsRace ==
  ASSUME IInv, RaceInv, NEW w \in Tasks, InsertDns(w)
  PROVE  RaceInv'
<1> DEFINE k == DnsKey(target[w])
<1>1. PICK e : dns' = Put(Evicted, k, e)
  BY DEF InsertDns
<1>2. /\ raced' = (raced \cup { v \in Looking : DnsKey(target[v]) = k }) \ {w}
      /\ target' = target /\ pc'[w] \notin {"lookup", "insert"}
      /\ \A v \in Tasks : v # w => pc'[v] = pc[v]
  BY DEF IInv, HandInv, InsertDns, Resolved
<1>3. \A x : x # k /\ Fresh(dns', x) => Fresh(dns, x)
  BY <1>1 DEF Put, Evicted, Restrict, Fresh
<1>4. ASSUME NEW v \in Tasks, pc'[v] \in {"lookup", "insert"}, v \notin raced'
      PROVE  ~Fresh(dns', DnsKey(target[v]))
  <2>1. v # w /\ v \in Looking
    BY <1>2, <1>4 DEF Looking
  <2>2. v \notin raced /\ DnsKey(target[v]) # k
    BY <1>2, <1>4, <2>1
  <2>3. ~Fresh(dns, DnsKey(target[v]))
    BY <2>1, <2>2 DEF RaceInv, Looking
  <2> QED
    BY <1>3, <2>2, <2>3
<1> QED
  BY <1>2, <1>4 DEF RaceInv

(* Time makes no entry fresh. *)
LEMMA TickRace ==
  ASSUME IInv, RaceInv, Tick
  PROVE  RaceInv'
<1>1. \A k : Fresh(dns', k) => Fresh(dns, k)
  <2>1. ASSUME NEW k, Fresh(dns', k) PROVE Fresh(dns, k)
    <3>1. /\ k \in DOMAIN dns /\ dns[k] \in Timed
          /\ dns'[k] = [dns[k] EXCEPT !.left = Later(@), !.age = Older(@)]
      BY <2>1 DEF IInv, DnsInv, Tick, Aged, Fresh
    <3>2. dns'[k].left = Later(dns[k].left) /\ dns[k].left \in Nat
      BY <3>1 DEF Timed
    <3> QED
      BY <2>1, <3>1, <3>2 DEF Fresh, Later
  <2> QED
    BY <2>1
<1> QED
  BY <1>1 DEF RaceInv, Tick

(* Every step keeps what the double check established. *)
LEMMA NextRace ==
  ASSUME IInv, QueueInv, RaceInv, [Next]_vars
  PROVE  RaceInv'
<1>1. ASSUME NEW w \in Tasks, Step(w) \/ \E t \in Targets : Fetch(w, t) PROVE RaceInv'
  BY <1>1, StepRace, InsertDnsRace DEF Step
<1>2. CASE GetPermit
  BY <1>2, GetPermitRace
<1>3. CASE Tick
  BY <1>3, TickRace
<1>4. CASE UNCHANGED vars
  BY <1>4 DEF vars, caches, task, RaceInv, Fresh
<1> QED
  BY <1>1, <1>2, <1>3, <1>4 DEF Next

(* resolve_ip never replaces a fresh entry but by the result of a lookup   *)
(* that was under way when that entry was written, for any number of tasks *)
(* and permits: "Double-check after acquiring permit".                     *)
THEOREM OnlyRacesOverwriteHolds == Spec => OnlyRacesOverwrite
<1> DEFINE Holds == \A w \in Tasks : InsertDns(w) /\ Fresh(dns, DnsKey(target[w])) => w \in raced
<1>1. Init => IInv /\ QueueInv /\ RaceInv
  BY InitIInv DEF Init, QueueInv, RaceInv
<1>2. IInv /\ QueueInv /\ RaceInv /\ [Next]_vars => IInv' /\ QueueInv' /\ RaceInv'
  BY NextIInv, QueueStep, NextRace
<1>3. RaceInv => [Holds]_vars
  BY DEF RaceInv, InsertDns
<1> QED
  BY <1>1, <1>2, <1>3, PTL DEF Spec, OnlyRacesOverwrite

----------------------------------------------------------------------------
(* Type correctness.  TypeOK is not inductive alone: a task that is not    *)
(* idle has a target (or its key would be none of the caches').            *)

Lefts  == 0..(DnsTtl + DnsRetry + GeoTtl + GeoRetry + Jitter)
Places == {"idle", "resolve", "queued", "lookup", "insert", "http", "store"}

CachesTyped ==
  /\ DOMAIN dns \subseteq DnsKeys /\ dns \in [DOMAIN dns -> Entry]
  /\ DOMAIN geo \subseteq GeoKeys /\ geo \in [DOMAIN geo -> Entry]

TasksTyped ==
  /\ pc \in [Tasks -> Places]
  /\ target \in [Tasks -> Targets \cup {Nobody}] /\ hand \in [Tasks -> Answer]
  /\ timer \in [Tasks -> 0..Timeout]
  /\ \A w \in Tasks : pc[w] # "idle" => target[w] \in Targets

QueueTyped ==
  /\ waiting \in Seq(Tasks)
  /\ IsInjective(waiting) /\ Range(waiting) = { w \in Tasks : pc[w] = "queued" }

RestTyped == raced \subseteq Looking /\ known \in [Targets -> BOOLEAN] /\ failures \in 0..MaxFailures

Types == CachesTyped /\ TasksTyped /\ QueueTyped /\ RestTyped

(* Ages, times left and timers stay within their bounds as time passes.    *)
LEMMA Bounds ==
  /\ 0 \in Ages /\ Stale \in Nat /\ Timeout \in 0..Timeout /\ 0 \in 0..Timeout
  /\ DnsTtl \in Lefts /\ DnsRetry \in Lefts /\ GeoRetry \in Lefts /\ Ttls \subseteq Lefts
  /\ \A a \in Ages : Older(a) \in Ages
  /\ \A n \in Lefts : Later(n) \in Lefts
  /\ \A n \in 0..Timeout : Later(n) \in 0..Timeout
  /\ None \in Answer
BY Times DEF Ages, Stale, Lefts, Ttls, Older, Later, None, Answer

LEMMA EntryIs == Entry = [found: BOOLEAN, left: Lefts, age: Ages]
BY DEF Entry, Lefts

(* An entry more, or a new one in place of an old one. *)
LEMMA PutTyped ==
  ASSUME NEW cache, NEW K, NEW k \in K, NEW e \in Entry,
         DOMAIN cache \subseteq K, \A x \in DOMAIN cache : cache[x] \in Entry
  PROVE  /\ DOMAIN Put(cache, k, e) = DOMAIN cache \cup {k}
         /\ DOMAIN Put(cache, k, e) \subseteq K
         /\ Put(cache, k, e) \in [DOMAIN Put(cache, k, e) -> Entry]
BY DEF Put

(* The queue when no task enters or leaves it. *)
LEMMA QueueSame ==
  ASSUME QueueTyped, TasksTyped, NEW w \in Tasks, NEW p \in Places,
         pc[w] # "queued", p # "queued",
         pc' = [pc EXCEPT ![w] = p], waiting' = waiting
  PROVE  QueueTyped'
<1>1. { v \in Tasks : pc'[v] = "queued" } = { v \in Tasks : pc[v] = "queued" }
  BY DEF TasksTyped
<1> QED  BY <1>1 DEF QueueTyped

(* A step of one task. *)
LEMMA TaskMoves ==
  ASSUME TasksTyped, NEW w \in Tasks, NEW p \in Places, pc[w] # "idle",
         pc' = [pc EXCEPT ![w] = p], target' = target,
         hand' \in [Tasks -> Answer], timer' \in [Tasks -> 0..Timeout]
  PROVE  TasksTyped'
BY DEF TasksTyped

(* A task that has an address goes on to the request or to the store.      *)
LEMMA ResolvedTyped ==
  ASSUME TasksTyped, NEW w \in Tasks, NEW found \in BOOLEAN, NEW age \in Ages,
         Resolved(w, found, age)
  PROVE  /\ \E p \in {"http", "store"} : pc' = [pc EXCEPT ![w] = p]
         /\ hand' \in [Tasks -> Answer] /\ timer' \in [Tasks -> 0..Timeout]
BY Bounds DEF Resolved, TasksTyped, Answer

(* The entry the task has found is of the type of its answer. *)
LEMMA FoundTyped ==
  ASSUME CachesTyped, TasksTyped, NEW w \in Tasks, Fresh(dns, DnsKey(target[w])),
         ResolvedFromCache(w)
  PROVE  /\ \E p \in {"http", "store"} : pc' = [pc EXCEPT ![w] = p]
         /\ hand' \in [Tasks -> Answer] /\ timer' \in [Tasks -> 0..Timeout]
<1> DEFINE e == dns[DnsKey(target[w])]
<1>1. e \in Entry
  BY DEF CachesTyped, Fresh
<1>2. e.found \in BOOLEAN /\ e.age \in Ages
  BY <1>1 DEF Entry
<1>3. Resolved(w, e.found, e.age)
  BY DEF ResolvedFromCache
<1> HIDE DEF e
<1> QED  BY <1>2, <1>3, ResolvedTyped

(* fetch_geo begins: a cached country, or the first look at the DNS cache. *)
LEMMA FetchTypes ==
  ASSUME Types, NEW w \in Tasks, NEW t \in Targets, Fetch(w, t)
  PROVE  Types'
<1>1. CachesTyped'
  BY DEF Types, Fetch, CachesTyped, caches
<1>2. CASE Fresh(geo, GeoKey(t))
  <2>1. geo[GeoKey(t)].found \in BOOLEAN
    BY <1>2 DEF Types, CachesTyped, Fresh, Entry
  <2>2. RestTyped'
    BY <1>2, <2>1 DEF Types, RestTyped, Fetch, Looking
  <2>3. TasksTyped' /\ QueueTyped'
    BY <1>2 DEF Types, TasksTyped, QueueTyped, Fetch
  <2> QED  BY <1>1, <2>2, <2>3 DEF Types
<1>3. CASE ~Fresh(geo, GeoKey(t))
  <2>1. /\ pc[w] = "idle" /\ pc' = [pc EXCEPT ![w] = "resolve"]
        /\ target' = [target EXCEPT ![w] = t]
        /\ hand' = hand /\ timer' = timer /\ waiting' = waiting
        /\ raced' = raced /\ known' = known /\ failures' = failures
    BY <1>3 DEF Fetch
  <2>2. TasksTyped'
    BY <2>1 DEF Types, TasksTyped, Places
  <2>3. QueueTyped'
    BY <2>1, QueueSame DEF Types, Places
  <2>4. RestTyped'
    BY <2>1 DEF Types, RestTyped, Looking, TasksTyped
  <2> QED  BY <1>1, <2>2, <2>3, <2>4 DEF Types
<1> QED  BY <1>2, <1>3

(* The first look at the DNS cache: a hit, or the queue of the semaphore.  *)
LEMMA CheckCacheTypes ==
  ASSUME Types, NEW w \in Tasks, CheckCache(w)
  PROVE  Types'
<1>0. /\ pc[w] = "resolve" /\ dns' = dns /\ geo' = geo /\ target' = target
      /\ raced' = raced /\ known' = known /\ failures' = failures
  BY DEF CheckCache, caches
<1>1. CachesTyped'
  BY <1>0 DEF Types, CachesTyped
<1>2. CASE Fresh(dns, DnsKey(target[w]))
  <2>1. /\ \E p \in {"http", "store"} : pc' = [pc EXCEPT ![w] = p]
        /\ hand' \in [Tasks -> Answer] /\ timer' \in [Tasks -> 0..Timeout]
    BY <1>2, FoundTyped DEF Types, CheckCache
  <2>2. PICK p \in {"http", "store"} : pc' = [pc EXCEPT ![w] = p]
    BY <2>1
  <2>3. TasksTyped'
    BY <1>0, <2>1, <2>2, TaskMoves DEF Types, Places
  <2>4. QueueTyped'
    BY <1>0, <1>2, <2>2, QueueSame DEF Types, Places, CheckCache
  <2>5. RestTyped'
    BY <1>0, <2>2 DEF Types, RestTyped, Looking, TasksTyped
  <2> QED  BY <1>1, <2>3, <2>4, <2>5 DEF Types
<1>3. CASE ~Fresh(dns, DnsKey(target[w]))
  <2>1. /\ pc' = [pc EXCEPT ![w] = "queued"] /\ waiting' = Append(waiting, w)
        /\ hand' = hand /\ timer' = timer
    BY <1>3 DEF CheckCache
  <2>2. TasksTyped'
    BY <1>0, <2>1 DEF Types, TasksTyped, Places
  <2>3. QueueTyped'
    <3>1. w \notin Range(waiting)
      BY <1>0 DEF Types, QueueTyped
    <3>2. /\ waiting' \in Seq(Tasks) /\ DOMAIN waiting = 1..Len(waiting)
          /\ DOMAIN waiting' = 1..(Len(waiting) + 1) /\ Len(waiting) \in Nat
          /\ \A i \in 1..Len(waiting) : waiting'[i] = waiting[i]
          /\ waiting'[Len(waiting) + 1] = w
      BY <2>1 DEF Types, QueueTyped
    <3>3. IsInjective(waiting')
      <4>1. ASSUME NEW i \in DOMAIN waiting', NEW j \in DOMAIN waiting',
                   waiting'[i] = waiting'[j]
            PROVE  i = j
        BY <3>1, <3>2, <4>1 DEF Types, QueueTyped, IsInjective, Range
      <4> QED  BY <4>1 DEF IsInjective
    <3>4. Range(waiting') = Range(waiting) \cup {w}
      BY <3>2 DEF Range
    <3>5. { v \in Tasks : pc'[v] = "queued" } = { v \in Tasks : pc[v] = "queued" } \cup {w}
      BY <2>1 DEF Types, TasksTyped
    <3> QED  BY <3>2, <3>3, <3>4, <3>5 DEF Types, QueueTyped
  <2>4. RestTyped'
    BY <1>0, <2>1 DEF Types, RestTyped, Looking, TasksTyped
  <2> QED  BY <1>1, <2>2, <2>3, <2>4 DEF Types
<1> QED  BY <1>2, <1>3

(* The task at the head of the queue gets the permit and looks again.      *)
LEMMA GetPermitTypes == ASSUME Types, GetPermit PROVE Types'
<1>1. PICK w : w = Head(waiting)
  OBVIOUS
<1>2. /\ waiting \in Seq(Tasks) /\ waiting # <<>> /\ w = waiting[1] /\ waiting' = Tail(waiting)
      /\ Len(waiting) \in Nat \ {0} /\ DOMAIN waiting = 1..Len(waiting)
      /\ DOMAIN waiting' = 1..(Len(waiting) - 1) /\ waiting' \in Seq(Tasks)
      /\ \A i \in 1..(Len(waiting) - 1) : waiting'[i] = waiting[i + 1]
  BY <1>1 DEF GetPermit, Types, QueueTyped
<1>3. w \in Range(waiting)
  BY <1>2 DEF Range
<1>4. w \in Tasks /\ pc[w] = "queued"
  BY <1>3 DEF Types, QueueTyped
<1>5. /\ Recheck(w) /\ dns' = dns /\ geo' = geo /\ target' = target
      /\ raced' = raced /\ known' = known /\ failures' = failures
  BY <1>1 DEF GetPermit, caches
<1>6. /\ \E p \in {"http", "store", "lookup"} : pc' = [pc EXCEPT ![w] = p]
      /\ hand' \in [Tasks -> Answer] /\ timer' \in [Tasks -> 0..Timeout]
  <2>1. CASE Fresh(dns, DnsKey(target[w]))
    BY <1>4, <1>5, <2>1, FoundTyped DEF Types, Recheck
  <2>2. CASE ~Fresh(dns, DnsKey(target[w]))
    BY <1>5, <2>2 DEF Types, TasksTyped, Recheck
  <2> QED  BY <2>1, <2>2
<1>7. PICK p \in {"http", "store", "lookup"} : pc' = [pc EXCEPT ![w] = p]
  BY <1>6
<1>8. TasksTyped'
  BY <1>4, <1>5, <1>6, <1>7, TaskMoves DEF Types, Places
<1>9. QueueTyped'
  <2>1. IsInjective(waiting')
    <3>1. ASSUME NEW i \in DOMAIN waiting', NEW j \in DOMAIN waiting', waiting'[i] = waiting'[j]
          PROVE  i = j
      <4>1. i + 1 \in DOMAIN waiting /\ j + 1 \in DOMAIN waiting
            /\ waiting[i + 1] = waiting[j + 1] /\ i \in Nat /\ j \in Nat
        BY <1>2, <3>1
      <4>2. i + 1 = j + 1
        BY <4>1 DEF Types, QueueTyped, IsInjective
      <4> QED  BY <4>1, <4>2
    <3> QED  BY <3>1 DEF IsInjective
  <2>2. Range(waiting') = Range(waiting) \ {w}
    <3>1. ASSUME NEW i \in DOMAIN waiting' PROVE waiting'[i] \in Range(waiting) \ {w}
      <4>1. i + 1 \in DOMAIN waiting /\ waiting'[i] = waiting[i + 1] /\ i + 1 # 1
            /\ 1 \in DOMAIN waiting
        BY <1>2
      <4> QED  BY <1>2, <4>1 DEF Types, QueueTyped, IsInjective, Range
    <3>2. ASSUME NEW v \in Range(waiting) \ {w} PROVE v \in Range(waiting')
      <4>1. PICK i \in DOMAIN waiting : v = waiting[i]
        BY DEF Range
      <4>2. i - 1 \in DOMAIN waiting' /\ waiting'[i - 1] = waiting[i]
        BY <1>2, <4>1
      <4> QED  BY <4>1, <4>2 DEF Range
    <3> QED  BY <3>1, <3>2 DEF Range
  <2>3. { v \in Tasks : pc'[v] = "queued" } = { v \in Tasks : pc[v] = "queued" } \ {w}
    BY <1>4, <1>7 DEF Types, TasksTyped
  <2> QED  BY <1>2, <2>1, <2>2, <2>3 DEF Types, QueueTyped
<1>10. CachesTyped'
  BY <1>5 DEF Types, CachesTyped
<1>11. RestTyped'
  BY <1>4, <1>5, <1>7 DEF Types, RestTyped, Looking, TasksTyped
<1> QED  BY <1>8, <1>9, <1>10, <1>11 DEF Types

LEMMA FailTyped == ASSUME RestTyped, Fail PROVE failures' \in 0..MaxFailures
BY GeoAssumption DEF RestTyped, Fail

(* lookup_host ends.                                                       *)
LEMMA LookupDoneTypes ==
  ASSUME Types, NEW w \in Tasks, LookupDone(w)
  PROVE  Types'
<1>1. /\ pc[w] = "lookup" /\ pc' = [pc EXCEPT ![w] = "insert"] /\ dns' = dns /\ geo' = geo
      /\ target' = target /\ timer' = timer /\ waiting' = waiting
      /\ raced' = raced /\ known' = known
  BY DEF LookupDone, caches
<1>2. hand' \in [Tasks -> Answer] /\ failures' \in 0..MaxFailures
  <2>1. [found |-> TRUE, age |-> 0] \in Answer
    BY Bounds DEF Answer
  <2> QED  BY <2>1, Bounds, FailTyped DEF LookupDone, Types, TasksTyped, RestTyped
<1>3. TasksTyped'
  BY <1>1, <1>2 DEF Types, TasksTyped, Places
<1>4. QueueTyped'
  BY <1>1, QueueSame DEF Types, Places
<1>5. CachesTyped' /\ RestTyped'
  BY <1>1, <1>2 DEF Types, CachesTyped, RestTyped, Looking, TasksTyped
<1> QED  BY <1>3, <1>4, <1>5 DEF Types

(* The write evicts, inserts and gives the permit back.                    *)
LEMMA InsertDnsTypes ==
  ASSUME Types, NEW w \in Tasks, InsertDns(w)
  PROVE  Types'
<1>1. /\ pc[w] = "insert" /\ geo' = geo /\ target' = target /\ waiting' = waiting
      /\ known' = known /\ failures' = failures
      /\ hand[w].found \in BOOLEAN /\ hand[w].age \in Ages /\ target[w] \in Targets
  BY DEF InsertDns, Types, TasksTyped, Answer
<1> DEFINE k == DnsKey(target[w])
           e == [found |-> hand[w].found, left |-> IF hand[w].found THEN DnsTtl ELSE DnsRetry,
                 age |-> hand[w].age]
<1>2. /\ dns' = Put(Evicted, k, e) /\ k \in DnsKeys
      /\ Resolved(w, hand[w].found, hand[w].age)
      /\ raced' = (raced \cup { v \in Looking : DnsKey(target[v]) = k }) \ {w}
  BY <1>1 DEF InsertDns, DnsKeys
<1>3. e \in Entry
  BY <1>1, Bounds, EntryIs
<1>4. DOMAIN Evicted \subseteq DOMAIN dns /\ \A x \in DOMAIN Evicted : Evicted[x] = dns[x]
  BY DEF Evicted, Restrict
<1> HIDE DEF k, e
<1>5. CachesTyped'
  <2>1. DOMAIN Evicted \subseteq DnsKeys /\ \A x \in DOMAIN Evicted : Evicted[x] \in Entry
    BY <1>4 DEF Types, CachesTyped
  <2>2. DOMAIN dns' \subseteq DnsKeys /\ dns' \in [DOMAIN dns' -> Entry]
    BY <1>2, <1>3, <2>1, PutTyped
  <2> QED  BY <1>1, <2>2 DEF Types, CachesTyped
<1>6. /\ \E p \in {"http", "store"} : pc' = [pc EXCEPT ![w] = p]
      /\ hand' \in [Tasks -> Answer] /\ timer' \in [Tasks -> 0..Timeout]
  BY <1>1, <1>2, ResolvedTyped DEF Types
<1>7. PICK p \in {"http", "store"} : pc' = [pc EXCEPT ![w] = p]
  BY <1>6
<1>8. TasksTyped'
  BY <1>1, <1>6, <1>7, TaskMoves DEF Types, Places
<1>9. QueueTyped'
  BY <1>1, <1>7, QueueSame DEF Types, Places
<1>10. RestTyped'
  <2>1. Looking' = Looking \ {w}
    BY <1>7 DEF Looking, Types, TasksTyped
  <2> QED  BY <1>1, <1>2, <2>1 DEF Types, RestTyped
<1> QED  BY <1>5, <1>8, <1>9, <1>10 DEF Types

(* The HTTP request ends.                                                  *)
LEMMA HttpDoneTypes ==
  ASSUME Types, NEW w \in Tasks, HttpDone(w)
  PROVE  Types'
<1>1. /\ pc[w] = "http" /\ pc' = [pc EXCEPT ![w] = "store"] /\ dns' = dns /\ geo' = geo
      /\ target' = target /\ timer' = [timer EXCEPT ![w] = 0] /\ waiting' = waiting
      /\ raced' = raced /\ known' = known
  BY DEF HttpDone, caches
<1>2. /\ hand' \in [Tasks -> Answer] /\ failures' \in 0..MaxFailures
      /\ timer' \in [Tasks -> 0..Timeout]
  BY <1>1, Bounds, FailTyped DEF HttpDone, Types, TasksTyped, RestTyped
<1>3. TasksTyped'
  BY <1>1, <1>2 DEF Types, TasksTyped, Places
<1>4. QueueTyped'
  BY <1>1, QueueSame DEF Types, Places
<1>5. CachesTyped' /\ RestTyped'
  BY <1>1, <1>2 DEF Types, CachesTyped, RestTyped, Looking, TasksTyped
<1> QED  BY <1>3, <1>4, <1>5 DEF Types

(* The country is written.                                                 *)
LEMMA StoreTypes ==
  ASSUME Types, NEW w \in Tasks, Store(w)
  PROVE  Types'
<1>1. /\ pc[w] = "store" /\ pc' = [pc EXCEPT ![w] = "idle"] /\ dns' = dns
      /\ target' = [target EXCEPT ![w] = Nobody] /\ hand' = [hand EXCEPT ![w] = None]
      /\ timer' = timer /\ waiting' = waiting /\ raced' = raced /\ failures' = failures
      /\ known' = [known EXCEPT ![target[w]] = hand[w].found]
      /\ hand[w].found \in BOOLEAN /\ hand[w].age \in Ages /\ target[w] \in Targets
  BY DEF Store, Types, TasksTyped, Answer
<1>2. PICK ttl \in IF hand[w].found THEN Ttls ELSE {GeoRetry} :
        geo' = Put(geo, GeoKey(target[w]),
                   [found |-> hand[w].found, left |-> ttl, age |-> hand[w].age])
  BY DEF Store
<1> DEFINE k == GeoKey(target[w])
           e == [found |-> hand[w].found, left |-> ttl, age |-> hand[w].age]
<1>3. e \in Entry /\ k \in GeoKeys
  BY <1>1, <1>2, Bounds, EntryIs DEF GeoKeys
<1>4. geo' = Put(geo, k, e)
  BY <1>2
<1> HIDE DEF k, e
<1>5. CachesTyped'
  <2>1. DOMAIN geo' \subseteq GeoKeys /\ geo' \in [DOMAIN geo' -> Entry]
    BY <1>3, <1>4, PutTyped DEF Types, CachesTyped
  <2> QED  BY <1>1, <2>1 DEF Types, CachesTyped
<1>6. TasksTyped'
  BY <1>1, Bounds DEF Types, TasksTyped, Places
<1>7. QueueTyped'
  BY <1>1, QueueSame DEF Types, Places
<1>8. RestTyped'
  BY <1>1 DEF Types, RestTyped, Looking, TasksTyped
<1> QED  BY <1>5, <1>6, <1>7, <1>8 DEF Types

(* A second passes for every entry and every timer.                        *)
LEMMA TickTypes == ASSUME Types, Tick PROVE Types'
<1>1. /\ DOMAIN dns' = DOMAIN dns /\ DOMAIN geo' = DOMAIN geo
      /\ dns' = [k \in DOMAIN dns |-> [dns[k] EXCEPT !.left = Later(@), !.age = Older(@)]]
      /\ geo' = [k \in DOMAIN geo |-> [geo[k] EXCEPT !.left = Later(@), !.age = Older(@)]]
  BY DEF Tick, Aged
<1>2. \A e \in Entry : [e EXCEPT !.left = Later(@), !.age = Older(@)] \in Entry
  BY Bounds, EntryIs
<1>3. CachesTyped'
  <2>1. \A k \in DOMAIN dns : dns[k] \in Entry
    BY DEF Types, CachesTyped
  <2>2. \A k \in DOMAIN geo : geo[k] \in Entry
    BY DEF Types, CachesTyped
  <2> QED  BY <1>1, <1>2, <2>1, <2>2 DEF Types, CachesTyped
<1>4. TasksTyped'
  <2>1. \A h \in Answer : [h EXCEPT !.age = Older(@)] \in Answer
    BY Bounds DEF Answer
  <2> QED  BY <2>1, Bounds DEF Tick, Types, TasksTyped
<1>5. QueueTyped' /\ RestTyped'
  BY DEF Tick, Types, QueueTyped, RestTyped, Looking
<1> QED  BY <1>3, <1>4, <1>5 DEF Types

(* The types hold in every state of the specification.                     *)
LEMMA AlwaysTypes == Spec => []Types
<1>1. Init => Types
  <2> SUFFICES ASSUME Init PROVE Types
    OBVIOUS
  <2>1. CachesTyped
    BY DEF Init, CachesTyped
  <2>2. TasksTyped
    BY Bounds DEF Init, TasksTyped, Places
  <2>3. QueueTyped
    BY DEF Init, QueueTyped, IsInjective, Range
  <2>4. RestTyped
    BY GeoAssumption DEF Init, RestTyped
  <2> QED  BY <2>1, <2>2, <2>3, <2>4 DEF Types
<1>2. Types /\ [Next]_vars => Types'
  <2> SUFFICES ASSUME Types, [Next]_vars PROVE Types'
    OBVIOUS
  <2>1. CASE UNCHANGED vars
    BY <2>1 DEF Types, CachesTyped, TasksTyped, QueueTyped, RestTyped, Looking, vars, caches, task
  <2> QED  BY <2>1, FetchTypes, CheckCacheTypes, GetPermitTypes, LookupDoneTypes, InsertDnsTypes,
              HttpDoneTypes, StoreTypes, TickTypes DEF Next, Step
<1> QED  BY <1>1, <1>2, PTL DEF Spec

(* Type correctness of fetch_geo and resolve_ip: the tasks queued for a    *)
(* permit are those that wait for one, each once; only a lookup under way  *)
(* can have been overtaken; and every key is that of something polled.     *)
THEOREM GeoTypeCorrect == Spec => []TypeOK
<1>1. Types => TypeOK
  BY DEF Types, CachesTyped, TasksTyped, QueueTyped, RestTyped, TypeOK, Places
<1> QED  BY <1>1, AlwaysTypes, PTL

----------------------------------------------------------------------------
(* The DNS cache has finitely many entries, however many names there are. *)
FiniteInv == IsFiniteSet(DOMAIN dns)

(* An eviction only takes keys away.                                       *)
LEMMA EvictedFinite ==
  ASSUME FiniteInv
  PROVE  DOMAIN Evicted \subseteq DOMAIN dns /\ IsFiniteSet(DOMAIN Evicted)
<1>1. DOMAIN Evicted \subseteq DOMAIN dns
  BY DEF Evicted, Restrict
<1> QED  BY <1>1, FS_Subset DEF FiniteInv

(* A write finds room, or leaves what has not expired. *)
LEMMA InsertBounded ==
  ASSUME FiniteInv, NEW w \in Tasks, InsertDns(w)
  PROVE  /\ FiniteInv'
         /\ \/ Cardinality(DOMAIN dns') <= MaxEntries
            \/ \A k \in DOMAIN dns' : Fresh(dns', k)
<1> DEFINE k == DnsKey(target[w])
           e == [found |-> hand[w].found, left |-> IF hand[w].found THEN DnsTtl ELSE DnsRetry,
                 age |-> hand[w].age]
<1>1. dns' = Put(Evicted, k, e)
  BY DEF InsertDns
<1>2. e.left > 0
  BY Times
<1> HIDE DEF k, e
<1>3. DOMAIN dns' = DOMAIN Evicted \cup {k}
  BY <1>1 DEF Put
<1>4. /\ FiniteInv'
      /\ Cardinality(DOMAIN dns') <= Cardinality(DOMAIN Evicted) + 1
      /\ Cardinality(DOMAIN Evicted) \in Nat /\ Cardinality(DOMAIN dns') \in Nat
  <2>1. /\ IsFiniteSet(DOMAIN Evicted \cup {k})
        /\ Cardinality(DOMAIN Evicted \cup {k})
             = IF k \in DOMAIN Evicted THEN Cardinality(DOMAIN Evicted)
                                       ELSE Cardinality(DOMAIN Evicted) + 1
        /\ Cardinality(DOMAIN Evicted) \in Nat
    BY EvictedFinite, FS_AddElement, FS_CardinalityType
  <2> QED  BY <1>3, <2>1 DEF FiniteInv
<1>5. CASE Cardinality(DOMAIN dns) >= MaxEntries
  <2>1. \A x \in DOMAIN Evicted : Evicted[x].left > 0
    BY <1>5 DEF Evicted, Restrict
  <2>2. \A x \in DOMAIN dns' : dns'[x].left > 0
    BY <1>1, <1>2, <2>1 DEF Put
  <2> QED  BY <1>4, <2>2 DEF Fresh
<1>6. CASE ~(Cardinality(DOMAIN dns) >= MaxEntries)
  <2>1. Evicted = dns
    BY <1>6 DEF Evicted
  <2>2. Cardinality(DOMAIN dns) + 1 <= MaxEntries
    BY <1>4, <1>6, <2>1, GeoAssumption
  <2> QED  BY <1>4, <2>1, <2>2, GeoAssumption
<1> QED  BY <1>5, <1>6

(* insert_dns evicts before it inserts and never refuses: the cache grows  *)
(* past dns_cache_max_entries only with entries that are all still valid,  *)
(* for any number of names, tasks and permits.                             *)
THEOREM CacheBoundedHolds == Spec => CacheBounded
<1>1. Init => FiniteInv
  BY FS_EmptySet DEF Init, FiniteInv
<1>2. FiniteInv /\ [Next]_vars => FiniteInv'
  <2> SUFFICES ASSUME FiniteInv, [Next]_vars PROVE FiniteInv'
    OBVIOUS
  <2>1. CASE \E w \in Tasks : InsertDns(w)
    BY <2>1, InsertBounded
  <2>2. CASE DOMAIN dns' = DOMAIN dns
    BY <2>2 DEF FiniteInv
  <2> QED  BY <2>1, <2>2 DEF Next, Step, Fetch, CheckCache, LookupDone, HttpDone, Store, GetPermit,
                             Tick, Aged, vars, caches
<1>3. FiniteInv /\ [Next]_vars
        => [(\E w \in Tasks : InsertDns(w)) =>
              \/ Cardinality(DOMAIN dns') <= MaxEntries
              \/ \A k \in DOMAIN dns' : Fresh(dns', k)]_vars
  BY InsertBounded
<1> QED  BY <1>1, <1>2, <1>3, PTL DEF Spec, CacheBounded
=============================================================================
