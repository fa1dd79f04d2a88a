------------------------------ MODULE GeoCache ------------------------------
(* Where a server is: fetch_geo and resolve_ip of src/src/geo.rs, which    *)
(* poll_server calls first in every worker and in the discovery loop.  Two *)
(* caches, each behind a lock of its own that is released during lookups,  *)
(* and a semaphore that bounds the DNS lookups under way.                  *)
(*                                                                         *)
(* Abstractions:                                                           *)
(*  - An entry or an answer is whether something was found and its age:    *)
(*    how long ago DNS gave the address it is about, or the lookup failed. *)
(*  - Time is counted down: an entry holds the seconds until expires_at.   *)
(*    No time passes between two steps that only wait for a lock.          *)
(*  - DNS and ip-api.com are external.                                     *)
(***************************************************************************)
EXTENDS Integers, Sequences, FiniteSets, SequencesExt

CONSTANTS
  Tasks,        (* the workers and the discovery loop                       *)
  Targets,      (* what is polled: records host, port, edition              *)
  Permits,      (* settings.dns_max_concurrency                             *)
  DnsTtl, DnsRetry,           (* dns_ttl_seconds, dns_retry_seconds         *)
  GeoTtl, GeoRetry, Jitter,   (* ttl, retry and refresh_jitter_seconds      *)
  Timeout,      (* lookup_timeout_seconds                                   *)
  MaxEntries,   (* dns_cache_max_entries                                    *)
  MaxFailures   (* bound on failed lookups                                  *)

ASSUME GeoAssumption ==
  /\ Permits \in Nat \ {0} /\ DnsTtl \in Nat \ {0} /\ DnsRetry \in Nat \ {0}
  /\ GeoTtl \in Nat /\ GeoRetry \in Nat /\ Jitter \in Nat /\ Timeout \in Nat
  /\ MaxEntries \in Nat \ {0} /\ MaxFailures \in Nat

VARIABLES
  dns,       (* dns_entries                                                 *)
  geo,       (* geo_entries                                                 *)
  pc,        (* where a task is in fetch_geo                                *)
  target,    (* what it polls                                               *)
  hand,      (* the answer it has so far                                    *)
  timer,     (* what is left of the timeout of its HTTP request             *)
  waiting,   (* the tasks that wait for a permit, first come first served   *)
  raced,     (* history: tasks whose name was written during their lookup   *)
  known,     (* history: whether the last answer for a target was a country *)
  failures

caches == <<dns, geo>>
task   == <<pc, target, hand, timer>>
vars   == <<caches, task, waiting, raced, known, failures>>

(* The keys of the caches: without a port the country is shared by the     *)
(* editions, the address is not.  The default port of an edition goes by   *)
(* the edition's name.                                                     *)
GeoKey(t) == <<t.host, t.port>>
DnsKey(t) == <<t.host, IF t.port = "none" THEN t.edition ELSE t.port>>

GeoKeys == { GeoKey(t) : t \in Targets }
DnsKeys == { DnsKey(t) : t \in Targets }

(* No answer is as old as that; ages are counted up to it. *)
Stale  == DnsTtl + Timeout + GeoTtl + Jitter
Ages   == 0..Stale
Entry  == [found: BOOLEAN, left: 0..(DnsTtl + DnsRetry + GeoTtl + GeoRetry + Jitter), age: Ages]
Answer == [found: BOOLEAN, age: Ages]
None   == [found |-> FALSE, age |-> 0]
Nobody == [host |-> "none", port |-> "none", edition |-> "none"]

Looking == { w \in Tasks : pc[w] \in {"lookup", "insert"} }

TypeOK ==
  /\ DOMAIN dns \subseteq DnsKeys /\ dns \in [DOMAIN dns -> Entry]
  /\ DOMAIN geo \subseteq GeoKeys /\ geo \in [DOMAIN geo -> Entry]
  /\ pc \in [Tasks -> {"idle", "resolve", "queued", "lookup", "insert", "http", "store"}]
  /\ target \in [Tasks -> Targets \cup {Nobody}] /\ hand \in [Tasks -> Answer]
  /\ timer \in [Tasks -> 0..Timeout]
  /\ IsInjective(waiting) /\ Range(waiting) = { w \in Tasks : pc[w] = "queued" }
  /\ raced \subseteq Looking
  /\ known \in [Targets -> BOOLEAN]
  /\ failures \in 0..MaxFailures

----------------------------------------------------------------------------
(* Mutated form of Fresh: serves an entry whatever its age. *)
MutFresh(cache, k) == k \in DOMAIN cache

(* Instant::now() < entry.expires_at *)
Fresh(cache, k) == k \in DOMAIN cache /\ cache[k].left > 0

Put(cache, k, e) == [x \in DOMAIN cache \cup {k} |-> IF x = k THEN e ELSE cache[x]]

(* fetch_geo answers from its cache or goes on to resolve_ip. *)
Fetch(w, t) ==
  /\ pc[w] = "idle"
  /\ IF Fresh(geo, GeoKey(t))
       THEN /\ known' = [known EXCEPT ![t] = geo[GeoKey(t)].found]
            /\ UNCHANGED <<pc, target>>
       ELSE /\ pc' = [pc EXCEPT ![w] = "resolve"]
            /\ target' = [target EXCEPT ![w] = t]
            /\ UNCHANGED known
  /\ UNCHANGED <<caches, hand, timer, waiting, raced, failures>>

(* The end of resolve_ip: an address is looked up, none is stored. *)
Resolved(w, found, age) ==
  /\ hand' = [hand EXCEPT ![w] = [found |-> found, age |-> age]]
  /\ pc' = [pc EXCEPT ![w] = IF found THEN "http" ELSE "store"]
  /\ timer' = [timer EXCEPT ![w] = IF found THEN Timeout ELSE 0]

ResolvedFromCache(w) ==
  LET e == dns[DnsKey(target[w])] IN Resolved(w, e.found, e.age)

(* The first look at the DNS cache. *)
CheckCache(w) ==
  /\ pc[w] = "resolve"
  /\ IF Fresh(dns, DnsKey(target[w]))
       THEN ResolvedFromCache(w) /\ UNCHANGED waiting
       ELSE /\ pc' = [pc EXCEPT ![w] = "queued"]
            /\ waiting' = Append(waiting, w)
            /\ UNCHANGED <<hand, timer>>
  /\ UNCHANGED <<caches, target, raced, known, failures>>

(* Mutated form of Recheck: another task may have resolved it. *)
MutRecheck(w) ==
  pc' = [pc EXCEPT ![w] = "lookup"] /\ UNCHANGED <<hand, timer>>

(* "Double-check after acquiring permit": the permit is given back or kept *)
(* for the lookup.                                                         *)
Recheck(w) ==
  IF Fresh(dns, DnsKey(target[w]))
    THEN ResolvedFromCache(w)
    ELSE pc' = [pc EXCEPT ![w] = "lookup"] /\ UNCHANGED <<hand, timer>>

(* Mutated form of GetPermit: the task stays in the queue. *)
MutGetPermit ==
  /\ waiting # <<>> /\ Cardinality(Looking) < Permits
  /\ Recheck(Head(waiting))
  /\ UNCHANGED <<caches, target, waiting, raced, known, failures>>

GetPermit ==
  /\ waiting # <<>> /\ Cardinality(Looking) < Permits
  /\ Recheck(Head(waiting))
  /\ waiting' = Tail(waiting)
  /\ UNCHANGED <<caches, target, raced, known, failures>>

Fail == failures < MaxFailures /\ failures' = failures + 1

(* lookup_host returns an address, or none. *)
LookupDone(w) ==
  /\ pc[w] = "lookup"
  /\ pc' = [pc EXCEPT ![w] = "insert"]
  /\ \/ hand' = [hand EXCEPT ![w] = [found |-> TRUE, age |-> 0]] /\ UNCHANGED failures
     \/ hand' = [hand EXCEPT ![w] = None] /\ Fail
  /\ UNCHANGED <<caches, target, timer, waiting, raced, known>>

(* Mutated form of Evicted: nothing goes. *)
MutEvicted == dns

(* "Evict expired entries if cache is too large." *)
Evicted ==
  IF Cardinality(DOMAIN dns) >= MaxEntries
    THEN Restrict(dns, { k \in DOMAIN dns : dns[k].left > 0 })
    ELSE dns

(* The answer goes into the cache, then the permit is given back. *)
InsertDns(w) ==
  /\ pc[w] = "insert"
  /\ LET k     == DnsKey(target[w])
         found == hand[w].found
     IN /\ dns' = Put(Evicted, k, [found |-> found,
                                   left  |-> IF found THEN DnsTtl ELSE DnsRetry,
                                   age   |-> hand[w].age])
        /\ raced' = (raced \cup { v \in Looking : DnsKey(target[v]) = k }) \ {w}
        /\ Resolved(w, found, hand[w].age)
  /\ UNCHANGED <<geo, target, waiting, known, failures>>

(* ip-api.com answers, or does not in time or not with a success. *)
HttpDone(w) ==
  /\ pc[w] = "http"
  /\ pc' = [pc EXCEPT ![w] = "store"]
  /\ timer' = [timer EXCEPT ![w] = 0]
  /\ \/ UNCHANGED <<hand, failures>>
     \/ hand' = [hand EXCEPT ![w] = None] /\ Fail
  /\ UNCHANGED <<caches, target, waiting, raced, known>>

(* ttl_with_jitter, the jitter below its bound. *)
Ttls == IF Jitter = 0 \/ GeoTtl = 0 THEN {GeoTtl} ELSE GeoTtl..(GeoTtl + Jitter - 1)

(* The result goes into the cache and to the poll. *)
Store(w) ==
  /\ pc[w] = "store"
  /\ \E ttl \in IF hand[w].found THEN Ttls ELSE {GeoRetry} :
       geo' = Put(geo, GeoKey(target[w]),
                  [found |-> hand[w].found, left |-> ttl, age |-> hand[w].age])
  /\ known' = [known EXCEPT ![target[w]] = hand[w].found]
  /\ pc' = [pc EXCEPT ![w] = "idle"]
  /\ target' = [target EXCEPT ![w] = Nobody]
  /\ hand' = [hand EXCEPT ![w] = None]
  /\ UNCHANGED <<dns, timer, waiting, raced, failures>>

Step(w) == CheckCache(w) \/ LookupDone(w) \/ InsertDns(w) \/ HttpDone(w) \/ Store(w)

----------------------------------------------------------------------------
(* Time. *)

Older(age)  == IF age < Stale THEN age + 1 ELSE age
Later(n)    == IF n > 0 THEN n - 1 ELSE n
Aged(cache) == [k \in DOMAIN cache |-> [cache[k] EXCEPT !.left = Later(@), !.age = Older(@)]]

(* A second passes: no request outlasts its timeout. *)
Tick ==
  /\ \A w \in Tasks : pc[w] \notin {"insert", "store"} /\ (pc[w] = "http" => timer[w] > 0)
  /\ dns' = Aged(dns) /\ geo' = Aged(geo)
  /\ hand' = [w \in Tasks |-> IF pc[w] = "http" THEN [hand[w] EXCEPT !.age = Older(@)]
                                                ELSE hand[w]]
  /\ timer' = [w \in Tasks |-> Later(timer[w])]
  /\ UNCHANGED <<pc, target, waiting, raced, known, failures>>

Init ==
  /\ dns = <<>> /\ geo = <<>>
  /\ pc = [w \in Tasks |-> "idle"]
  /\ target = [w \in Tasks |-> Nobody]
  /\ hand = [w \in Tasks |-> None] /\ timer = [w \in Tasks |-> 0]
  /\ waiting = <<>> /\ raced = {}
  /\ known = [t \in Targets |-> FALSE]
  /\ failures = 0

Next ==
  \/ \E w \in Tasks : Step(w) \/ \E t \in Targets : Fetch(w, t)
  \/ GetPermit
  \/ Tick

Spec == Init /\ [][Next]_vars

(* Every server is polled again and again (KeepsPolling of Polling), and   *)
(* lookups end, as the resolver has timeouts of its own.                   *)
FairSpec ==
  /\ Spec
  /\ WF_vars(Tick) /\ WF_vars(GetPermit)
  /\ \A w \in Tasks : WF_vars(Step(w))
  /\ \A t \in Targets : SF_vars(\E w \in Tasks : Fetch(w, t))

----------------------------------------------------------------------------
(* What a poll reports is not older than both caches allow together: the   *)
(* address was right less than dns_ttl + lookup_timeout + ttl + jitter     *)
(* seconds ago, although an entry of one cache may be made from an entry   *)
(* of the other that is about to expire.  A failure is reported for less   *)
(* than dns_retry + retry seconds.                                         *)
BoundedStaleness ==
  \A e \in { geo[k] : k \in { l \in GeoKeys : Fresh(geo, l) } }
         \cup { hand[w] : w \in { v \in Tasks : pc[v] = "store" } } :
    e.age < IF e.found THEN Stale ELSE DnsRetry + GeoRetry

(* A name is not looked up while its entry is fresh (the double check):    *)
(* only a lookup that was already under way when that entry was written    *)
(* replaces it, so never with a single permit.                             *)
OnlyRacesOverwrite ==
  [][\A w \in Tasks : InsertDns(w) /\ Fresh(dns, DnsKey(target[w])) => w \in raced]_vars

(* "Evict expired entries if cache is too large.": beyond its maximum the  *)
(* DNS cache holds nothing that has expired after a write.                 *)
CacheBounded ==
  [][(\E w \in Tasks : InsertDns(w)) =>
       \/ Cardinality(DOMAIN dns') <= MaxEntries
       \/ \A k \in DOMAIN dns' : Fresh(dns', k)]_vars

(* Once lookups have stopped failing, every server has its country again,  *)
(* whatever failures the two caches still hold.                            *)
Recovers == \A t \in Targets : <>[]known[t]
=============================================================================
