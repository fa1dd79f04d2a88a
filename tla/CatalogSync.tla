---------------------------- MODULE CatalogSync ----------------------------
(* Which servers the poller tracks: the periodic refresh reads the catalog *)
(* of server-service page by page, first the main servers and then the     *)
(* subservers, and brings the map of states in line with what it got, all  *)
(* of src/src/sync.rs.  The catalog changes between any two pages.         *)
(*                                                                         *)
(* Abstractions:                                                           *)
(*  - A catalog entry is its id; what the refresh does to the state of a   *)
(*    server it already tracks is in modules Polling and Emission.         *)
(*  - The catalog is external: two lists in some order, the total and the  *)
(*    items of a response taken at one moment.  An entry is inserted at    *)
(*    any place, since the order is not known to the poller.               *)
(*  - The delay before the next refresh may be any; it is not modelled.    *)
(***************************************************************************)
EXTENDS Integers, Sequences, FiniteSets, SequencesExt

CONSTANTS
  Ids,           (* ids of servers                                          *)
  PageSize,      (* settings.collector.page_size                            *)
  MaxEdits,      (* bound on changes of the catalog                         *)
  MaxFailures,   (* bound on failed catalog calls                           *)
  MaxPings       (* bound on force pings of untracked servers               *)

ASSUME CatalogAssumption ==
  /\ IsFiniteSet(Ids)
  /\ PageSize \in Nat \ {0}
  /\ MaxEdits \in Nat /\ MaxFailures \in Nat /\ MaxPings \in Nat

VARIABLES
  catalog,    (* the two lists of server-service                            *)
  tracked,    (* the keys of the map of states                              *)
  refresh,    (* what refresh_servers_once is doing                         *)
  asked,      (* the server the force-ping loop got and will insert         *)
  stayed,     (* history: in the catalog ever since the refresh began       *)
  seen,       (* history: in the catalog at some time since it began        *)
  disrupted,  (* history: since it began a page failed or an entry went     *)
  edits, failures, pings

history == <<stayed, seen, disrupted>>
vars    == <<catalog, tracked, refresh, asked, history, edits, failures, pings>>

Lists    == {"main", "sub"}
Listings == { s \in UNION { [1..n -> Ids] : n \in 0..Cardinality(Ids) } : IsInjective(s) }
Waiting  == [pc |-> "wait"]

(* The servers in catalog c. *)
Listed(c) == UNION { Range(c[l]) : l \in Lists }

TypeOK ==
  /\ catalog \in [Lists -> Listings]
  /\ Range(catalog["main"]) \cap Range(catalog["sub"]) = {}
  /\ tracked \subseteq Ids
  /\ refresh \in {Waiting}
       \cup [pc: {"fetch"}, list: Lists, page: Nat \ {0}, count: Nat, items: SUBSET Ids]
       \cup [pc: {"apply"}, items: (SUBSET Ids) \ {{}}]
  /\ asked \subseteq Ids /\ Cardinality(asked) <= 1
  /\ stayed \subseteq seen /\ seen \subseteq Ids /\ disrupted \in BOOLEAN
  /\ edits \in 0..MaxEdits /\ failures \in 0..MaxFailures /\ pings \in 0..MaxPings

----------------------------------------------------------------------------
(* The refresh. *)

StartRefresh ==
  /\ refresh = Waiting
  /\ refresh' = [pc |-> "fetch", list |-> "main", page |-> 1, count |-> 0, items |-> {}]
  /\ stayed' = Listed(catalog) /\ seen' = Listed(catalog) /\ disrupted' = FALSE
  /\ UNCHANGED <<catalog, tracked, asked, edits, failures, pings>>

(* What server-service answers. *)
Page(list, page) ==
  LET last == page * PageSize
      len  == Len(catalog[list]) IN
  SubSeq(catalog[list], last - PageSize + 1, IF last < len THEN last ELSE len)

(* Mutated form of EndOfList: an outage is taken for an empty catalog. *)
MutEndOfList(items) ==
  refresh' = IF refresh.list = "main"
               THEN [refresh EXCEPT !.list = "sub", !.page = 1, !.count = 0, !.items = items]
               ELSE [pc |-> "apply", items |-> items]

(* The subservers follow the main servers.  Nothing at all is a failure. *)
EndOfList(items) ==
  refresh' = IF refresh.list = "main"
               THEN [refresh EXCEPT !.list = "sub", !.page = 1, !.count = 0, !.items = items]
               ELSE IF items = {} THEN Waiting ELSE [pc |-> "apply", items |-> items]

(* Mutated form of LastPage: asks again when it has them all. *)
MutLastPage(count, total) == count > total

LastPage(count, total) == count >= total

(* list_servers returns a page and the current total. *)
FetchPage ==
  /\ refresh.pc = "fetch"
  /\ LET page  == Page(refresh.list, refresh.page)
         count == refresh.count + Len(page)
         items == refresh.items \cup Range(page)
     IN \/ /\ LastPage(count, Len(catalog[refresh.list]))
           /\ EndOfList(items)
        \/ /\ ~LastPage(count, Len(catalog[refresh.list]))
           /\ refresh' = [refresh EXCEPT !.page = @ + 1, !.count = count, !.items = items]
  /\ UNCHANGED <<catalog, tracked, asked, history, edits, failures, pings>>

(* list_servers fails: the list ends with the pages it has. *)
FetchFails ==
  /\ refresh.pc = "fetch"
  /\ failures < MaxFailures
  /\ failures' = failures + 1
  /\ EndOfList(refresh.items)
  /\ disrupted' = TRUE
  /\ UNCHANGED <<catalog, tracked, asked, stayed, seen, edits, pings>>

(* Mutated form of Apply: only adds. *)
MutApply ==
  /\ refresh.pc = "apply"
  /\ tracked' = tracked \cup refresh.items
  /\ refresh' = Waiting
  /\ UNCHANGED <<catalog, asked, history, edits, failures, pings>>

(* Under the mutex: new servers are added, the others removed. *)
Apply ==
  /\ refresh.pc = "apply"
  /\ LET added   == refresh.items \ tracked
         removed == tracked \ refresh.items
     IN tracked' = (tracked \cup added) \ removed
  /\ refresh' = Waiting
  /\ UNCHANGED <<catalog, asked, history, edits, failures, pings>>

Refresh == StartRefresh \/ FetchPage \/ FetchFails \/ Apply

----------------------------------------------------------------------------
(* redis_force_ping_loop for a server that is not tracked. *)

(* fetch_server_by_id finds it, with the mutex released. *)
ForceFetch(k) ==
  /\ asked = {} /\ pings < MaxPings
  /\ k \in Listed(catalog) \ tracked
  /\ asked' = {k}
  /\ pings' = pings + 1
  /\ UNCHANGED <<catalog, tracked, refresh, history, edits, failures>>

ForceInsert ==
  /\ asked # {}
  /\ tracked' = tracked \cup asked
  /\ asked' = {}
  /\ UNCHANGED <<catalog, refresh, history, edits, failures, pings>>

----------------------------------------------------------------------------
(* server-service. *)

Edit == edits < MaxEdits /\ edits' = edits + 1

Insert(l, i, k) ==
  /\ Edit
  /\ k \notin Listed(catalog)
  /\ catalog' = [catalog EXCEPT ![l] = InsertAt(@, i, k)]
  /\ seen' = seen \cup {k}
  /\ UNCHANGED <<tracked, refresh, asked, stayed, disrupted, failures, pings>>

Delete(l, i) ==
  /\ Edit
  /\ catalog' = [catalog EXCEPT ![l] = RemoveAt(@, i)]
  /\ stayed' = stayed \ {catalog[l][i]}
  /\ disrupted' = TRUE
  /\ UNCHANGED <<tracked, refresh, asked, seen, failures, pings>>

Init ==
  /\ catalog \in { c \in [Lists -> Listings] : Range(c["main"]) \cap Range(c["sub"]) = {} }
  /\ tracked = {}
  /\ refresh = Waiting
  /\ asked = {}
  /\ stayed = {} /\ seen = {} /\ disrupted = FALSE
  /\ edits = 0 /\ failures = 0 /\ pings = 0

Next ==
  \/ Refresh
  \/ \E k \in Ids : ForceFetch(k)
  \/ ForceInsert
  \/ \E l \in Lists : \/ \E i \in 1..(Len(catalog[l]) + 1), k \in Ids : Insert(l, i, k)
                      \/ \E i \in 1..Len(catalog[l]) : Delete(l, i)

Spec == Init /\ [][Next]_vars

(* refresh_servers_loop and the force-ping loop keep running. *)
FairSpec == Spec /\ WF_vars(Refresh) /\ WF_vars(ForceInsert)

----------------------------------------------------------------------------
Applied == refresh.pc = "apply" /\ refresh'.pc = "wait"

(* The pages of a list are contiguous: every page before the one asked for *)
(* was full, however the catalog changed between the calls.  This is why   *)
(* the loop of fetch_page, which stops at `result.len() >= total`, ends as *)
(* soon as it runs past the end of the list.                               *)
PagesContiguous ==
  refresh.pc = "fetch" => refresh.count = (refresh.page - 1) * PageSize

(* "Update existing / New server / Remove servers no longer in catalog."   *)
(* (refresh_servers_once): a refresh leaves no server that was out of the  *)
(* catalog all the time, and one during which no page failed and nothing   *)
(* was deleted leaves every server that was in it all the time, whatever   *)
(* was inserted meanwhile and wherever.                                    *)
AppliedCatalog ==
  [][Applied => /\ tracked' \subseteq seen
                /\ ~disrupted => stayed \subseteq tracked']_vars

(* An outage of server-service never clears the map (the early return on   *)
(* an empty answer).                                                       *)
NeverCleared == [][tracked # {} => tracked' # {}]_vars

(* Once the catalog has settled, the poller tracks what is in it and       *)
(* nothing else, unless it has become empty: deleted servers go, those a   *)
(* failed page dropped come back, and every fetch ends.                    *)
Settles ==
  \A k \in Ids :
    <>[](Listed(catalog) # {} => (k \in tracked <=> k \in Listed(catalog)))

(* "Remove servers no longer in catalog." (sync.rs:202) *)
RemovedOnlyIfGone ==
  [][Applied => (tracked \ tracked') \cap stayed = {}]_vars
=============================================================================
