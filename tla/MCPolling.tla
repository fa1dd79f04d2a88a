----------------------------- MODULE MCPolling -----------------------------
(* Small instances of Polling for TLC. *)
EXTENDS Polling, TLC

(* A plain server, a plugin-managed one in and out of fallback mode, and a *)
(* plugin-managed one behind an internal-only host.                        *)
Plain    == [managed |-> FALSE, fallback |-> FALSE, internal |-> FALSE]
Managed  == [managed |-> TRUE,  fallback |-> FALSE, internal |-> FALSE]
Fallback == [managed |-> TRUE,  fallback |-> TRUE,  internal |-> FALSE]
Internal == [managed |-> TRUE,  fallback |-> FALSE, internal |-> TRUE]

FallbackAndInternal == {Fallback, Internal}
PlainAndInternal    == {Plain, Internal}
ManagedAndFallback  == {Managed, Fallback}

(* Servers, workers and due times are interchangeable in the safety runs. *)
Symmetry == Permutations(Servers) \cup Permutations(Workers) \cup Permutations(Stamps)
=============================================================================
