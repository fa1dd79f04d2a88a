----------------------------- MODULE MCGeoCache -----------------------------
(* An instance of GeoCache: one host polled as Java and as Bedrock, both   *)
(* without a port, by two workers.                                         *)
EXTENDS GeoCache

TwoEditions == { [host |-> "h", port |-> "none", edition |-> e] : e \in {"java", "bedrock"} }
=============================================================================
