---------------------------- MODULE MCDiscovery ----------------------------
(* A small instance of Discovery, and with it of Ping, for TLC. *)
EXTENDS Discovery

(* A name without a port, which may have an SRV record, an address, and a  *)
(* Bedrock server.                                                         *)
ThreeTargets == { [edition |-> "java", name |-> TRUE, port |-> FALSE],
                  [edition |-> "java", name |-> FALSE, port |-> TRUE],
                  [edition |-> "bedrock", name |-> TRUE, port |-> FALSE] }
=============================================================================
