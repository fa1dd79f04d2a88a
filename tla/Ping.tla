------------------------------- MODULE Ping -------------------------------
(***************************************************************************)
(* One poll_server of src/src/ping.rs, after its country lookup (module    *)
(* GeoCache): the SRV and address lookups, the attempts over every address *)
(* and protocol version within one status timeout, and the status answer   *)
(* read byte by byte; or the single datagram of a Bedrock ping             *)
(* (src/src/bedrock.rs).                                                   *)
(*                                                                         *)
(* Time is counted in ticks: an operation that waits takes 0 to its        *)
(* timeout many, at the timeout it fails if it has not ended.              *)
(*                                                                         *)
(* Abstractions:                                                           *)
(*  - What a lookup returns is a number of addresses; a host is a name or  *)
(*    an address, a port is given or not.                                  *)
(*  - Of a varint only its length and whether the code accepts its value   *)
(*    are kept; of the body, in how many reads it arrives.                 *)
(*  - The requests fit the socket's buffer: writing them does not wait.    *)
(*  - A valid body is one serde_json accepts; what is made of it (version, *)
(*    motd, players) is left out.                                          *)
(***************************************************************************)
EXTENDS Naturals

CONSTANTS
  Timeout,       (* settings.collector.status_timeout_seconds, in ticks *)
  NVersions,     (* how many versions java_status_protocol_versions has *)
  MaxVarint,     (* bytes a varint may have: 5 in the code              *)
  MaxAddresses,  (* bound on the addresses of a name                    *)
  MaxBody        (* bound on the reads the body arrives in              *)

ASSUME PingAssumption ==
  /\ Timeout \in Nat \ {0} /\ NVersions \in Nat \ {0} /\ MaxVarint \in Nat \ {0}
  /\ MaxAddresses \in Nat /\ MaxBody \in Nat \ {0}

VARIABLES
  ping,     (* the poll under way                                            *)
  serves    (* the one pair of an address and a version, counted in the      *)
            (* order they are tried, that the server answers properly; or 0  *)

Target == [edition: {"java", "bedrock"}, name: BOOLEAN, port: BOOLEAN]

NoPing == [pc |-> "none"]
Up     == [pc |-> "up"]

Varint == {"length", "id", "size"}

(* elapsed: time since `started`; limit: the timeout of each operation of  *)
(* the attempt; tried: the attempts begun; bytes: read of the varint, or   *)
(* still missing of the body.                                              *)
Attempt == [addrs: 1..MaxAddresses, tried: 0..(MaxAddresses * NVersions), elapsed: Nat,
            limit: 0..Timeout]

PingTypeOK ==
  /\ serves \in 0..(MaxAddresses * NVersions)
  /\ \/ ping \in {NoPing, Up} \cup [pc: {"srv", "lookup", "bedrock", "unresolved", "silent"}]
     \/ /\ ping.pc \in {"connect", "down"} \cup Varint \cup {"body"}
        /\ [addrs |-> ping.addrs, tried |-> ping.tried, elapsed |-> ping.elapsed,
            limit |-> ping.limit] \in Attempt
        /\ ping.pc \in Varint => ping.bytes \in 0..MaxVarint
        /\ ping.pc = "body" => ping.bytes \in 0..MaxBody

Ended   == ping.pc \in {"up", "down", "unresolved", "silent"}

----------------------------------------------------------------------------
(* resolve_java_connect_target asks for an SRV record only if the port is  *)
(* left open and the host is a name.                                       *)
StartPing(t) ==
  /\ ping' = [pc |-> CASE t.edition = "bedrock"           -> "bedrock"
                       [] t.edition = "java" /\ ~t.port /\ t.name -> "srv"
                       [] OTHER                           -> "lookup"]
  /\ serves' \in 0..(MaxAddresses * NVersions)

(* The record found, none, an error, or the timeout: all go on. *)
ResolveSrv == ping.pc = "srv" /\ ping' = [pc |-> "lookup"]

(* A mutated form of NextAttempt: each attempt gets the whole timeout. *)
MutNextAttempt(addrs, tried, elapsed) ==
  IF tried < addrs * NVersions /\ elapsed <= Timeout
    THEN [pc |-> "connect", addrs |-> addrs, tried |-> tried + 1, elapsed |-> elapsed,
          limit |-> Timeout]
    ELSE [pc |-> "down", addrs |-> addrs, tried |-> tried, elapsed |-> elapsed, limit |-> 0]

(* The head of the loop of ping_java_status_blocking: the next protocol    *)
(* version or address, with the time that remains (none is left only when  *)
(* more than the timeout has passed).                                      *)
NextAttempt(addrs, tried, elapsed) ==
  IF tried < addrs * NVersions /\ elapsed <= Timeout
    THEN [pc |-> "connect", addrs |-> addrs, tried |-> tried + 1, elapsed |-> elapsed,
          limit |-> Timeout - elapsed]
    ELSE [pc |-> "down", addrs |-> addrs, tried |-> tried, elapsed |-> elapsed, limit |-> 0]

(* lookup_host fails, times out or finds nothing; or the attempts start. *)
LookupHost ==
  /\ ping.pc = "lookup"
  /\ \E addrs \in 0..MaxAddresses :
       ping' = IF addrs = 0 THEN [pc |-> "unresolved"] ELSE NextAttempt(addrs, 0, 0)

(* A mutated form of Fail: the first error ends the poll. *)
MutFail(d) ==
  ping' = [pc |-> "down", addrs |-> ping.addrs, tried |-> ping.tried,
           elapsed |-> ping.elapsed + d, limit |-> 0]

(* The attempt fails d ticks after its last step. *)
Fail(d) == ping' = NextAttempt(ping.addrs, ping.tried, ping.elapsed + d)

(* Where the server answers properly, only its slowness makes a step fail. *)
MayFail(d) == ping.tried # serves \/ d = ping.limit

(* The attempt goes on to read field f. *)
Read(d, f, bytes) ==
  ping' = [pc |-> f, addrs |-> ping.addrs, tried |-> ping.tried, limit |-> ping.limit,
           elapsed |-> ping.elapsed + d, bytes |-> bytes]

(* connect_timeout refuses a timeout of zero at once. *)
Connect ==
  /\ ping.pc = "connect"
  /\ \E d \in 0..ping.limit :
       (MayFail(d) /\ Fail(d)) \/ (ping.limit > 0 /\ Read(d, "length", 0))

(* The varint ended: the next field, if its value is accepted. *)
NextField(d) ==
  \/ ping.pc = "length" /\ Read(d, "id", 0)
  \/ ping.pc = "id" /\ Read(d, "size", 0)
  \/ ping.pc = "size" /\ \E n \in 0..MaxBody : Read(d, "body", n)

(* A mutated form of ReadVarint: a varint may have any length. *)
MutReadVarint ==
  /\ ping.pc \in Varint
  /\ \E d \in 0..ping.limit :
       \/ MayFail(d) /\ Fail(d)
       \/ Read(d, ping.pc, ping.bytes + 1)
       \/ NextField(d)

(* One more byte of a varint.  After MaxVarint bytes that all announced    *)
(* another one, read_varint reads that too before it gives up.             *)
ReadVarint ==
  /\ ping.pc \in Varint
  /\ \E d \in 0..ping.limit :
       \/ MayFail(d) /\ Fail(d)   \* closed, silent, too long, or a value not accepted
       \/ ping.bytes < MaxVarint /\ (Read(d, ping.pc, ping.bytes + 1) \/ NextField(d))

(* read_exact: every read of the socket has the timeout anew. *)
ReadBody ==
  /\ ping.pc = "body" /\ ping.bytes > 0
  /\ \E d \in 0..ping.limit :
       (MayFail(d) /\ Fail(d)) \/ (\E n \in 0..(ping.bytes - 1) : Read(d, "body", n))

Decode ==
  /\ ping.pc = "body" /\ ping.bytes = 0
  /\ IF ping.tried = serves THEN ping' = Up ELSE Fail(0)

(* ping_bedrock: one datagram out, one in, one timeout over both.  A       *)
(* datagram that is lost, late or malformed ends it without another try.   *)
PingBedrock ==
  /\ ping.pc = "bedrock"
  /\ ping' \in {Up, [pc |-> "silent"]}

PingStep ==
  /\ ResolveSrv \/ LookupHost \/ Connect \/ ReadVarint \/ ReadBody \/ Decode \/ PingBedrock
  /\ UNCHANGED serves

----------------------------------------------------------------------------
(* A Java server that answers one of the protocol versions at one of its   *)
(* addresses is reported down only if the status timeout was used up,      *)
(* however the attempts before it failed.  (One silent address or version  *)
(* can use it up alone: an attempt may take all the time that remains.)    *)
NoFalseDown ==
  ping.pc = "down" =>
    serves \notin 1..(ping.addrs * NVersions) \/ ping.elapsed >= Timeout

(* The status timeout is not the time a poll may take, since every read    *)
(* gets it anew, but the poll ends whatever the server sends: no later     *)
(* than as many timeouts as one status answer, its varints no longer than  *)
(* they may be, can be spread over reads.  Attempts that failed do not add *)
(* to it.                                                                  *)
BoundedPoll ==
  ping.pc \in {"connect", "down", "body"} \cup Varint =>
    ping.elapsed <= Timeout * (1 + 3 * MaxVarint + MaxBody)
=============================================================================
