--------------------------- MODULE DiscoveryProofs ---------------------------
(***************************************************************************)
(* NoFalseDown and BoundedPoll of module Ping, for every poll of the       *)
(* discovery loop: any timeout, any number of addresses, versions and      *)
(* reads, any requests and faults.  Then the types, and NeverOlder of      *)
(* module Discovery.                                                       *)
(***************************************************************************)
EXTENDS Discovery, SequenceTheorems, TLAPS

Attempting == {"connect", "body"} \cup Varint

(* How many reads the attempt p has made at most. *)
Reads(p) ==
  CASE p.pc = "connect" -> 0
    [] p.pc = "length"  -> p.bytes
    [] p.pc = "id"      -> MaxVarint + p.bytes
    [] p.pc = "size"    -> 2 * MaxVarint + p.bytes
    [] p.pc = "body"    -> 3 * MaxVarint + MaxBody - p.bytes

AllReads == 3 * MaxVarint + MaxBody

(* An attempt got the time that was left when it began, so what it has     *)
(* spent and may still wait for at once add up to the timeout; attempts    *)
(* before it cannot have failed with the server answering and time left;   *)
(* and each of its reads has cost at most one timeout.                     *)
AttemptInv ==
  ping.pc \in Attempting =>
    /\ ping.tried \in 1..(ping.addrs * NVersions)
    /\ ping.limit <= Timeout
    /\ ping.elapsed + ping.limit >= Timeout
    /\ serves \in 1..(ping.tried - 1) => ping.elapsed >= Timeout
    /\ ping.elapsed <= Timeout * (1 + Reads(ping))
    /\ ping.pc = "connect" => ping.elapsed + ping.limit = Timeout

PingInv == PingTypeOK /\ AttemptInv /\ NoFalseDown /\ BoundedPoll

----------------------------------------------------------------------------
(* Multiplication, which the provers need help with. *)
LEMMA TimesMonotone ==
  ASSUME NEW n \in Nat, NEW a \in Nat, NEW b \in Nat, a <= b
  PROVE  n * a \in Nat /\ n * a <= n * b /\ a * n <= b * n /\ a * n \in Nat
  BY Z3

LEMMA TimesSuccessor ==
  ASSUME NEW n \in Nat, NEW a \in Nat
  PROVE  n * (a + 1) = n * a + n
  BY Z3

(* The next attempt, or the end of the poll. *)
LEMMA NextAttemptKeeps ==
  ASSUME NEW addrs \in 1..MaxAddresses, NEW tried \in 0..(addrs * NVersions),
         NEW elapsed \in Nat, elapsed <= Timeout * (1 + AllReads),
         serves \in 0..(MaxAddresses * NVersions), serves' = serves,
         serves \in 1..tried => elapsed >= Timeout,
         ping' = NextAttempt(addrs, tried, elapsed)
  PROVE  PingInv'
<1> USE PingAssumption
<1> DEFINE most == addrs * NVersions
<1>1. most \in Nat /\ most <= MaxAddresses * NVersions /\ MaxAddresses * NVersions \in Nat
  BY TimesMonotone
<1>2. CASE tried < most /\ elapsed <= Timeout
  <2>1. ping' = [pc |-> "connect", addrs |-> addrs, tried |-> tried + 1, elapsed |-> elapsed,
                 limit |-> Timeout - elapsed]
    BY <1>2 DEF NextAttempt
  <2>2. Reads(ping') = 0
    BY <2>1 DEF Reads
  <2>3. PingTypeOK'
    BY <1>1, <1>2, <2>1 DEF PingTypeOK, Attempt, Varint
  <2>4. AttemptInv'
    BY <1>1, <1>2, <2>1, <2>2 DEF AttemptInv
  <2>5. elapsed <= Timeout * (1 + 3 * MaxVarint + MaxBody)
    BY DEF AllReads
  <2>6. NoFalseDown' /\ BoundedPoll'
    BY <2>1, <2>5 DEF NoFalseDown, BoundedPoll
  <2> QED BY <2>3, <2>4, <2>6 DEF PingInv
<1>3. CASE ~(tried < most /\ elapsed <= Timeout)
  <2>1. ping' = [pc |-> "down", addrs |-> addrs, tried |-> tried, elapsed |-> elapsed, limit |-> 0]
    BY <1>3 DEF NextAttempt
  <2>2. PingTypeOK'
    BY <1>1, <2>1 DEF PingTypeOK, Attempt, Varint
  <2>3. AttemptInv'
    BY <2>1 DEF AttemptInv, Attempting, Varint
  <2>4. NoFalseDown'
    <3>1. tried = most \/ elapsed > Timeout
      BY <1>1, <1>3
    <3> QED BY <1>1, <2>1, <3>1 DEF NoFalseDown
  <2>5. BoundedPoll'
    BY <2>1 DEF BoundedPoll, AllReads
  <2> QED BY <2>2, <2>3, <2>4, <2>5 DEF PingInv
<1> QED BY <1>2, <1>3

(* What the type says of an attempt under way. *)
LEMMA AttemptTypes ==
  ASSUME PingTypeOK, ping.pc \in Attempting
  PROVE  /\ ping.addrs \in 1..MaxAddresses /\ ping.tried \in 0..(MaxAddresses * NVersions)
         /\ ping.elapsed \in Nat /\ ping.limit \in 0..Timeout
         /\ serves \in 0..(MaxAddresses * NVersions)
  BY DEF PingTypeOK, Attempting, Attempt, Varint, NoPing, Up

(* The attempt reads on: what it has spent is one timeout more at most. *)
LEMMA ReadKeeps ==
  ASSUME PingInv, ping.pc \in Attempting, serves' = serves,
         NEW d \in 0..ping.limit, NEW f \in Varint \cup {"body"}, NEW bytes \in Nat,
         f \in Varint => bytes <= MaxVarint, f = "body" => bytes <= MaxBody,
         Read(d, f, bytes),
         NEW reads \in Nat, reads = Reads(ping), Reads(ping') \in Nat, reads < Reads(ping'),
         Reads(ping') <= AllReads
  PROVE  PingInv'
<1> USE PingAssumption
<1>1. /\ ping.addrs \in 1..MaxAddresses /\ ping.tried \in 0..(MaxAddresses * NVersions)
      /\ ping.elapsed \in Nat /\ ping.limit \in 0..Timeout
      /\ serves \in 0..(MaxAddresses * NVersions)
  BY AttemptTypes DEF PingInv
<1>2. ping' = [pc |-> f, addrs |-> ping.addrs, tried |-> ping.tried, limit |-> ping.limit,
               elapsed |-> ping.elapsed + d, bytes |-> bytes]
  BY DEF Read
<1>3. /\ ping.tried \in 1..(ping.addrs * NVersions)
      /\ ping.elapsed + ping.limit >= Timeout
      /\ serves \in 1..(ping.tried - 1) => ping.elapsed >= Timeout
      /\ ping.elapsed <= Timeout * (1 + reads)
  BY DEF PingInv, AttemptInv
<1>4. PingTypeOK'
  BY <1>1, <1>2 DEF PingTypeOK, Attempt, Varint
<1>5. ping.elapsed + d <= Timeout * (1 + Reads(ping'))
  <2> DEFINE later == Reads(ping')
  <2>1. later \in Nat /\ reads + 1 <= later
    OBVIOUS
  <2> HIDE DEF later
  <2>2. Timeout * ((1 + reads) + 1) = Timeout * (1 + reads) + Timeout
    BY TimesSuccessor
  <2>3. Timeout * ((1 + reads) + 1) <= Timeout * (1 + later) /\ Timeout * (1 + reads) \in Nat
    BY <2>1, TimesMonotone
  <2>4. Timeout * ((1 + reads) + 1) \in Nat /\ Timeout * (1 + later) \in Nat
    BY <2>1, TimesMonotone
  <2>5. ping.elapsed + d <= Timeout * (1 + later)
    BY <1>1, <1>3, <2>2, <2>3, <2>4
  <2> QED BY <2>5 DEF later
<1>6. AttemptInv'
  BY <1>1, <1>2, <1>3, <1>5 DEF AttemptInv, Varint
<1>7. NoFalseDown'
  BY <1>2 DEF NoFalseDown, Varint
<1>8. BoundedPoll'
  <2> DEFINE later == Reads(ping')
  <2>1. later \in Nat /\ later <= AllReads /\ AllReads \in Nat
    BY DEF AllReads
  <2> HIDE DEF later
  <2>2. Timeout * (1 + later) <= Timeout * (1 + AllReads)
    BY <2>1, TimesMonotone
  <2>3. Timeout * (1 + later) \in Nat /\ Timeout * (1 + AllReads) \in Nat
    BY <2>1, TimesMonotone
  <2>4. ping.elapsed + d <= Timeout * (1 + later)
    BY <1>5 DEF later
  <2>5. ping.elapsed + d <= Timeout * (1 + AllReads)
    BY <1>1, <2>2, <2>3, <2>4
  <2> QED BY <1>2, <2>5 DEF BoundedPoll, AllReads
<1> QED BY <1>4, <1>6, <1>7, <1>8 DEF PingInv

(* The attempt fails, with at least one more read to come; or in the last  *)
(* step, which takes no time.                                              *)
LEMMA FailKeeps ==
  ASSUME PingInv, ping.pc \in Attempting, serves' = serves,
         NEW d \in 0..ping.limit, Fail(d),
         ping.tried = serves => ping.elapsed + d >= Timeout,
         NEW reads \in Nat, reads = Reads(ping),
         \/ reads < AllReads
         \/ reads = AllReads /\ d = 0
  PROVE  PingInv'
<1> USE PingAssumption
<1>1. /\ ping.addrs \in 1..MaxAddresses /\ ping.tried \in 0..(MaxAddresses * NVersions)
      /\ ping.elapsed \in Nat /\ ping.limit \in 0..Timeout
      /\ serves \in 0..(MaxAddresses * NVersions)
  BY AttemptTypes DEF PingInv
<1>2. /\ ping.tried \in 1..(ping.addrs * NVersions)
      /\ serves \in 1..(ping.tried - 1) => ping.elapsed >= Timeout
      /\ ping.elapsed <= Timeout * (1 + reads)
  BY DEF PingInv, AttemptInv
<1>3. AllReads \in Nat
  BY DEF AllReads
<1>4. ping.elapsed + d <= Timeout * (1 + AllReads)
  <2>1. Timeout * ((1 + reads) + 1) = Timeout * (1 + reads) + Timeout
    BY TimesSuccessor
  <2>2. Timeout * (1 + reads) \in Nat /\ Timeout * ((1 + reads) + 1) \in Nat /\ Timeout * (1 + AllReads) \in Nat
    BY <1>3, TimesMonotone
  <2>3. CASE reads < AllReads
    <3>1. Timeout * ((1 + reads) + 1) <= Timeout * (1 + AllReads)
      BY <1>3, <2>3, TimesMonotone
    <3> QED BY <1>1, <1>2, <2>1, <2>2, <3>1
  <2>4. CASE reads = AllReads /\ d = 0
    BY <1>1, <1>2, <2>4
  <2> QED BY <2>3, <2>4
<1>5. serves \in 1..ping.tried => ping.elapsed + d >= Timeout
  BY <1>1, <1>2
<1> QED BY <1>1, <1>2, <1>4, <1>5, NextAttemptKeeps DEF Fail

----------------------------------------------------------------------------
(* The steps of a poll. *)

(* How many reads an attempt has made, from where it is. *)
LEMMA ReadsOf ==
  ASSUME PingTypeOK, ping.pc \in Attempting
  PROVE  /\ Reads(ping) \in Nat /\ Reads(ping) <= AllReads
         /\ ping.pc = "connect" => Reads(ping) = 0
         /\ ping.pc = "length" => Reads(ping) = ping.bytes /\ ping.bytes <= MaxVarint
         /\ ping.pc = "id" => Reads(ping) = MaxVarint + ping.bytes /\ ping.bytes <= MaxVarint
         /\ ping.pc = "size" => Reads(ping) = 2 * MaxVarint + ping.bytes /\ ping.bytes <= MaxVarint
         /\ ping.pc = "body" => Reads(ping) = AllReads - ping.bytes /\ ping.bytes <= MaxBody
  BY PingAssumption DEF Reads, AllReads, PingTypeOK, Attempting, Varint, NoPing, Up

(* Connecting takes at most what the attempt was given, and all of that if *)
(* it is the attempt the server answers and it fails.                      *)
LEMMA ConnectKeeps ==
  ASSUME PingInv, Connect, serves' = serves
  PROVE  PingInv'
<1> USE PingAssumption
<1>1. PICK d \in 0..ping.limit :
        (MayFail(d) /\ Fail(d)) \/ (ping.limit > 0 /\ Read(d, "length", 0))
  BY DEF Connect
<1>2. ping.pc = "connect" /\ ping.pc \in Attempting /\ ping.elapsed + ping.limit = Timeout
  BY DEF Connect, Attempting, PingInv, AttemptInv
<1>3. /\ ping.addrs \in 1..MaxAddresses /\ ping.tried \in 0..(MaxAddresses * NVersions)
      /\ ping.elapsed \in Nat /\ ping.limit \in 0..Timeout
      /\ serves \in 0..(MaxAddresses * NVersions)
  BY <1>2, AttemptTypes DEF PingInv
<1>4. Reads(ping) = 0 /\ AllReads \in Nat /\ AllReads > 0
  BY <1>2, ReadsOf DEF AllReads, PingInv
<1>5. CASE MayFail(d) /\ Fail(d)
  <2>1. ping.tried = serves => ping.elapsed + d >= Timeout
    BY <1>2, <1>3, <1>5 DEF MayFail
  <2> QED BY <1>2, <1>4, <1>5, <2>1, FailKeeps
<1>6. CASE Read(d, "length", 0)
  (* The first byte is waited for with the connection made: no read yet. *)
  <2>1. ping' = [pc |-> "length", addrs |-> ping.addrs, tried |-> ping.tried,
                 limit |-> ping.limit, elapsed |-> ping.elapsed + d, bytes |-> 0]
    BY <1>6 DEF Read
  <2>2. Reads(ping') = 0
    BY <2>1 DEF Reads
  <2>3. PingTypeOK'
    BY <1>3, <2>1 DEF PingTypeOK, Attempt, Varint
  <2>4. AttemptInv'
    BY <1>2, <1>3, <2>1, <2>2 DEF PingInv, AttemptInv
  <2>5. NoFalseDown'
    BY <2>1 DEF NoFalseDown
  <2>6. BoundedPoll'
    <3>1. Timeout * 1 <= Timeout * (1 + AllReads) /\ Timeout * (1 + AllReads) \in Nat
      BY <1>4, TimesMonotone
    <3>2. ping.elapsed + d <= Timeout * (1 + AllReads)
      BY <1>2, <1>3, <3>1
    <3> QED BY <2>1, <3>2 DEF BoundedPoll, AllReads
  <2> QED BY <2>3, <2>4, <2>5, <2>6 DEF PingInv
<1> QED BY <1>1, <1>5, <1>6

(* The failures of a step that waits for bytes *)
LEMMA MayFailKeeps ==
  ASSUME PingInv, ping.pc \in Attempting, serves' = serves, Reads(ping) < AllReads,
         NEW d \in 0..ping.limit, MayFail(d), Fail(d)
  PROVE  PingInv'
<1>1. ping.tried = serves => ping.elapsed + d >= Timeout
  BY AttemptTypes DEF MayFail, PingInv, AttemptInv
<1>2. Reads(ping) \in Nat
  BY ReadsOf DEF PingInv
<1> QED BY <1>1, <1>2, FailKeeps

(* Every byte of a varint may take the whole limit of the attempt again.   *)
LEMMA ReadVarintKeeps ==
  ASSUME PingInv, ReadVarint, serves' = serves
  PROVE  PingInv'
<1> USE PingAssumption
<1>1. PICK d \in 0..ping.limit :
        \/ MayFail(d) /\ Fail(d)
        \/ ping.bytes < MaxVarint /\ (Read(d, ping.pc, ping.bytes + 1) \/ NextField(d))
  BY DEF ReadVarint
<1>2. ping.pc \in Varint /\ ping.pc \in Attempting
  BY DEF ReadVarint, Attempting
<1>3. ping.bytes \in 0..MaxVarint
  BY <1>2, ReadsOf DEF PingInv, PingTypeOK, Varint, NoPing, Up
<1>4. Reads(ping) \in Nat /\ Reads(ping) < AllReads
  BY <1>2, <1>3, ReadsOf DEF PingInv, AllReads, Varint
<1>5. CASE MayFail(d) /\ Fail(d)
  BY <1>2, <1>4, <1>5, MayFailKeeps
<1>6. CASE ping.bytes < MaxVarint /\ Read(d, ping.pc, ping.bytes + 1)
  <2>1. ping'.pc = ping.pc /\ ping'.bytes = ping.bytes + 1
    BY <1>6 DEF Read
  <2>2. Reads(ping') = Reads(ping) + 1
    BY <1>2, <1>3, <2>1 DEF Reads, Varint
  <2>3. ping.bytes + 1 \in 0..MaxVarint /\ ping.pc # "body"
    BY <1>2, <1>3, <1>6 DEF Varint
  <2>4. Reads(ping') \in Nat /\ Reads(ping) < Reads(ping') /\ Reads(ping') <= AllReads
    BY <1>4, <2>2 DEF AllReads
  <2> QED BY <1>2, <1>4, <1>6, <2>3, <2>4, ReadKeeps
<1>7. CASE ping.bytes < MaxVarint /\ NextField(d)
  <2>1. CASE ping.pc = "length" /\ Read(d, "id", 0)
    <3>1. Reads(ping') = MaxVarint /\ Reads(ping) = ping.bytes
      BY <1>2, <2>1, ReadsOf DEF Read, Reads, PingInv
    <3> QED BY <1>2, <1>3, <1>4, <1>7, <2>1, <3>1, ReadKeeps DEF Varint, AllReads
  <2>2. CASE ping.pc = "id" /\ Read(d, "size", 0)
    <3>1. Reads(ping') = 2 * MaxVarint /\ Reads(ping) = MaxVarint + ping.bytes
      BY <1>2, <2>2, ReadsOf DEF Read, Reads, PingInv
    <3> QED BY <1>2, <1>3, <1>4, <1>7, <2>2, <3>1, ReadKeeps DEF Varint, AllReads
  <2>3. CASE ping.pc = "size" /\ \E n \in 0..MaxBody : Read(d, "body", n)
    <3>1. PICK n \in 0..MaxBody : Read(d, "body", n)
      BY <2>3
    <3>2. Reads(ping') = 3 * MaxVarint + MaxBody - n /\ Reads(ping) = 2 * MaxVarint + ping.bytes
      BY <1>2, <2>3, <3>1, ReadsOf DEF Read, Reads, PingInv
    <3> QED BY <1>2, <1>3, <1>4, <1>7, <3>1, <3>2, ReadKeeps DEF Varint, AllReads
  <2> QED BY <1>7, <2>1, <2>2, <2>3 DEF NextField
<1> QED BY <1>1, <1>5, <1>6, <1>7

(* So may every read of the body.                                          *)
LEMMA ReadBodyKeeps ==
  ASSUME PingInv, ReadBody, serves' = serves
  PROVE  PingInv'
<1> USE PingAssumption
<1>1. PICK d \in 0..ping.limit :
        (MayFail(d) /\ Fail(d)) \/ (\E n \in 0..(ping.bytes - 1) : Read(d, "body", n))
  BY DEF ReadBody
<1>2. ping.pc = "body" /\ ping.pc \in Attempting /\ ping.bytes > 0
  BY DEF ReadBody, Attempting
<1>3. ping.bytes \in 0..MaxBody
  BY <1>2 DEF PingInv, PingTypeOK, Varint, NoPing, Up
<1>4. Reads(ping) \in Nat /\ Reads(ping) = AllReads - ping.bytes /\ AllReads \in Nat
  BY <1>2, ReadsOf DEF PingInv, AllReads
<1>5. CASE MayFail(d) /\ Fail(d)
  BY <1>2, <1>3, <1>4, <1>5, MayFailKeeps
<1>6. CASE \E n \in 0..(ping.bytes - 1) : Read(d, "body", n)
  <2>1. PICK n \in 0..(ping.bytes - 1) : Read(d, "body", n)
    BY <1>6
  <2>2. Reads(ping') = AllReads - n
    BY <1>2, <2>1 DEF Read, Reads, AllReads
  <2> QED BY <1>2, <1>3, <1>4, <2>1, <2>2, ReadKeeps DEF Varint
<1> QED BY <1>1, <1>5, <1>6

(* What the body says costs no time: the poll ends, or the attempt fails.  *)
LEMMA DecodeKeeps ==
  ASSUME PingInv, Decode, serves' = serves
  PROVE  PingInv'
<1> USE PingAssumption
<1>1. ping.pc = "body" /\ ping.pc \in Attempting /\ ping.bytes = 0
  BY DEF Decode, Attempting
<1>2. Reads(ping) = AllReads /\ AllReads \in Nat
  BY <1>1, ReadsOf DEF PingInv, AllReads
<1>3. /\ ping.elapsed \in Nat /\ ping.limit \in 0..Timeout
      /\ serves \in 0..(MaxAddresses * NVersions)
  BY <1>1, AttemptTypes DEF PingInv
<1>4. CASE ping.tried = serves
  <2>1. ping' = Up
    BY <1>4 DEF Decode
  <2> QED BY <1>3, <2>1 DEF PingInv, PingTypeOK, AttemptInv, NoFalseDown, BoundedPoll, Up,
                            Attempting, Varint
<1>5. CASE ping.tried # serves
  <2>1. Fail(0)
    BY <1>5 DEF Decode
  <2> QED BY <1>1, <1>2, <1>3, <1>5, <2>1, FailKeeps
<1> QED BY <1>4, <1>5

(* The steps outside of an attempt, and its beginning. *)
LEMMA PingStepKeeps ==
  ASSUME PingInv, PingStep
  PROVE  PingInv'
<1> USE PingAssumption
<1>1. serves' = serves /\ serves \in 0..(MaxAddresses * NVersions)
  BY DEF PingStep, PingInv, PingTypeOK
<1>2. CASE ResolveSrv
  BY <1>1, <1>2 DEF ResolveSrv, PingInv, PingTypeOK, AttemptInv, NoFalseDown, BoundedPoll,
                    Attempting, Varint
<1>3. CASE LookupHost
  <2>1. PICK addrs \in 0..MaxAddresses :
          ping' = IF addrs = 0 THEN [pc |-> "unresolved"] ELSE NextAttempt(addrs, 0, 0)
    BY <1>3 DEF LookupHost
  <2>2. CASE addrs = 0
    <3>1. ping' = [pc |-> "unresolved"]
      BY <2>1, <2>2
    <3> QED BY <1>1, <3>1 DEF PingInv, PingTypeOK, AttemptInv, NoFalseDown, BoundedPoll,
                              Attempting, Varint
  <2>3. CASE addrs # 0
    <3>1. addrs * NVersions \in Nat
      BY TimesMonotone
    <3>2. AllReads \in Nat
      BY DEF AllReads
    <3>3. Timeout * (1 + AllReads) \in Nat
      BY <3>2, TimesMonotone
    <3>4. ping' = NextAttempt(addrs, 0, 0)
      BY <2>1, <2>3
    <3> QED BY <1>1, <2>3, <3>1, <3>3, <3>4, NextAttemptKeeps
  <2> QED BY <2>2, <2>3
<1>4. CASE PingBedrock
  BY <1>1, <1>4 DEF PingBedrock, PingInv, PingTypeOK, AttemptInv, NoFalseDown, BoundedPoll,
                    Attempting, Varint, Up
<1> QED BY <1>1, <1>2, <1>3, <1>4, ConnectKeeps, ReadVarintKeeps, ReadBodyKeeps, DecodeKeeps
        DEF PingStep

----------------------------------------------------------------------------
(* The loop begins a poll and ends it, and otherwise leaves it alone. *)
LEMMA NextKeeps ==
  ASSUME PingInv, [Next]_vars
  PROVE  PingInv'
<1> USE PingAssumption
<1>1. CASE UNCHANGED <<ping, serves>>
  BY <1>1 DEF PingInv, PingTypeOK, AttemptInv, NoFalseDown, BoundedPoll, Reads
<1>2. CASE Probe
  BY <1>2, PingStepKeeps DEF Probe
<1>3. CASE Done
  BY <1>3 DEF Done, NoPing, PingInv, PingTypeOK, AttemptInv, NoFalseDown, BoundedPoll,
              Attempting, Varint
<1>4. ASSUME NEW t, StartPing(t)
      PROVE  PingInv'
  <2>1. ping' \in [pc: {"bedrock", "srv", "lookup"}]
    BY <1>4 DEF StartPing
  <2>2. serves' \in 0..(MaxAddresses * NVersions)
    BY <1>4 DEF StartPing
  <2> QED BY <2>1, <2>2 DEF PingInv, PingTypeOK, AttemptInv, NoFalseDown, BoundedPoll,
                            Attempting, Varint
<1>5. CASE \E c \in Candidates : Expire(c) \/ \E t \in Targets \cup {Malformed} : Push(c, t)
  BY <1>1, <1>5 DEF Expire, Push
<1>6. CASE Pop
  BY <1>1, <1>4, <1>6 DEF Pop
<1>7. CASE Reply \/ ReplyFails \/ Restart
  BY <1>3, <1>7 DEF Reply, ReplyFails, Restart
<1>8. CASE PopFails
  BY <1>1, <1>8 DEF PopFails
<1> QED BY <1>1, <1>2, <1>5, <1>6, <1>7, <1>8 DEF Next, Loop, vars

(* Nothing is being polled when the loop starts.                           *)
LEMMA InitPing == Init => PingInv
  BY PingAssumption, TimesMonotone
  DEF Init, PingInv, PingTypeOK, AttemptInv, NoFalseDown, BoundedPoll, NoPing, Attempting, Varint

(* PingInv is inductive, whatever the loop's connection and queue do. *)
LEMMA PingInvHolds == Spec => []PingInv
<1>1. Init => PingInv
  BY InitPing
<1>2. PingInv /\ [Next]_vars => PingInv'
  BY NextKeeps
<1> QED BY <1>1, <1>2, PTL DEF Spec

(* A Java server that answers one of the versions at one of its addresses  *)
(* is reported down by ping_java_status_blocking only if the status        *)
(* timeout was used up.                                                    *)
THEOREM NoFalseDownHolds == Spec => []NoFalseDown
<1>1. PingInv => NoFalseDown
  BY DEF PingInv
<1> QED BY <1>1, PingInvHolds, PTL

(* A poll takes no longer than as many timeouts as one status answer can   *)
(* be spread over reads, whatever the attempts before it met.              *)
THEOREM BoundedPollHolds == Spec => []BoundedPoll
<1>1. PingInv => BoundedPoll
  BY DEF PingInv
<1> QED BY <1>1, PingInvHolds, PTL

----------------------------------------------------------------------------
(* Type correctness of the loop around the poll, and the order of results. *)

(* The requests are numbered as they arrive, and handled in that order:    *)
(* the one under way comes before those that wait, and each result before  *)
(* both.                                                                   *)
Ordered ==
  /\ \A i, j \in 1..Len(queue) : i < j => queue[i].n < queue[j].n
  /\ \A i \in 1..Len(queue) : queue[i].n <= sent
  /\ current # None => /\ current.n <= sent
                       /\ \A i \in 1..Len(queue) : current.n < queue[i].n
  /\ \A c \in Candidates : results[c] # None =>
       /\ results[c].n <= sent
       /\ \A i \in 1..Len(queue) : results[c].n < queue[i].n
       /\ current # None => results[c].n < current.n

Result == [n: 1..MaxRequests, ok: BOOLEAN]

(* A request and a result have a number, None has none.                    *)
LEMMA NotNone ==
  /\ \A r \in Request : r # None /\ r.n \in 1..MaxRequests /\ r.candidate \in Candidates
  /\ \A r \in Result : r # None /\ r.n \in 1..MaxRequests
BY DEF Request, Result, None

(* What BLPOP takes and what it leaves. *)
LEMMA RestIs ==
  ASSUME TypeOK, queue # <<>>
  PROVE  /\ Len(queue) \in Nat \ {0} /\ Popped = queue[1] /\ Popped \in Request
         /\ Rest \in Seq(Request) /\ Len(Rest) = Len(queue) - 1
         /\ \A i \in 1..Len(Rest) : Rest[i] = queue[i + 1] /\ i + 1 \in 1..Len(queue)
<1>1. queue \in Seq(Request) /\ Len(queue) \in Nat \ {0}
  BY DEF TypeOK
<1>2. /\ SubSeq(queue, 1, 0) = <<>> /\ SubSeq(queue, 2, Len(queue)) \in Seq(Request)
      /\ Len(SubSeq(queue, 2, Len(queue))) = Len(queue) - 1
      /\ \A i \in 1..(Len(queue) - 1) : SubSeq(queue, 2, Len(queue))[i] = queue[i + 1]
  <2>1. PICK n : n = Len(queue)
    OBVIOUS
  <2>2. n \in Nat \ {0} /\ queue \in [1..n -> Request]
    BY <1>1, <2>1
  <2>3. SubSeq(queue, 1, 0) = <<>>
    BY SubSeqEmpty
  <2>4. /\ SubSeq(queue, 2, n) \in Seq(Request) /\ Len(SubSeq(queue, 2, n)) = n - 1
        /\ \A i \in 1..(n - 1) : SubSeq(queue, 2, n)[i] = queue[i + 1]
    <3>1. \A i \in 2..n : queue[i] \in Request
      BY <2>2
    <3> QED  BY <2>2, <3>1, SubSeqProperties
  <2> QED  BY <2>1, <2>3, <2>4
<1>3. Rest = SubSeq(queue, 2, Len(queue))
  BY <1>1, <1>2 DEF Rest, Oldest, RemoveAt
<1> QED  BY <1>1, <1>2, <1>3 DEF Popped, Oldest

(* A new request gets a number above all others and goes to the end.       *)
LEMMA PushKeeps ==
  ASSUME TypeOK, Ordered, NEW c \in Candidates, NEW t \in Targets \cup {Malformed}, Push(c, t)
  PROVE  TypeOK' /\ Ordered'
<1> USE DiscoveryAssumption
<1> DEFINE r == [n |-> sent + 1, candidate |-> c, target |-> t]
<1>1. /\ sent \in Nat /\ sent' = sent + 1 /\ sent' \in 0..MaxRequests /\ r \in Request
      /\ queue' = Append(queue, r)
  BY DEF Push, TypeOK, Request
<1>2. /\ ping' = ping /\ serves' = serves /\ current' = current /\ conn' = conn
      /\ results' = results /\ settled' = settled /\ lost' = lost /\ faults' = faults
  BY DEF Push
<1>3. r.n = sent + 1
  OBVIOUS
<1> HIDE DEF r
<1>4. /\ queue' \in Seq(Request) /\ Len(queue) \in Nat /\ Len(queue') = Len(queue) + 1
      /\ \A i \in 1..Len(queue) : queue'[i] = queue[i] /\ queue[i] \in Request
      /\ queue'[Len(queue) + 1] = r
  BY <1>1 DEF TypeOK
<1>5. TypeOK'
  BY <1>1, <1>2, <1>4 DEF TypeOK, PingTypeOK
<1>6. \A i \in 1..Len(queue) : queue[i].n \in Nat /\ queue[i].n < r.n
  BY <1>1, <1>3, <1>4, NotNone DEF Ordered
<1>7. /\ \A i, j \in 1..Len(queue') : i < j => queue'[i].n < queue'[j].n
      /\ \A i \in 1..Len(queue') : queue'[i].n <= sent'
  <2>1. ASSUME NEW i \in 1..Len(queue'), NEW j \in 1..Len(queue'), i < j
        PROVE  queue'[i].n < queue'[j].n
    <3>1. i \in 1..Len(queue)
      BY <1>4, <2>1
    <3>2. CASE j \in 1..Len(queue)
      BY <1>4, <2>1, <3>1, <3>2 DEF Ordered
    <3>3. CASE j = Len(queue) + 1
      BY <1>4, <1>6, <3>1, <3>3
    <3> QED  BY <1>4, <3>2, <3>3
  <2>2. ASSUME NEW i \in 1..Len(queue') PROVE queue'[i].n <= sent'
    <3>1. CASE i \in 1..Len(queue)
      BY <1>1, <1>4, <1>3, <1>6, <3>1
    <3>2. CASE i = Len(queue) + 1
      BY <1>1, <1>3, <1>4, <3>2
    <3> QED  BY <1>4, <3>1, <3>2
  <2> QED  BY <2>1, <2>2
<1>8. current' # None => /\ current'.n <= sent'
                         /\ \A i \in 1..Len(queue') : current'.n < queue'[i].n
  <2> SUFFICES ASSUME current # None
               PROVE  current.n <= sent' /\ \A i \in 1..Len(queue') : current.n < queue'[i].n
    BY <1>2
  <2>1. current.n \in Nat /\ current.n <= sent /\ \A i \in 1..Len(queue) : current.n < queue[i].n
    BY NotNone DEF TypeOK, Ordered
  <2> QED  BY <1>1, <1>3, <1>4, <2>1
<1>9. ASSUME NEW d \in Candidates, results[d] # None
      PROVE  /\ results[d].n <= sent'
             /\ \A i \in 1..Len(queue') : results[d].n < queue'[i].n
             /\ current # None => results[d].n < current.n
  <2>1. results[d].n \in Nat
    BY <1>9, NotNone DEF TypeOK, Result
  <2>2. /\ results[d].n <= sent /\ \A i \in 1..Len(queue) : results[d].n < queue[i].n
        /\ current # None => results[d].n < current.n
    BY <1>9 DEF Ordered
  <2> QED  BY <1>1, <1>3, <1>4, <2>1, <2>2
<1> QED  BY <1>2, <1>5, <1>7, <1>8, <1>9 DEF Ordered

(* A key that expires takes its result with it.                            *)
LEMMA ExpireKeeps ==
  ASSUME TypeOK, Ordered, NEW c \in Candidates, Expire(c)
  PROVE  TypeOK' /\ Ordered'
<1>1. \A d \in Candidates : results'[d] \in {results[d], None}
  BY DEF Expire, TypeOK
<1>2. results' \in [Candidates -> Result \cup {None}]
  BY DEF Expire, TypeOK, Result
<1> QED  BY <1>1, <1>2 DEF Expire, TypeOK, PingTypeOK, Ordered, Result

(* What is left of the queue is still in order and behind the popped one,  *)
(* which came after every result.                                          *)
LEMMA PoppedFirst ==
  ASSUME TypeOK, Ordered, queue # <<>>, queue' = Rest
  PROVE  /\ Popped.n \in 1..sent
         /\ \A i, j \in 1..Len(queue') : i < j => queue'[i].n < queue'[j].n
         /\ \A i \in 1..Len(queue') : queue'[i].n <= sent /\ Popped.n < queue'[i].n
         /\ \A c \in Candidates : results[c] # None =>
              /\ results[c].n < Popped.n
              /\ \A i \in 1..Len(queue') : results[c].n < queue'[i].n
<1>1. /\ Len(queue) \in Nat \ {0} /\ Popped = queue[1] /\ Popped \in Request
      /\ Len(queue') = Len(queue) - 1
      /\ \A i \in 1..Len(queue') : queue'[i] = queue[i + 1] /\ i + 1 \in 1..Len(queue)
  BY RestIs
<1>2. Popped.n \in 1..MaxRequests /\ Popped.n <= sent /\ sent \in Nat /\ 1 \in 1..Len(queue)
  BY <1>1, NotNone DEF Ordered, TypeOK
<1>3. \A i, j \in 1..Len(queue') : i < j => queue'[i].n < queue'[j].n
  BY <1>1 DEF Ordered
<1>4. \A i \in 1..Len(queue') : queue'[i].n <= sent /\ Popped.n < queue'[i].n
  <2> SUFFICES ASSUME NEW i \in 1..Len(queue')
               PROVE  queue'[i].n <= sent /\ Popped.n < queue'[i].n
    OBVIOUS
  <2>1. queue'[i] = queue[i + 1] /\ i + 1 \in 1..Len(queue) /\ 1 < i + 1
    BY <1>1
  <2> QED  BY <1>1, <1>2, <2>1 DEF Ordered
<1>5. ASSUME NEW c \in Candidates, results[c] # None
      PROVE  results[c].n < Popped.n /\ \A i \in 1..Len(queue') : results[c].n < queue'[i].n
  BY <1>1, <1>2, <1>5 DEF Ordered
<1> QED  BY <1>2, <1>3, <1>4, <1>5

(* The oldest request is the one under way, or is dropped as malformed: in *)
(* either case those left in the queue are newer.                          *)
LEMMA PopKeeps ==
  ASSUME TypeOK, PingTypeOK', Ordered, Pop
  PROVE  TypeOK' /\ Ordered'
<1>1. /\ current = None /\ queue # <<>> /\ queue' = Rest /\ ping = NoPing
      /\ conn' = conn /\ results' = results /\ sent' = sent /\ lost' = lost /\ faults' = faults
  BY DEF Pop, TypeOK
<1>2. Popped \in Request /\ queue' \in Seq(Request) /\ Popped # None
  BY <1>1, RestIs, NotNone
<1>3. CASE Popped.target = Malformed
  <2>1. settled' = settled \cup {Popped.n} /\ current' = current /\ ping' = ping
    BY <1>3 DEF Pop
  <2>2. TypeOK'
    BY <1>1, <1>2, <2>1, PoppedFirst DEF TypeOK
  <2>3. Ordered'
    BY <1>1, <2>1, PoppedFirst DEF Ordered
  <2> QED  BY <2>2, <2>3
<1>4. CASE Popped.target # Malformed
  <2>1. settled' = settled /\ current' = Popped /\ StartPing(Popped.target)
    BY <1>4 DEF Pop
  <2>2. ping' # NoPing
    <3>1. ping'.pc # "none"
      BY <2>1 DEF StartPing
    <3> QED  BY <3>1 DEF NoPing
  <2>3. TypeOK'
    BY <1>1, <1>2, <2>1, <2>2 DEF TypeOK
  <2>4. Ordered'
    BY <1>1, <2>1, PoppedFirst DEF Ordered, TypeOK
  <2> QED  BY <2>3, <2>4
<1> QED  BY <1>3, <1>4

(* A connection that breaks loses the oldest request or none.              *)
LEMMA PopFailsKeeps ==
  ASSUME TypeOK, Ordered, PopFails
  PROVE  TypeOK' /\ Ordered'
<1> USE DiscoveryAssumption
<1>1. /\ current = None /\ current' = None /\ ping' = ping /\ serves' = serves /\ conn' = FALSE
      /\ results' = results /\ sent' = sent /\ settled' = settled
      /\ faults' \in 0..MaxFaults
  BY DEF PopFails, Fault, TypeOK
<1>2. CASE UNCHANGED <<queue, lost>>
  BY <1>1, <1>2 DEF TypeOK, PingTypeOK, Ordered
<1>3. CASE queue # <<>> /\ queue' = Rest /\ lost' = lost \cup {Popped.n}
  <2>1. queue' \in Seq(Request)
    BY <1>3, RestIs
  <2>2. TypeOK'
    BY <1>1, <1>3, <2>1, PoppedFirst DEF TypeOK, PingTypeOK
  <2>3. Ordered'
    BY <1>1, <1>3, PoppedFirst DEF Ordered
  <2> QED  BY <2>2, <2>3
<1> QED  BY <1>2, <1>3 DEF PopFails

(* A step of the poll does not end it. *)
LEMMA PollGoesOn == ASSUME PingStep PROVE ping' # NoPing
<1>1. \A addrs, tried, elapsed : NextAttempt(addrs, tried, elapsed).pc # "none"
  BY DEF NextAttempt
<1>2. ping'.pc # "none"
  BY <1>1 DEF PingStep, ResolveSrv, LookupHost, Connect, ReadVarint, ReadBody, Decode, PingBedrock,
              Fail, NextField, Read, Varint, Up
<1> QED  BY <1>2 DEF NoPing

(* A poll touches no request.                                              *)
LEMMA ProbeKeeps ==
  ASSUME TypeOK, PingTypeOK', Ordered, Probe
  PROVE  TypeOK' /\ Ordered'
<1>1. ping' # NoPing
  BY PollGoesOn DEF Probe
<1> QED  BY <1>1 DEF Probe, TypeOK, Ordered

(* The poll's request is done with, answered or not. *)
LEMMA DoneKeeps ==
  ASSUME TypeOK, PingTypeOK', Ordered, current # None, Done,
         queue' = queue, sent' = sent, results' \in {results, Answer},
         settled' \in {settled, settled \cup {current.n}},
         lost' \in {lost, lost \cup {current.n}},
         conn' \in BOOLEAN, faults' \in 0..MaxFaults
  PROVE  TypeOK' /\ Ordered'
<1>1. current \in Request /\ current.n \in 1..MaxRequests /\ current.candidate \in Candidates
  BY NotNone DEF TypeOK
<1>2. current.n \in 1..sent /\ \A i \in 1..Len(queue) : current.n < queue[i].n
  BY <1>1 DEF Ordered, TypeOK
<1>3. [n |-> current.n, ok |-> ping = Up] \in Result
  BY <1>1 DEF Result
<1>4. results' \in [Candidates -> Result \cup {None}]
  BY <1>3 DEF TypeOK, Answer, Result
<1>5. TypeOK'
  BY <1>2, <1>4 DEF Done, TypeOK, Result
<1>6. ASSUME NEW c \in Candidates, results'[c] # None
      PROVE  results'[c].n <= sent' /\ \A i \in 1..Len(queue') : results'[c].n < queue'[i].n
  <2>1. results'[c] = results[c] \/ results'[c].n = current.n
    BY <1>3 DEF Answer, TypeOK
  <2> QED  BY <1>2, <1>6, <2>1 DEF Ordered, TypeOK
<1>7. current' = None
  BY DEF Done
<1> QED  BY <1>5, <1>6, <1>7 DEF Ordered

(* The result gets the number of the request under way, which is above     *)
(* that of every result and below that of every queued request.            *)
LEMMA ReplyKeeps ==
  ASSUME TypeOK, PingTypeOK', Ordered, Reply \/ ReplyFails
  PROVE  TypeOK' /\ Ordered'
<1> USE DiscoveryAssumption
<1>1. current # None
  BY DEF Reply, ReplyFails, Ended, TypeOK, NoPing
<1>2. CASE Reply
  BY <1>1, <1>2, DoneKeeps DEF Reply, TypeOK
<1>3. CASE ReplyFails
  <2>1. conn' \in BOOLEAN /\ faults' \in 0..MaxFaults
    <3>1. \/ conn' = conn /\ faults' = faults
          \/ conn' = FALSE /\ faults < MaxFaults /\ faults' = faults + 1
      BY <1>3 DEF ReplyFails, Fault
    <3>2. conn' \in BOOLEAN
      BY <3>1 DEF TypeOK
    <3>3. faults' \in 0..MaxFaults
      BY <3>1 DEF TypeOK
    <3> QED  BY <3>2, <3>3
  <2>2. /\ results' \in {results, Answer} /\ lost' = lost \cup {current.n} /\ settled' = settled
        /\ queue' = queue /\ sent' = sent /\ Done
    BY <1>3 DEF ReplyFails
  <2> QED  BY <1>1, <2>1, <2>2, DoneKeeps
<1> QED  BY <1>2, <1>3

(* A restart forgets the request under way; results and queue are in       *)
(* Redis.                                                                  *)
LEMMA RestartKeeps ==
  ASSUME TypeOK, PingTypeOK', Ordered, Restart
  PROVE  TypeOK' /\ Ordered'
<1> USE DiscoveryAssumption
<1>1. conn' \in BOOLEAN /\ faults' \in 0..MaxFaults
  BY DEF Restart, Fault, TypeOK
<1>2. CASE current # None
  BY <1>1, <1>2, DoneKeeps DEF Restart
<1>3. CASE current = None
  BY <1>1, <1>3 DEF Restart, Done, TypeOK, Ordered
<1> QED  BY <1>2, <1>3

(* One lemma per action of the loop.                                       *)
LEMMA LoopKeeps == PingInv' /\ TypeOK /\ Ordered /\ [Next]_vars => TypeOK' /\ Ordered'
<1> SUFFICES ASSUME PingTypeOK', TypeOK, Ordered, [Next]_vars PROVE TypeOK' /\ Ordered'
  BY DEF PingInv
<1>1. CASE UNCHANGED vars
  BY <1>1 DEF vars, TypeOK, Ordered
<1> QED  BY <1>1, PushKeeps, ExpireKeeps, PopKeeps, PopFailsKeeps, ProbeKeeps, ReplyKeeps,
            RestartKeeps DEF Next, Loop

(* The order and the types hold in every state of the specification.       *)
LEMMA AlwaysOrdered == Spec => [](TypeOK /\ Ordered)
<1>1. Init => TypeOK /\ Ordered
  <2> USE DiscoveryAssumption
  <2> SUFFICES ASSUME Init PROVE TypeOK /\ Ordered
    OBVIOUS
  <2>1. PingTypeOK
    BY InitPing DEF PingInv
  <2> QED  BY <2>1 DEF Init, TypeOK, Ordered
<1> QED  BY <1>1, LoopKeeps, PingInvHolds, PTL DEF Spec

(* Type correctness of redis_discovery_probe_loop: a request is in hand    *)
(* exactly while it is polled, and only requests that came are settled or  *)
(* lost.                                                                   *)
THEOREM DiscoveryTypeCorrect == Spec => []TypeOK
BY AlwaysOrdered, PTL

(* BLPOP and SET of redis_discovery_probe_loop: requests are handled one   *)
(* at a time in the order of their arrival, so a result never gives way to *)
(* that of an earlier request, through broken connections and restarts.    *)
THEOREM NeverOlderHolds == Spec => NeverOlder
<1>1. TypeOK /\ Ordered /\ [Next]_vars
        => [\A c \in Candidates :
              results[c] # None /\ results'[c] # None => results'[c].n >= results[c].n]_vars
  <2> SUFFICES ASSUME TypeOK, Ordered, Next, NEW c \in Candidates,
                      results[c] # None, results'[c] # None
               PROVE  results'[c].n >= results[c].n
    OBVIOUS
  <2>1. results[c].n \in Nat
    BY NotNone DEF TypeOK, Result
  <2>2. CASE results'[c] = results[c]
    BY <2>1, <2>2
  <2>3. CASE (Reply \/ ReplyFails) /\ results' = Answer
    <3>1. current # None
      BY <2>3 DEF Reply, ReplyFails, Ended, TypeOK, NoPing
    <3>2. current.n \in Nat /\ results[c].n < current.n
      BY <3>1, NotNone DEF TypeOK, Ordered
    <3>3. results'[c] = results[c] \/ results'[c].n = current.n
      BY <2>3 DEF Answer, TypeOK
    <3> QED  BY <2>1, <3>2, <3>3
  <2>4. CASE \E d \in Candidates : Expire(d)
    BY <2>1, <2>4 DEF Expire, TypeOK
  <2> QED  BY <2>2, <2>3, <2>4 DEF Next, Loop, Push, Pop, PopFails, Probe, Reply, ReplyFails, Restart
<1> QED  BY <1>1, AlwaysOrdered, PTL DEF Spec, NeverOlder
=============================================================================
