----------------------------- MODULE MCEmission -----------------------------
(* A small instance of Emission for TLC. *)
EXTENDS Emission

(* Two answers differ in the player count, two in the other data. *)
ThreeAnswers == { [online |-> 0, meta |-> "m1"], [online |-> 1, meta |-> "m1"],
                  [online |-> 1, meta |-> "m2"] }
=============================================================================
