---------------------------- MODULE SampleQueue ----------------------------
(***************************************************************************)
(* What the device's sample buffer promises to the rest of the firmware,   *)
(* whatever its representation: a bounded queue of finished samples, named *)
(* by their timestamps, beside the one sample that is still being filled.  *)
(* A new sample is always newer than every other; when the queue is full   *)
(* the oldest sample makes room; samples are only released oldest first.   *)
(***************************************************************************)
EXTENDS Integers, FiniteSets

CONSTANT Capacity      \* finished samples the queue can hold, at least 1

VARIABLES pending,     \* timestamps of the finished samples not yet released
          open         \* timestamp of the sample being filled, 0 before the first

vars == <<pending, open>>

Init == pending = {} /\ open = 0

Oldest(S) == CHOOSE x \in S : \A y \in S : x <= y

(* The open sample is finished and a newer one is opened.                  *)
Open ==
  LET finished == pending \union (IF open = 0 THEN {} ELSE {open})
  IN  /\ open' > open
      /\ pending' = IF Cardinality(finished) > Capacity
                      THEN finished \ {Oldest(finished)}
                      ELSE finished

(* An acknowledgement releases the oldest samples, up to some sample.      *)
Release ==
  /\ \E ts \in pending : pending' = {x \in pending : x > ts}
  /\ UNCHANGED open

Next == Open \/ Release

Spec == Init /\ [][Next]_vars
=============================================================================
