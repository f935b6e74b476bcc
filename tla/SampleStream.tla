---------------------------- MODULE SampleStream ----------------------------
(***************************************************************************)
(* What the acquisition path promises: a run delivers its samples to the   *)
(* voltage buffer in order, each once, only after it was taken and before  *)
(* the ring that holds it has been lapped.                                 *)
(***************************************************************************)
EXTENDS Naturals

CONSTANT Capacity     \* samples the raw ring holds

VARIABLES
  open,     \* the instrument is sampling
  taken,    \* samples taken in this run
  done      \* samples delivered in this run: the first done of those taken

vars == <<open, taken, done>>

Init == open = FALSE /\ taken = 0 /\ done = 0

\* A run starts with an empty stream.
Start == ~open /\ open' = TRUE /\ taken' = 0 /\ done' = 0

Take == open /\ taken' = taken + 1 /\ UNCHANGED <<open, done>>

\* The oldest undelivered samples are delivered; none of them is overwritten.
Deliver ==
  /\ taken - done <= Capacity
  /\ done' \in done + 1 .. taken
  /\ UNCHANGED <<open, taken>>

\* Sampling stops; what was taken can still be delivered.
Stop == open' = FALSE /\ UNCHANGED <<taken, done>>

Next == Start \/ Take \/ Deliver \/ Stop

Spec == Init /\ [][Next]_vars

=============================================================================
