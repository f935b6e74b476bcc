------------------------------ MODULE ByteFifo ------------------------------
(***************************************************************************)
(* What a serial port promises: the bytes that are sent are read once each *)
(* and in order.  Byte n is the n-th one sent.  A purge throws away the    *)
(* oldest bytes that have not been read.                                   *)
(***************************************************************************)
EXTENDS Integers, Sequences

VARIABLES
  sent,      \* bytes sent so far
  taken,     \* of them, read or thrown away
  got        \* what has been read

Init == sent = 0 /\ taken = 0 /\ got = <<>>

Waiting == taken + 1 .. sent

Send == sent' = sent + 1 /\ UNCHANGED <<taken, got>>

Take ==
  /\ taken' \in Waiting
  /\ got' = got \o [i \in 1 .. taken' - taken |-> taken + i]
  /\ UNCHANGED sent

Purge == taken' \in Waiting /\ UNCHANGED <<sent, got>>

Spec == Init /\ [][Send \/ Take \/ Purge]_<<sent, taken, got>>
=============================================================================
