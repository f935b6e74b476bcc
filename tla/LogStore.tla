------------------------------ MODULE LogStore ------------------------------
(***************************************************************************)
(* What a log promises its reader, whatever it is stored on: the stored    *)
(* samples are a prefix of the samples taken, in order, and the header is  *)
(* the one of an empty log until it is closed; then it says how many       *)
(* samples there are and why the log stopped, is true, and nothing is      *)
(* added any more.  A reader cannot tell the first header from the closing *)
(* one of a log without samples: header.last is not in the file.           *)
(***************************************************************************)
EXTENDS Integers

CONSTANTS Channels,     \* samples per scan: a header counts whole scans
          Reasons       \* why a log can stop

VARIABLES offered,      \* samples converted so far
          stored,       \* samples on the target, the first ones of the log
          header        \* FirstHeader, or the closing header

lsVars == <<offered, stored, header>>

FirstHeader == [count |-> 0, stop |-> "STCDNormal", last |-> FALSE]

LInit == offered = 0 /\ stored = 0 /\ header = FirstHeader

\* More samples come in, whether or not anyone still stores them.
Offer == offered' \in Nat /\ offered' > offered /\ UNCHANGED <<stored, header>>

Append ==
  /\ header = FirstHeader
  /\ stored' \in stored + 1 .. offered
  /\ UNCHANGED <<offered, header>>

Close ==
  /\ header = FirstHeader
  /\ \E r \in Reasons : header' = [count |-> stored \div Channels, stop |-> r, last |-> TRUE]
  /\ UNCHANGED <<offered, stored>>

LNext == Offer \/ Append \/ Close

LSpec == LInit /\ [][LNext]_lsVars
=============================================================================
