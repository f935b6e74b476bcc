---------------------------- MODULE MCFatThread ----------------------------
(***************************************************************************)
(* Clients of the file system thread, in the order of the super loop: the  *)
(* SD target of a log, the deferred task, and a JSON file command.         *)
(***************************************************************************)
EXTENDS FatThread

Transfer(f, v, n, m) == [func |-> f, vol |-> v, xfer |-> TRUE, size |-> n, room |-> m]
Write(v, n) == Transfer("FSWRITE", v, n, n + MaxPiece)
Read(v, n)  == Transfer("FSREAD", v, n, n + MaxPiece)
Call(f, v)  == [func |-> f, vol |-> v, xfer |-> FALSE, size |-> 0, room |-> 0]

\* No two clients use the same function on the same volume.  Writes may meet a
\* full disk, after one sector or at once, and a file may end before what is read
\* from it.
Apart == [c \in 1 .. 3 |->
  CASE c = 1 -> {Write("sd", 3), Transfer("FSWRITE", "sd", 3, 1), Call("FSCLOSE", "sd")}
    [] c = 2 -> {Call("FSUNLINK", "sd"), Transfer("FSWRITE", "flash", 2, 0)}
    [] c = 3 -> {Read("sd", 3), Call("FSCLOSE", "flash"), Read("flash", 1), Transfer("FSREAD", "flash", 2, 1)}]

\* A file is written to the card while a log is written to the card.
Shared == [c \in 1 .. 3 |->
  CASE c = 1 -> {Write("sd", 3)}
    [] c = 2 -> {Call("FSUNLINK", "sd")}
    [] c = 3 -> {Write("sd", 1)}]
=============================================================================
