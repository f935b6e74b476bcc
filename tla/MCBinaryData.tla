---------------------------- MODULE MCBinaryData ----------------------------
(***************************************************************************)
(* The requests that are tried: writes with and without bytes before and   *)
(* after the file's, reads of parts of a file and beyond its end, files in *)
(* use, reads of the log, and several of them at once.                     *)
(***************************************************************************)
EXTENDS BinaryData

Write(path, at, cb) == [do |-> "write", path |-> path, at |-> at, cb |-> cb]
Read(path, at, cb)  == [do |-> "read", path |-> path, at |-> at, cb |-> cb]
Log(at, cb)         == [do |-> "log", at |-> at, cb |-> cb]

Ask(c) == [cmds |-> <<c>>, bin |-> 0]

FileRequests ==
  {[cmds |-> <<Write("a.bin", 0, 3)>>, bin |-> 3],
   [cmds |-> <<Write("a.bin", 1, 2), Write("b.bin", 2, 1)>>, bin |-> 3],
   [cmds |-> <<Write("log", 0, 1), Write("a.bin", 0, 2)>>, bin |-> 3],
   [cmds |-> <<Read("a.bin", 0, 3), Read("b.bin", 0, -1)>>, bin |-> 0],
   Ask(Read("a.bin", 2, 3))}
LogRequests ==
  {Ask(Log(0, -1)), Ask(Log(2, 3)),
   [cmds |-> <<Log(4, -1), Read("a.bin", 1, 2)>>, bin |-> 0]}

AllRequests == FileRequests \cup LogRequests

\* Requests that end badly, one by one: a read beside a write that may be refused, a
\* log read after another read, a write without bytes, and one of no bytes.
ReadAndWrite == {[cmds |-> <<Read("b.bin", 0, 2), Write("a.bin", 0, 2)>>, bin |-> 2]}
ReadThenLog  == {[cmds |-> <<Read("b.bin", 0, 2), Log(0, -1)>>, bin |-> 0]}
WriteWithout == {Ask(Write("b.bin", 0, 2))}
WriteNothing == {[cmds |-> <<Write("b.bin", 0, 0)>>, bin |-> 1]}
=============================================================================
