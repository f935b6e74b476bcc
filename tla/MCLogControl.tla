---------------------------- MODULE MCLogControl ----------------------------
(***************************************************************************)
(* What a log may be run with, and which calls of DeferredLogRun may fail. *)
(***************************************************************************)
EXTENDS LogControl

P(v, lob, del) == [vol |-> v, fLogOnBoot |-> lob, del |-> del]

\* Logs to the card, started by the user.
CardLogs == {P("VOLSD", FALSE, TRUE), P("VOLSD", FALSE, FALSE)}

\* Logs of every kind, with log on boot or not.
AllLogs == CardLogs \cup {P("VOLRAM", FALSE, TRUE), P("VOLCLOUD", FALSE, TRUE),
                         P("VOLRAM", TRUE, TRUE), P("VOLSD", TRUE, TRUE)}

\* Every call but fsclose.
OpenFaults == RunStates \ {"FILEclose"}

\* What the code copes with, and everything but a run before the last one is done.
Usual == {"stop setup", "stop running", "target error", "timeout", "reset", "list", "delete"}
Events == {Usual, Usual \cup {"count"}, Usual \cup {"create"},
           EventKinds \ {"run early", "count"}, EventKinds \ {"run early"}}
=============================================================================
