----------------------------- MODULE TaskQueue -----------------------------
(***************************************************************************)
(* What DEFTask promises: tasks run in the order they were queued, each    *)
(* until it is done, and none before the one ahead of it is done.          *)
(***************************************************************************)
EXTENDS Sequences

CONSTANT Entries     \* the tasks, with the time each is said to take

VARIABLES
  waiting,   \* the tasks queued and not done, the oldest first
  begun      \* the oldest has been called and is not done

vars == <<waiting, begun>>

Init == waiting = <<>> /\ begun = FALSE

Queue ==
  /\ \E e \in Entries : waiting' = Append(waiting, e)
  /\ UNCHANGED begun

Continue == waiting # <<>> /\ begun' = TRUE /\ UNCHANGED waiting

Finish == waiting # <<>> /\ waiting' = Tail(waiting) /\ begun' = FALSE

Next == Queue \/ Continue \/ Finish

Spec == Init /\ [][Next]_vars

=============================================================================
