--------------------------- MODULE DeferredQueue ---------------------------
(***************************************************************************)
(* The deferred tasks (OpenLogger/DeferredTasks.cpp).  A JSON command that *)
(* takes long queues a task and answers at once, with the time the client  *)
(* should wait.  PeriodicTasks, once per pass of the super loop, calls the *)
(* task at the head of the ring, and moves on when it is done or failed.   *)
(***************************************************************************)
EXTENDS Integers

CONSTANTS
  cMaxTask,     \* entries of the ring
  Tasks,        \* the DFER values in use
  Times,        \* the waits they are queued with, in msec
  MaxQueued     \* bound: tasks queued and not done

ASSUME DeferredQueueAssumption ==
  /\ cMaxTask \in Nat \ {0}
  /\ Times \subseteq Nat
  /\ MaxQueued \in Nat

UNTIL   == -1
Entries == [dTask : Tasks, tmsWait : Times \cup {UNTIL}]

VARIABLES
  taskInfo, idTaskNext, idTaskCur,   \* the ring
  begun,        \* the static state of the task at the head: it is not Idle
  queued        \* history: tasks queued and not done

queueVars == <<taskInfo, idTaskNext, idTaskCur, begun, queued>>

Slots == 0 .. cMaxTask - 1

QueueInit ==
  /\ taskInfo \in [Slots -> Entries]
  /\ \A i, j \in Slots : taskInfo[i] = taskInfo[j]     \* left over, never read
  /\ idTaskNext = 0 /\ idTaskCur = 0
  /\ begun = FALSE
  /\ queued = 0

NoWrap(i) == i + 1                         \* mutant: the index runs off the ring
Succ(i) == (i + 1) % cMaxTask

\* QueTask never looks whether there is room.
QueTask(e) ==
  /\ queued < MaxQueued
  /\ taskInfo' = [taskInfo EXCEPT ![idTaskNext] = e]
  /\ idTaskNext' = Succ(idTaskNext)
  /\ queued' = queued + 1
  /\ UNCHANGED <<idTaskCur, begun>>

\* PeriodicTasks calls the head task and it is not done: any state but Idle.
TaskContinues ==
  /\ idTaskCur # idTaskNext
  /\ begun' = TRUE
  /\ UNCHANGED <<taskInfo, idTaskNext, idTaskCur, queued>>

\* PeriodicTasks calls the head task and it is done, Idle or an error.
SkipOne(i) == Succ(Succ(i))                \* mutant: a task is passed over
Advance(i) == Succ(i)

TaskDone ==
  /\ idTaskCur # idTaskNext
  /\ idTaskCur' = Advance(idTaskCur)
  /\ begun' = FALSE
  /\ queued' = queued - 1
  /\ UNCHANGED <<taskInfo, idTaskNext>>

QueueNext == (\E e \in Entries : QueTask(e)) \/ TaskContinues \/ TaskDone

QueueSpec == QueueInit /\ [][QueueNext]_queueVars

-----------------------------------------------------------------------------
(* What the ring holds, as GetWaitTime walks it.                           *)

IEnd == IF idTaskNext < idTaskCur THEN idTaskNext + cMaxTask ELSE idTaskNext
Count == IEnd - idTaskCur

\* The n-th task from the head.
Entry(n) == taskInfo[(idTaskCur + n - 1) % cMaxTask]

\* Msec until the n-th task from the head is done, or UNTIL when one of them
\* does not say.
WaitFor ==
  LET W[n \in 0 .. cMaxTask] ==
        IF n = 0 THEN 0
        ELSE IF W[n - 1] = UNTIL \/ Entry(n).tmsWait = UNTIL THEN UNTIL
        ELSE W[n - 1] + Entry(n).tmsWait
  IN  W

\* GetWaitTime(): until all are done.
GetWaitTime == IF Count < 0 THEN 0 ELSE WaitFor[Count]

\* GetWaitTime(dTask): until the first of that kind is done, 0 if there is none.
LastOf(S) == CHOOSE n \in S : \A k \in S : k <= n     \* mutant: the last one counts
FirstOf(S) == CHOOSE n \in S : \A k \in S : n <= k
GetWaitTimeOf(dTask) ==
  LET at == {n \in 1 .. Count : Entry(n).dTask = dTask}
  IN  IF at = {} THEN 0 ELSE WaitFor[FirstOf(at)]

-----------------------------------------------------------------------------
(* Properties.                                                             *)

QueueTypeOK ==
  /\ taskInfo \in [Slots -> Entries]
  /\ idTaskNext \in Slots /\ idTaskCur \in Slots
  /\ begun \in BOOLEAN
  /\ queued \in 0 .. MaxQueued

\* The ring holds every task that was queued and is not done: a full ring does
\* not look empty, and a task that has begun is still there to be finished.
NoneLost == Count = queued /\ (begun => queued > 0)

\* A task queued last adds its time to the wait the client is told, wherever
\* the ring wraps, and leaves the wait for the tasks ahead of it as it was:
\* FnCalibrateStart answers GetWaitTime() after it queued its tasks, and
\* FnCalibrateRead asks for a single one later.
WaitAddsUp ==
  [][\A e \in Entries : QueTask(e) =>
       /\ GetWaitTime' = IF UNTIL \in {GetWaitTime, e.tmsWait} THEN UNTIL
                         ELSE GetWaitTime + e.tmsWait
       /\ \A d \in Tasks : (\E n \in 1 .. Count : Entry(n).dTask = d)
                             => GetWaitTimeOf(d)' = GetWaitTimeOf(d)]_queueVars

\* The ring is a queue: order kept, nothing lost, one task at a time.
Queue == INSTANCE TaskQueue WITH waiting <- [n \in 1 .. Count |-> Entry(n)]
ImplementsQueue == Queue!Spec

=============================================================================
