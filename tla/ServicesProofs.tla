--------------------------- MODULE ServicesProofs ---------------------------
(***************************************************************************)
(* The machines the rest of the program runs on, for any value of their    *)
(* constants: the ring of deferred tasks (DeferredQueue), the thread all   *)
(* tasks use the file system through (FatThread), and the port commands    *)
(* come in by (Fifo245).  The three share no state here.                   *)
(***************************************************************************)
EXTENDS DeferredQueue, FatThread, Fifo245, SequenceTheorems, WellFoundedInduction, TLAPS

-----------------------------------------------------------------------------
(* The ring of deferred tasks, of any size: as long as fewer tasks are     *)
(* queued than it has entries, none is lost and the ring is a queue.       *)

QueueInv == QueueTypeOK /\ NoneLost

-----------------------------------------------------------------------------
(* The arithmetic of the ring.                                             *)

\* An index less than two rings long is wrapped by at most one subtraction.
LEMMA Wrap ==
  ASSUME NEW N \in Nat \ {0}, NEW a \in Nat, a < 2 * N
  PROVE  a % N = IF a < N THEN a ELSE a - N
  <1>1. CASE a < N
    BY <1>1
  <1>2. CASE a >= N
    BY <1>2
  <1> QED BY <1>1, <1>2

\* The next index is the one above it, or the first.
LEMMA SuccWraps ==
  ASSUME NEW i \in Slots
  PROVE  /\ Succ(i) = IF i + 1 = cMaxTask THEN 0 ELSE i + 1
         /\ Succ(i) \in Slots
  <1> DEFINE a == i + 1
  <1>1. a \in Nat /\ a < 2 * cMaxTask /\ cMaxTask \in Nat \ {0} /\ a <= cMaxTask
    BY DeferredQueueAssumption DEF Slots
  <1> HIDE DEF a
  <1>2. a % cMaxTask = IF a < cMaxTask THEN a ELSE a - cMaxTask
    BY <1>1, Wrap
  <1>3. Succ(i) = a % cMaxTask
    BY DEF Succ, a
  <1> QED BY <1>1, <1>2, <1>3 DEF Slots, a

LEMMA CountRange ==
  ASSUME QueueTypeOK
  PROVE  Count \in 0 .. cMaxTask - 1 /\ (Count = 0 <=> idTaskCur = idTaskNext)
  BY DeferredQueueAssumption DEF QueueTypeOK, Slots, Count, IEnd

-----------------------------------------------------------------------------
(* The invariant: one step per action.  Room for one more than may be      *)
(* queued is what keeps the full ring from looking empty.                  *)

\* What a new or a removed task does to the number of entries.
LEMMA CountUp ==
  ASSUME QueueTypeOK, Count < cMaxTask - 1,
         idTaskNext' = Succ(idTaskNext), idTaskCur' = idTaskCur
  PROVE  Count' = Count + 1
  <1>1. idTaskNext \in Slots
    BY DEF QueueTypeOK
  <1>2. idTaskNext' = IF idTaskNext + 1 = cMaxTask THEN 0 ELSE idTaskNext + 1
    BY <1>1, SuccWraps
  <1> QED BY <1>2, DeferredQueueAssumption DEF QueueTypeOK, Slots, Count, IEnd

LEMMA CountDown ==
  ASSUME QueueTypeOK, Count # 0,
         idTaskCur' = Succ(idTaskCur), idTaskNext' = idTaskNext
  PROVE  Count' = Count - 1
  <1>1. idTaskCur \in Slots
    BY DEF QueueTypeOK
  <1>2. idTaskCur' = IF idTaskCur + 1 = cMaxTask THEN 0 ELSE idTaskCur + 1
    BY <1>1, SuccWraps
  <1> QED BY <1>2, DeferredQueueAssumption DEF QueueTypeOK, Slots, Count, IEnd

LEMMA InitQueueInv == QueueInit => QueueInv
  <1> SUFFICES ASSUME QueueInit PROVE QueueInv
    OBVIOUS
  <1>1. 0 \in Slots /\ 0 \in 0 .. MaxQueued
    BY DeferredQueueAssumption DEF Slots
  <1>2. QueueTypeOK
    BY <1>1 DEF QueueInit, QueueTypeOK
  <1>3. Count = 0
    BY DEF QueueInit, Count, IEnd
  <1> QED BY <1>2, <1>3 DEF QueueInit, QueueInv, NoneLost

LEMMA NextQueueInv ==
  ASSUME MaxQueued < cMaxTask, QueueInv, [QueueNext]_queueVars
  PROVE  QueueInv'
  <1> USE DeferredQueueAssumption
  <1>1. ASSUME NEW e \in Entries, QueTask(e) PROVE QueueInv'
    <2>1. Succ(idTaskNext) \in Slots
      BY SuccWraps DEF QueueInv, QueueTypeOK
    <2>2. QueueTypeOK'
      BY <1>1, <2>1 DEF QueueInv, QueueTypeOK, QueTask
    <2>3. Count' = Count + 1
      BY <1>1, CountUp DEF QueueInv, QueueTypeOK, NoneLost, QueTask
    <2>4. NoneLost'
      BY <1>1, <2>3 DEF QueueInv, QueueTypeOK, NoneLost, QueTask
    <2> QED BY <2>2, <2>4 DEF QueueInv
  <1>2. ASSUME TaskContinues PROVE QueueInv'
    <2>1. Count' = Count /\ Count # 0
      BY <1>2, CountRange DEF QueueInv, TaskContinues, Count, IEnd
    <2>2. QueueTypeOK'
      BY <1>2 DEF QueueInv, QueueTypeOK, TaskContinues
    <2>3. NoneLost'
      BY <1>2, <2>1 DEF QueueInv, QueueTypeOK, NoneLost, TaskContinues
    <2> QED BY <2>2, <2>3 DEF QueueInv
  <1>3. ASSUME TaskDone PROVE QueueInv'
    <2>1. Succ(idTaskCur) \in Slots
      BY SuccWraps DEF QueueInv, QueueTypeOK
    <2>2. Count # 0
      BY <1>3, CountRange DEF QueueInv, TaskDone
    <2>3. Count' = Count - 1
      BY <1>3, <2>2, CountDown DEF QueueInv, TaskDone, Advance
    <2>4. QueueTypeOK'
      <3>1. idTaskCur' \in Slots
        BY <1>3, <2>1 DEF TaskDone, Advance
      <3>2. queued' \in 0 .. MaxQueued
        BY <1>3, <2>2 DEF QueueInv, QueueTypeOK, NoneLost, TaskDone
      <3> QED BY <1>3, <3>1, <3>2 DEF QueueInv, QueueTypeOK, TaskDone
    <2>5. NoneLost'
      BY <1>3, <2>3 DEF QueueInv, QueueTypeOK, NoneLost, TaskDone
    <2> QED BY <2>4, <2>5 DEF QueueInv
  <1>4. ASSUME UNCHANGED queueVars PROVE QueueInv'
    BY <1>4 DEF QueueInv, QueueTypeOK, NoneLost, queueVars, Count, IEnd
  <1> QED BY <1>1, <1>2, <1>3, <1>4 DEF QueueNext

\* With an entry to spare the ring is well formed: its indices stay on it.
\* (DEFTask::PeriodicTasks and QueTask.)
THEOREM RingTypeOK ==
  ASSUME MaxQueued < cMaxTask
  PROVE  QueueSpec => []QueueTypeOK
  <1>1. QueueInit => QueueInv
    BY InitQueueInv
  <1>2. QueueInv /\ [QueueNext]_queueVars => QueueInv'
    BY NextQueueInv
  <1>3. QueueInv => QueueTypeOK
    BY DEF QueueInv
  <1> QED BY <1>1, <1>2, <1>3, PTL DEF QueueSpec

\* With an entry to spare no task that was queued is ever forgotten: the ring
\* holds as many as were queued and are not done, and one that has begun is
\* among them.
THEOREM NoTaskLost ==
  ASSUME MaxQueued < cMaxTask
  PROVE  QueueSpec => []NoneLost
  <1>1. QueueInit => QueueInv
    BY InitQueueInv
  <1>2. QueueInv /\ [QueueNext]_queueVars => QueueInv'
    BY NextQueueInv
  <1>3. QueueInv => NoneLost
    BY DEF QueueInv
  <1> QED BY <1>1, <1>2, <1>3, PTL DEF QueueSpec

-----------------------------------------------------------------------------
(* The ring implements the queue of tasks.                                 *)

Waiting == [n \in 1 .. Count |-> Entry(n)]

\* Where on the ring an entry is, as the walk of GetWaitTime finds it.
Index(n) == IF idTaskCur + n - 1 < cMaxTask
            THEN idTaskCur + n - 1 ELSE idTaskCur + n - 1 - cMaxTask

OnRing(n) ==
  Index(n) \in Slots /\ Entry(n) = taskInfo[Index(n)] /\ Entry(n) \in Entries

AllOnRing == \A n \in 1 .. cMaxTask : OnRing(n)

LEMMA EntryAt == QueueTypeOK => AllOnRing
  <1> SUFFICES ASSUME QueueTypeOK, NEW n \in 1 .. cMaxTask PROVE OnRing(n)
    BY DEF AllOnRing
  <1> DEFINE a == idTaskCur + n - 1
  <1>1. a \in Nat /\ a < 2 * cMaxTask /\ cMaxTask \in Nat \ {0}
    BY DeferredQueueAssumption DEF QueueTypeOK, Slots
  <1>2. Index(n) \in Slots
    BY DeferredQueueAssumption DEF QueueTypeOK, Slots, Index
  <1>3. Index(n) = IF a < cMaxTask THEN a ELSE a - cMaxTask
    BY DeferredQueueAssumption DEF Index, QueueTypeOK, Slots
  <1>4. Entry(n) = taskInfo[a % cMaxTask]
    BY DEF Entry
  <1> HIDE DEF a
  <1>5. a % cMaxTask = IF a < cMaxTask THEN a ELSE a - cMaxTask
    BY <1>1, Wrap
  <1>6. Entry(n) = taskInfo[Index(n)]
    BY <1>3, <1>4, <1>5
  <1> QED BY <1>2, <1>6 DEF QueueTypeOK, OnRing, AllOnRing

LEMMA WaitingSeq == QueueTypeOK => Waiting \in Seq(Entries) /\ Len(Waiting) = Count
  <1> SUFFICES ASSUME QueueTypeOK PROVE Waiting \in Seq(Entries) /\ Len(Waiting) = Count
    OBVIOUS
  <1>1. Count \in 0 .. cMaxTask - 1 /\ cMaxTask \in Nat
    BY CountRange, DeferredQueueAssumption
  <1>2. \A n \in 1 .. Count : Entry(n) \in Entries
    BY <1>1, EntryAt DEF AllOnRing, OnRing
  <1> QED BY <1>1, <1>2 DEF Waiting

\* The new entry is beyond all that wait, so it overwrites none of them.
LEMMA QueTaskAppends ==
  ASSUME MaxQueued < cMaxTask, QueueInv, QueueInv', NEW e \in Entries, QueTask(e)
  PROVE  Waiting' = Append(Waiting, e)
  <1>1. Count' = Count + 1 /\ Count \in 0 .. cMaxTask - 2 /\ cMaxTask \in Nat \ {0}
    BY CountUp, CountRange, DeferredQueueAssumption DEF QueueInv, QueueTypeOK, NoneLost, QueTask
  <1>2. Waiting' \in Seq(Entries) /\ Len(Waiting') = Count + 1
    <2>1. (QueueTypeOK => Waiting \in Seq(Entries) /\ Len(Waiting) = Count)'
      BY WaitingSeq, PTL
    <2> QED BY <2>1, <1>1 DEF QueueInv
  <1>3. Waiting \in Seq(Entries) /\ Len(Waiting) = Count
    BY WaitingSeq DEF QueueInv
  <1>4. Append(Waiting, e) \in Seq(Entries) /\ Len(Append(Waiting, e)) = Count + 1
    BY <1>1, <1>3
  <1>5. ASSUME NEW n \in 1 .. Count + 1
        PROVE  Waiting'[n] = Append(Waiting, e)[n]
    <2>1. n \in 1 .. cMaxTask
      BY <1>1, <1>5
    <2>2. Index(n)' = Index(n)
      BY DEF QueTask, Index
    <2>3. Entry(n)' = taskInfo'[Index(n)]
      <3>1. (QueueTypeOK => AllOnRing)'
        BY EntryAt, PTL
      <3> QED BY <2>1, <2>2, <3>1 DEF QueueInv, OnRing, AllOnRing
    <2>4. Waiting'[n] = Entry(n)'
      BY <1>1, <1>5 DEF Waiting
    <2>5. CASE n = Count + 1
      <3>1. Index(n) = idTaskNext
        BY <2>5, <1>1, DeferredQueueAssumption DEF Index, QueueInv, QueueTypeOK, Slots, Count, IEnd
      <3>2. Entry(n)' = e
        BY <2>3, <3>1 DEF QueTask, QueueInv, QueueTypeOK
      <3> QED BY <2>4, <2>5, <3>2, <1>3
    <2>6. CASE n \in 1 .. Count
      <3>1. Index(n) # idTaskNext
        BY <2>6, <1>1, DeferredQueueAssumption DEF Index, QueueInv, QueueTypeOK, Slots, Count, IEnd
      <3>2. Entry(n)' = Entry(n)
        BY <2>1, <2>3, <3>1, EntryAt DEF QueTask, QueueInv, QueueTypeOK, OnRing, AllOnRing
      <3>3. Waiting[n] = Entry(n)
        BY <2>6 DEF Waiting
      <3> QED BY <2>4, <2>6, <3>2, <3>3, <1>3
    <2>7. Count \in Nat /\ n \in 1 .. Count + 1
      BY <1>1, <1>5
    <2>8. n = Count + 1 \/ n \in 1 .. Count
      BY <2>7
    <2> QED BY <2>5, <2>6, <2>8
  <1> QED BY <1>2, <1>4, <1>5, SeqEqual

\* What is left is what waited behind the head, in the same order.
LEMMA TaskDoneRemoves ==
  ASSUME QueueInv, QueueInv', TaskDone
  PROVE  Waiting # <<>> /\ Waiting' = Tail(Waiting)
  <1>1. Count' = Count - 1 /\ Count \in 1 .. cMaxTask - 1 /\ cMaxTask \in Nat \ {0}
    BY CountDown, CountRange, DeferredQueueAssumption DEF QueueInv, TaskDone, Advance
  <1>2. Waiting' \in Seq(Entries) /\ Len(Waiting') = Count - 1
    <2>1. (QueueTypeOK => Waiting \in Seq(Entries) /\ Len(Waiting) = Count)'
      BY WaitingSeq, PTL
    <2> QED BY <2>1, <1>1 DEF QueueInv
  <1>3. Waiting \in Seq(Entries) /\ Len(Waiting) = Count /\ Waiting # <<>>
    BY WaitingSeq, <1>1, EmptySeq DEF QueueInv
  <1>4. /\ Tail(Waiting) \in Seq(Entries)
        /\ Len(Tail(Waiting)) = Count - 1
        /\ \A i \in 1 .. Len(Tail(Waiting)) : Tail(Waiting)[i] = Waiting[i + 1]
    BY <1>3, HeadTailProperties
  <1>5. ASSUME NEW n \in 1 .. Count - 1
        PROVE  Waiting'[n] = Tail(Waiting)[n]
    <2>1. n \in 1 .. cMaxTask /\ n + 1 \in 1 .. cMaxTask /\ n + 1 \in 1 .. Count
      BY <1>1, <1>5
    <2>2. Index(n)' = Index(n + 1)
      <3>1. idTaskCur' = IF idTaskCur + 1 = cMaxTask THEN 0 ELSE idTaskCur + 1
        BY SuccWraps DEF QueueInv, QueueTypeOK, TaskDone, Advance
      <3> QED BY <2>1, <3>1, DeferredQueueAssumption DEF Index, QueueInv, QueueTypeOK, Slots
    <2>3. Entry(n)' = Entry(n + 1)
      <3>1. (QueueTypeOK => AllOnRing)'
        BY EntryAt, PTL
      <3>2. Entry(n + 1) = taskInfo[Index(n + 1)]
        BY <2>1, EntryAt DEF QueueInv, OnRing, AllOnRing
      <3> QED BY <2>1, <2>2, <3>1, <3>2 DEF TaskDone, QueueInv, OnRing, AllOnRing
    <2>4. Waiting'[n] = Entry(n)' /\ Waiting[n + 1] = Entry(n + 1)
      BY <1>1, <1>5, <2>1 DEF Waiting
    <2> QED BY <1>4, <1>5, <2>3, <2>4
  <1> QED BY <1>2, <1>3, <1>4, <1>5, SeqEqual

LEMMA InitQueue == QueueInit => Queue!Init
  <1> SUFFICES ASSUME QueueInit PROVE Waiting = <<>> /\ begun = FALSE
    BY DEF Queue!Init, Waiting
  <1>1. QueueTypeOK /\ Count = 0
    BY InitQueueInv DEF QueueInv, QueueInit, Count, IEnd
  <1>2. Waiting \in Seq(Entries) /\ Len(Waiting) = 0
    BY <1>1, WaitingSeq
  <1> QED BY <1>2, EmptySeq DEF QueueInit

LEMMA StepQueue ==
  ASSUME MaxQueued < cMaxTask, QueueInv, [QueueNext]_queueVars
  PROVE  [Queue!Next]_(Queue!vars)
  <1>0. QueueInv'
    BY NextQueueInv
  <1>1. ASSUME NEW e \in Entries, QueTask(e) PROVE Queue!Queue
    BY <1>0, <1>1, QueTaskAppends DEF Queue!Queue, Waiting, QueTask
  <1>2. ASSUME TaskContinues PROVE Queue!Continue
    <2>1. Count' = Count /\ Count # 0
      BY <1>2, CountRange DEF QueueInv, TaskContinues, Count, IEnd
    <2>2. Waiting' = Waiting
      BY <1>2, <2>1 DEF Waiting, Entry, TaskContinues
    <2>3. Waiting # <<>>
      BY <2>1, WaitingSeq, EmptySeq DEF QueueInv
    <2> QED BY <1>2, <2>2, <2>3 DEF Queue!Continue, Waiting, TaskContinues
  <1>3. ASSUME TaskDone PROVE Queue!Finish
    BY <1>0, <1>3, TaskDoneRemoves DEF Queue!Finish, Waiting, TaskDone
  <1>4. ASSUME UNCHANGED queueVars PROVE UNCHANGED Queue!vars
    BY <1>4 DEF queueVars, Queue!vars, Count, IEnd, Entry
  <1> QED BY <1>1, <1>2, <1>3, <1>4 DEF QueueNext, Queue!Next

\* With an entry to spare every behaviour of the ring is one of a queue: tasks
\* run one at a time, in the order the commands queued them, and none is
\* skipped, repeated or overwritten.
THEOREM RingIsQueue ==
  ASSUME MaxQueued < cMaxTask
  PROVE  QueueSpec => ImplementsQueue
  <1>1. QueueInit => QueueInv /\ Queue!Init
    BY InitQueueInv, InitQueue
  <1>2. QueueInv /\ [QueueNext]_queueVars => QueueInv'
    BY NextQueueInv
  <1>3. QueueInv /\ [QueueNext]_queueVars => [Queue!Next]_(Queue!vars)
    BY StepQueue
  <1> QED BY <1>1, <1>2, <1>3, PTL DEF QueueSpec, ImplementsQueue, Queue!Spec

-----------------------------------------------------------------------------
(* The waits the clients are told.  WaitFor is recursive: that there is    *)
(* such a function, and that it depends on the tasks up to the n-th only,  *)
(* is by induction, taken as the least number it does not hold for.        *)

LEMMA LeastOf ==
  ASSUME NEW T, T \subseteq Nat, T # {}
  PROVE  \E m \in T : \A k \in T : m <= k
  <1> DEFINE Less == OpToRel(<, Nat)
  <1>1. IsWellFoundedOn(Less, Nat)
    BY NatLessThanWellFounded
  <1>2. \A a, b \in Nat : <<a, b>> \in Less <=> a < b
    BY DEF OpToRel
  <1> HIDE DEF Less
  <1>3. PICK m \in T : \A y \in T : ~(<<y, m>> \in Less)
    BY <1>1, WFMin
  <1>4. \A y \in T : ~(y < m)
    BY <1>2, <1>3
  <1> QED BY <1>3, <1>4

\* One step of GetWaitTime: a wait and the time of the next task.
Further(w, t) == IF w = UNTIL \/ t = UNTIL THEN UNTIL ELSE w + t

\* w[n] is the wait for the first n of the times t, up to N of them.
IsWait(w, t, N) == w = [n \in 0 .. N |-> IF n = 0 THEN 0 ELSE Further(w[n - 1], t[n])]

LEMMA WaitExists ==
  ASSUME NEW N \in Nat, NEW t
  PROVE  \E w : IsWait(w, t, N)
  <1> DEFINE T == {k \in Nat : ~\E w : IsWait(w, t, k)}
  <1> SUFFICES ASSUME T # {} PROVE FALSE
    OBVIOUS
  <1>1. PICK m \in T : \A k \in T : m <= k
    BY LeastOf
  <1>2. m # 0
    <2> DEFINE w == [n \in 0 .. 0 |-> 0]
    <2>1. IsWait(w, t, 0)
      BY DEF IsWait
    <2> QED BY <2>1
  <1>3. m \in Nat /\ m - 1 \in Nat /\ m - 1 \notin T
    BY <1>1, <1>2
  <1>4. PICK w : IsWait(w, t, m - 1)
    BY <1>3
  <1> DEFINE v == [n \in 0 .. m |-> IF n = 0 THEN 0 ELSE Further(w[n - 1], t[n])]
  <1>5. \A n \in 0 .. m - 1 : w[n] = v[n]
    BY <1>3, <1>4 DEF IsWait
  <1>6. \A n \in 0 .. m : n # 0 => n - 1 \in 0 .. m - 1
    BY <1>3
  <1>7. IsWait(v, t, m)
    BY <1>5, <1>6 DEF IsWait
  <1> QED BY <1>1, <1>7

\* Two lists of times that agree on the first c make the same wait for these.
LEMMA WaitOfFirst ==
  ASSUME NEW N \in Nat, NEW t, NEW u, NEW w, NEW v, IsWait(w, t, N), IsWait(v, u, N),
         NEW c \in 0 .. N, \A n \in 1 .. c : t[n] = u[n]
  PROVE  \A n \in 0 .. c : w[n] = v[n]
  <1> DEFINE T == {k \in 0 .. c : w[k] # v[k]}
  <1> SUFFICES ASSUME T # {} PROVE FALSE
    OBVIOUS
  <1>0. T \subseteq Nat
    OBVIOUS
  <1>1. PICK m \in T : \A k \in T : m <= k
    <2> HIDE DEF T
    <2> QED BY <1>0, LeastOf
  <1>2. \A n \in 0 .. N : /\ w[n] = IF n = 0 THEN 0 ELSE Further(w[n - 1], t[n])
                          /\ v[n] = IF n = 0 THEN 0 ELSE Further(v[n - 1], u[n])
    BY DEF IsWait
  <1>3. m \in 0 .. N /\ m # 0 /\ m \in 1 .. c /\ m - 1 \in 0 .. c
    BY <1>1, <1>2
  <1>4. m - 1 \notin T
    BY <1>1, <1>3
  <1>5. w[m - 1] = v[m - 1] /\ t[m] = u[m]
    BY <1>3, <1>4
  <1> QED BY <1>1, <1>2, <1>3, <1>5

\* The times the walk of GetWaitTime meets.
Waits == [n \in 1 .. cMaxTask |-> Entry(n).tmsWait]

LEMMA WaitForIs == IsWait(WaitFor, Waits, cMaxTask)
  <1> DEFINE W(w) == w = [n \in 0 .. cMaxTask |->
        IF n = 0 THEN 0
        ELSE IF w[n - 1] = UNTIL \/ Entry(n).tmsWait = UNTIL THEN UNTIL
        ELSE w[n - 1] + Entry(n).tmsWait]
  <1>1. \A n \in 0 .. cMaxTask : n # 0 => Waits[n] = Entry(n).tmsWait
    BY DeferredQueueAssumption DEF Waits
  <1>2. \A w : IsWait(w, Waits, cMaxTask) <=> W(w)
    BY <1>1 DEF IsWait, Further
  <1>3. \E w : W(w)
    BY <1>2, WaitExists, DeferredQueueAssumption
  <1>4. WaitFor = CHOOSE w : W(w)
    BY DEF WaitFor
  <1> HIDE DEF W
  <1>5. W(WaitFor)
    BY <1>3, <1>4
  <1> QED BY <1>2, <1>5

LEMMA WaitForNext == IsWait(WaitFor, Waits, cMaxTask)'
  BY WaitForIs, PTL

\* The first of a kind is the same when later ones join it.
LEMMA FirstIs ==
  ASSUME NEW S, S \subseteq Nat, NEW m \in S, \A k \in S : m <= k
  PROVE  FirstOf(S) = m
  <1>1. \A n \in S : (\A k \in S : n <= k) => n <= m /\ m <= n /\ n \in Nat /\ m \in Nat
    OBVIOUS
  <1>2. \A n \in S : (\A k \in S : n <= k) => n = m
    BY <1>1
  <1> QED BY <1>2 DEF FirstOf

\* A task that is queued is the last of those on the ring, and none of them moves.
LEMMA QueTaskEntries ==
  ASSUME MaxQueued < cMaxTask, QueueInv, QueueInv', NEW e \in Entries, QueTask(e)
  PROVE  /\ Count' = Count + 1 /\ Count \in 0 .. cMaxTask - 2 /\ cMaxTask \in Nat \ {0}
         /\ \A n \in 1 .. Count : Entry(n)' = Entry(n)
         /\ \A n : n = Count + 1 => Entry(n)' = e
  <1>1. Count' = Count + 1 /\ Count \in 0 .. cMaxTask - 2 /\ cMaxTask \in Nat \ {0}
    BY CountUp, CountRange, DeferredQueueAssumption DEF QueueInv, QueueTypeOK, NoneLost, QueTask
  <1>2. Waiting' = Append(Waiting, e)
    BY QueTaskAppends
  <1>3. Waiting \in Seq(Entries) /\ Len(Waiting) = Count
    BY WaitingSeq DEF QueueInv
  <1>4. \A n \in 1 .. Count : Waiting'[n] = Waiting[n]
    BY <1>1, <1>2, <1>3
  <1>5. Waiting'[Count + 1] = e
    BY <1>1, <1>2, <1>3
  <1>6. \A n \in 1 .. Count + 1 : Waiting'[n] = Entry(n)'
    BY <1>1 DEF Waiting
  <1>7. \A n \in 1 .. Count : Waiting[n] = Entry(n)
    BY DEF Waiting
  <1>8. Count + 1 \in 1 .. Count + 1 /\ \A n \in 1 .. Count : n \in 1 .. Count + 1
    BY <1>1
  <1> QED BY <1>1, <1>4, <1>5, <1>6, <1>7, <1>8

LEMMA QueTaskWaits ==
  ASSUME MaxQueued < cMaxTask, QueueInv, QueueInv', NEW e \in Entries, QueTask(e)
  PROVE  /\ \A n \in 0 .. Count : WaitFor'[n] = WaitFor[n]
         /\ WaitFor'[Count + 1] = Further(WaitFor[Count], e.tmsWait)
  <1>1. /\ Count' = Count + 1 /\ Count \in 0 .. cMaxTask - 2 /\ cMaxTask \in Nat \ {0}
        /\ \A n \in 1 .. Count : Entry(n)' = Entry(n)
        /\ \A n : n = Count + 1 => Entry(n)' = e
    BY QueTaskEntries
  <1>2. IsWait(WaitFor, Waits, cMaxTask) /\ IsWait(WaitFor', Waits', cMaxTask)
    BY WaitForIs, WaitForNext DEF IsWait, Further
  <1>3. \A n \in 1 .. Count : Waits[n] = Waits'[n]
    BY <1>1 DEF Waits
  <1>4. Waits'[Count + 1] = e.tmsWait
    BY <1>1 DEF Waits
  <1>5. Count \in 0 .. cMaxTask /\ Count + 1 \in 0 .. cMaxTask /\ Count + 1 # 0 /\ Count + 1 - 1 = Count
    BY <1>1
  <1>6. \A n \in 0 .. Count : WaitFor[n] = WaitFor'[n]
    BY <1>1, <1>2, <1>3, <1>5, WaitOfFirst
  <1>7. WaitFor'[Count + 1] = Further(WaitFor'[Count + 1 - 1], Waits'[Count + 1])
    BY <1>2, <1>5 DEF IsWait
  <1>8. Count \in 0 .. Count
    BY <1>1
  <1> QED BY <1>4, <1>5, <1>6, <1>7, <1>8

WaitsAdd(e) ==
  /\ GetWaitTime' = IF UNTIL \in {GetWaitTime, e.tmsWait} THEN UNTIL
                    ELSE GetWaitTime + e.tmsWait
  /\ \A d \in Tasks : (\E n \in 1 .. Count : Entry(n).dTask = d)
                        => GetWaitTimeOf(d)' = GetWaitTimeOf(d)

LEMMA QueTaskAddsUp ==
  ASSUME MaxQueued < cMaxTask, QueueInv, QueueInv', NEW e \in Entries, QueTask(e)
  PROVE  WaitsAdd(e)
  <1>1. /\ Count' = Count + 1 /\ Count \in 0 .. cMaxTask - 2 /\ cMaxTask \in Nat \ {0}
        /\ \A n \in 1 .. Count : Entry(n)' = Entry(n)
        /\ \A n : n = Count + 1 => Entry(n)' = e
    BY QueTaskEntries
  <1>2. /\ \A n \in 0 .. Count : WaitFor'[n] = WaitFor[n]
        /\ WaitFor'[Count + 1] = Further(WaitFor[Count], e.tmsWait)
    BY QueTaskWaits
  <1>3. GetWaitTime = WaitFor[Count] /\ GetWaitTime' = WaitFor'[Count + 1]
    BY <1>1 DEF GetWaitTime
  <1>4. GetWaitTime' = IF UNTIL \in {GetWaitTime, e.tmsWait} THEN UNTIL
                       ELSE GetWaitTime + e.tmsWait
    BY <1>2, <1>3 DEF Further
  <1>5. ASSUME NEW d \in Tasks, NEW j \in 1 .. Count, Entry(j).dTask = d
        PROVE  GetWaitTimeOf(d)' = GetWaitTimeOf(d)
    <2> DEFINE at  == {n \in 1 .. Count : Entry(n).dTask = d}
               atN == {n \in 1 .. Count + 1 : Entry(n)'.dTask = d}
    <2>0. at \subseteq Nat /\ at # {}
      BY <1>1, <1>5
    <2>1. PICK m \in at : \A k \in at : m <= k
      <3> HIDE DEF at
      <3> QED BY <2>0, LeastOf
    <2>2. m \in 1 .. Count /\ at \subseteq Nat /\ at # {}
      BY <2>0, <2>1
    <2>3. FirstOf(at) = m
      BY <2>1, <2>2, FirstIs
    <2>4. m \in atN /\ atN \subseteq Nat /\ \A k \in atN : m <= k
      <3>1. m \in atN
        BY <1>1, <2>1, <2>2
      <3>2. ASSUME NEW k \in atN PROVE m <= k
        <4>1. k \in 1 .. Count \/ k = Count + 1
          BY <1>1
        <4>2. CASE k \in 1 .. Count
          <5>1. k \in at
            BY <1>1, <4>2
          <5> QED BY <2>1, <5>1
        <4>3. CASE k = Count + 1
          BY <1>1, <2>2, <4>3
        <4> QED BY <4>1, <4>2, <4>3
      <3> QED BY <1>1, <3>1, <3>2
    <2>5. FirstOf(atN) = m
      BY <2>4, FirstIs
    <2>6. GetWaitTimeOf(d) = WaitFor[FirstOf(at)]
      BY <2>2 DEF GetWaitTimeOf
    <2>7. GetWaitTimeOf(d)' = WaitFor'[FirstOf(atN)]
      <3>1. GetWaitTimeOf(d)' = IF atN = {} THEN 0 ELSE WaitFor'[FirstOf(atN)]
        BY <1>1 DEF GetWaitTimeOf, FirstOf
      <3> QED BY <2>4, <3>1
    <2>8. m \in 0 .. Count
      BY <1>1, <2>2
    <2> QED BY <1>2, <2>3, <2>5, <2>6, <2>7, <2>8
  <1> QED BY <1>4, <1>5 DEF WaitsAdd

\* With an entry to spare a client is told the right wait, wherever the ring wraps:
\* a task queued last adds its time to the wait for all of them and does not change
\* the one for a task ahead of it.  (GetWaitTime, as FnCalibrateStart and
\* FnCalibrateRead call it.)
THEOREM WaitsAddUp ==
  ASSUME MaxQueued < cMaxTask
  PROVE  QueueSpec => WaitAddsUp
  <1>1. QueueInit => QueueInv
    BY InitQueueInv
  <1>2. QueueInv /\ [QueueNext]_queueVars => QueueInv'
    BY NextQueueInv
  <1>3. ASSUME QueueInv, QueueInv', [QueueNext]_queueVars
        PROVE  [\A e \in Entries : QueTask(e) => WaitsAdd(e)]_queueVars
    BY <1>3, QueTaskAddsUp
  <1>4. [\A e \in Entries : QueTask(e) => WaitsAdd(e)]_queueVars =>
        [\A e \in Entries : QueTask(e) =>
          /\ GetWaitTime' = IF UNTIL \in {GetWaitTime, e.tmsWait} THEN UNTIL
                            ELSE GetWaitTime + e.tmsWait
          /\ \A d \in Tasks : (\E n \in 1 .. Count : Entry(n).dTask = d)
                                => GetWaitTimeOf(d)' = GetWaitTimeOf(d)]_queueVars
    BY DEF WaitsAdd
  <1> QED BY <1>1, <1>2, <1>3, <1>4, PTL DEF QueueSpec, WaitAddsUp

-----------------------------------------------------------------------------
(* The file system thread, for any number of tasks and any requests: as    *)
(* long as no two tasks ask for the same function on the same volume, the  *)
(* result of a call goes to the task whose call it is.                     *)

\* What ExFatFunc tells two calls apart by: the volume and the function.
KeptApart ==
  \A c, d \in Clients : c # d =>
    \A r \in Requests[c], s \in Requests[d] : r.func # s.func \/ r.vol # s.vol

-----------------------------------------------------------------------------
(* The inductive invariant.                                                *)

\* A request in progress is one the task may make, it has counted no more
\* than it asked for, and what it counted is what was moved for it.
Active(c) ==
  /\ req[c] \in Requests[c]
  /\ bw[c] = work[c]
  /\ bw[c] <= req[c].size
  /\ bw[c] <= req[c].room

\* The call the thread is in is that of the task in rgParam, as it last made
\* it, and the task has counted nothing since.
CallStands ==
  LET c == rgParam.client IN
  /\ c \in Clients
  /\ req[c] # NoReq
  /\ req[c].func = fsFunc /\ req[c].vol = curVol
  /\ rgParam.piece = IF req[c].xfer THEN Piece(req[c].size, bw[c]) ELSE 0

IInv ==
  /\ TypeOK
  /\ fYielding <=> fsFunc # None
  /\ fYielding => CallStands
  /\ \A c \in Clients : req[c] # NoReq => Active(c)

-----------------------------------------------------------------------------
(* The pieces of a request.                                                *)

Funcs == {r.func : r \in Reqs}
Volumes == {r.vol : r \in Reqs}

LEMMA NoReqFields ==
  /\ NoReq \in Reqs /\ NoReq.func = None /\ NoReq.vol = None
  /\ None \in Funcs /\ None \in Volumes
  <1>1. NoReq \in Reqs
    BY DEF Reqs
  <1>2. NoReq.func = None /\ NoReq.vol = None
    BY DEF NoReq
  <1> QED BY <1>1, <1>2 DEF Funcs, Volumes

LEMMA RequestFields ==
  ASSUME NEW c \in Clients, NEW r \in Requests[c]
  PROVE  /\ r \in Reqs /\ r # NoReq /\ r.func # None
         /\ r.func \in Funcs /\ r.vol \in Volumes
         /\ r.xfer \in BOOLEAN /\ r.size \in Nat /\ r.room \in Nat
         /\ ~r.xfer => r.size = 0
  <1>1. r \in Reqs
    BY DEF Reqs
  <1>2. /\ r.func # None /\ r.xfer \in BOOLEAN /\ r.size \in Nat /\ r.room \in Nat
        /\ ~r.xfer => r.size = 0
    BY FatThreadAssumption
  <1>3. r # NoReq
    BY <1>2, NoReqFields
  <1> QED BY <1>1, <1>2, <1>3 DEF Funcs, Volumes

\* A piece is not longer than what is left.
LEMMA PieceFits ==
  ASSUME NEW size \in Nat, NEW moved \in Nat, moved <= size
  PROVE  Piece(size, moved) \in 0 .. MaxPiece /\ Piece(size, moved) <= size - moved
  BY FatThreadAssumption DEF Piece, Least

LEMMA NextTurnType ==
  ASSUME turn \in Clients, NextTurn
  PROVE  turn' \in Clients
  BY FatThreadAssumption DEF Clients, NextTurn

-----------------------------------------------------------------------------
(* A call that is let in completes for the task that made it.              *)

\* What a task that is let in finds in rgParam is its own call.
LEMMA OwnCall ==
  ASSUME KeptApart, IInv, NEW c \in Clients, req[c] # NoReq, LetIn(req[c])
  PROVE  /\ fYielding => rgParam.client = c /\ req[c].func = fsFunc /\ req[c].vol = curVol
         /\ Params(c, req[c]) \in [client : 0 .. NClients, piece : 0 .. MaxPiece]
         /\ Params(c, req[c]).client = c
         /\ Params(c, req[c]).piece = IF req[c].xfer THEN Piece(req[c].size, bw[c]) ELSE 0
         /\ Params(c, req[c]).piece <= req[c].size - bw[c]
  <1>1. Active(c) /\ req[c] \in Requests[c] /\ bw[c] \in Nat
    BY DEF IInv, Active, TypeOK
  <1>2. ASSUME fYielding
        PROVE  rgParam.client = c /\ req[c].func = fsFunc /\ req[c].vol = curVol
    <2> DEFINE d == rgParam.client
    <2>1. d \in Clients /\ req[d] # NoReq /\ req[d].func = fsFunc /\ req[d].vol = curVol
      BY <1>2 DEF IInv, CallStands
    <2>2. req[d] \in Requests[d]
      BY <2>1 DEF IInv, Active
    <2>3. req[c].func = req[d].func /\ req[c].vol = req[d].vol
      BY <1>2, <2>1 DEF LetIn, IInv
    <2>4. d = c
      BY <1>1, <2>1, <2>2, <2>3 DEF KeptApart
    <2> QED BY <2>1, <2>4
  <1>3. /\ req[c].size \in Nat /\ req[c].xfer \in BOOLEAN
        /\ ~req[c].xfer => req[c].size = 0
    BY <1>1, RequestFields
  <1>4. bw[c] <= req[c].size
    BY <1>1 DEF Active
  <1>5. Piece(req[c].size, bw[c]) \in 0 .. MaxPiece
        /\ Piece(req[c].size, bw[c]) <= req[c].size - bw[c]
    BY <1>1, <1>3, <1>4, PieceFits
  <1> DEFINE piece == IF req[c].xfer THEN Piece(req[c].size, bw[c]) ELSE 0
  <1>6. piece \in 0 .. MaxPiece /\ piece <= req[c].size - bw[c]
    BY <1>1, <1>3, <1>4, <1>5, FatThreadAssumption
  <1>7. Params(c, req[c]).client = c /\ Params(c, req[c]).piece = piece
    BY <1>2 DEF Params, IInv, CallStands
  <1>8. Params(c, req[c]) \in [client : 0 .. NClients, piece : 0 .. MaxPiece]
    BY <1>6 DEF Params, IInv, TypeOK, Clients
  <1> QED BY <1>2, <1>6, <1>7, <1>8

\* What the thread moves is what the task is told, and no more than it wants.
LEMMA MovedIsTold ==
  ASSUME KeptApart, IInv, NEW c \in Clients, req[c] # NoReq, LetIn(req[c])
  PROVE  LET call == Params(c, req[c])
             n    == Least(call.piece, req[call.client].room - work[call.client])
         IN  /\ n \in 0 .. MaxPiece
             /\ ~req[c].xfer => n = 0
             /\ bw[c] + n <= req[c].size /\ bw[c] + n <= req[c].room
  <1>1. Active(c) /\ req[c] \in Requests[c] /\ bw[c] \in Nat /\ work[c] = bw[c]
    BY DEF IInv, Active, TypeOK
  <1>2. /\ Params(c, req[c]).client = c
        /\ Params(c, req[c]).piece \in 0 .. MaxPiece
        /\ Params(c, req[c]).piece <= req[c].size - bw[c]
        /\ ~req[c].xfer => Params(c, req[c]).piece = 0
    BY OwnCall
  <1>3. req[c].size \in Nat /\ req[c].room \in Nat /\ bw[c] <= req[c].room
    BY <1>1, RequestFields DEF Active
  <1>4. MaxPiece \in Nat
    BY FatThreadAssumption
  <1> QED BY <1>1, <1>2, <1>3, <1>4 DEF Least

-----------------------------------------------------------------------------
(* The invariant is inductive: one lemma per action.                       *)

LEMMA InitIInv == Init => IInv
  <1> SUFFICES ASSUME Init PROVE IInv
    OBVIOUS
  <1>1. /\ 0 \in 0 .. MaxPiece /\ 0 \in 0 .. MaxYields
        /\ 1 \in Clients
    BY FatThreadAssumption DEF Clients
  <1>2. NoCall \in [client : 0 .. NClients, piece : 0 .. MaxPiece]
    BY FatThreadAssumption DEF NoCall
  <1>3. TypeOK
    BY <1>1, <1>2, NoReqFields DEF Init, TypeOK, Funcs, Volumes
  <1> QED BY <1>3 DEF Init, IInv

LEMMA AskIInv ==
  ASSUME IInv, NEW c \in Clients, Ask(c)
  PROVE  IInv'
  <1> PICK r \in Requests[c] : req' = [req EXCEPT ![c] = r]
    BY DEF Ask
  <1>1. r \in Reqs /\ r.size \in Nat /\ r.room \in Nat
    BY RequestFields
  <1>2. TypeOK'
    BY <1>1 DEF Ask, IInv, TypeOK
  <1>3. ASSUME fYielding' PROVE CallStands'
    BY <1>3 DEF Ask, IInv, TypeOK, CallStands
  <1>4. ASSUME NEW d \in Clients, req'[d] # NoReq PROVE Active(d)'
    <2>1. CASE d = c
      BY <1>1, <2>1 DEF Ask, Active, IInv, TypeOK
    <2>2. CASE d # c
      BY <1>4, <2>2 DEF Ask, Active, IInv, TypeOK
    <2> QED BY <2>1, <2>2
  <1> QED BY <1>2, <1>3, <1>4 DEF Ask, IInv

\* The task has nothing to do or is turned away.
LEMMA PassIInv ==
  ASSUME IInv, NEW c \in Clients, Skip(c) \/ TurnedAway(c)
  PROVE  IInv'
  <1>1. turn' \in Clients
    BY NextTurnType DEF Skip, TurnedAway, IInv, TypeOK
  <1>2. UNCHANGED <<fsFunc, curVol, fYielding, rgParam, moved9, yields, req, bw, work>>
    BY DEF Skip, TurnedAway
  <1> QED BY <1>1, <1>2 DEF IInv, TypeOK, CallStands, Active

LEMMA YieldsIInv ==
  ASSUME KeptApart, IInv, NEW c \in Clients, Yields(c)
  PROVE  IInv'
  <1>1. req[c] # NoReq /\ LetIn(req[c]) /\ req[c] \in Requests[c]
    BY DEF Yields, IInv, Active
  <1>2. /\ Params(c, req[c]) \in [client : 0 .. NClients, piece : 0 .. MaxPiece]
        /\ Params(c, req[c]).client = c
        /\ Params(c, req[c]).piece = IF req[c].xfer THEN Piece(req[c].size, bw[c]) ELSE 0
        /\ fYielding => req[c].func = fsFunc /\ req[c].vol = curVol
    BY <1>1, OwnCall
  <1>3. /\ req[c].func # None /\ req[c].func \in Funcs /\ req[c].vol \in Volumes
    BY <1>1, RequestFields
  <1>4. fsFunc' = req[c].func /\ curVol' = req[c].vol
    BY <1>2 DEF Yields
  <1>5. turn' \in Clients
    BY NextTurnType DEF Yields, IInv, TypeOK
  <1>6. yields' \in 0 .. MaxYields
    BY FatThreadAssumption DEF Yields, IInv, TypeOK
  <1>7. moved9' \in 0 .. MaxPiece
    BY FatThreadAssumption DEF Yields, IInv, TypeOK
  <1>8. rgParam' = Params(c, req[c]) /\ fYielding' = TRUE
        /\ UNCHANGED <<req, bw, work>>
    BY DEF Yields
  <1>9. TypeOK'
    BY <1>2, <1>3, <1>4, <1>5, <1>6, <1>7, <1>8 DEF IInv, TypeOK, Funcs, Volumes
  <1>10. CallStands'
    BY <1>1, <1>2, <1>4, <1>8 DEF CallStands
  <1> QED BY <1>3, <1>4, <1>8, <1>9, <1>10 DEF IInv, Active

\* The thread is free again, and the counts of the others are as they were.
LEMMA CompletesIInv ==
  ASSUME KeptApart, IInv, NEW c \in Clients, Completes(c)
  PROVE  IInv'
  <1> DEFINE r == req[c]
             call == Params(c, r)
             n == Least(call.piece, req[call.client].room - work[call.client])
  <1>1. r # NoReq /\ LetIn(r) /\ Active(c)
    BY DEF Completes, IInv
  <1>2. call.client = c /\ call \in [client : 0 .. NClients, piece : 0 .. MaxPiece]
    BY <1>1, OwnCall
  <1>3. /\ n \in 0 .. MaxPiece
        /\ ~r.xfer => n = 0
        /\ bw[c] + n <= r.size /\ bw[c] + n <= r.room
    BY <1>1, MovedIsTold
  <1>4. r \in Requests[c] /\ bw[c] \in Nat /\ work[c] = bw[c]
    BY <1>1 DEF Active, IInv, TypeOK
  <1>5. /\ work' = [work EXCEPT ![c] = @ + n]
        /\ bw' = [bw EXCEPT ![c] = @ + n]
    BY <1>2, <1>3 DEF Completes
  <1>6. req' = req \/ req' = [req EXCEPT ![c] = NoReq]
    BY DEF Completes
  <1>7. /\ fYielding' = FALSE /\ yields' = 0 /\ fsFunc' = None /\ curVol' = None
        /\ rgParam' = call
        /\ moved9' = IF r.xfer THEN n ELSE moved9
    BY DEF Completes, Leave
  <1>8. turn' \in Clients
    BY NextTurnType DEF Completes, IInv, TypeOK
  <1> HIDE DEF r, call, n
  <1>9. TypeOK'
    <2>1. req' \in [Clients -> Reqs]
      BY <1>4, <1>6, NoReqFields, FatThreadAssumption DEF IInv, TypeOK
    <2>2. bw' \in [Clients -> Nat] /\ work' \in [Clients -> Nat]
      BY <1>3, <1>4, <1>5 DEF IInv, TypeOK
    <2>3. moved9' \in 0 .. MaxPiece /\ yields' \in 0 .. MaxYields
      BY <1>3, <1>7, FatThreadAssumption DEF IInv, TypeOK
    <2>4. fsFunc' \in {q.func : q \in Reqs} /\ curVol' \in {q.vol : q \in Reqs}
      BY <1>7, NoReqFields DEF Funcs, Volumes
    <2> QED BY <1>2, <1>7, <1>8, <2>1, <2>2, <2>3, <2>4 DEF TypeOK
  <1>10. ASSUME NEW d \in Clients, req'[d] # NoReq PROVE Active(d)'
    <2>1. CASE d = c
      <3>1. req' = req
        BY <1>6, <1>10, <2>1 DEF IInv, TypeOK
      <3>2. bw'[c] = bw[c] + n /\ work'[c] = bw[c] + n
        BY <1>4, <1>5 DEF IInv, TypeOK
      <3> QED BY <1>1, <1>3, <2>1, <3>1, <3>2 DEF Active, r
    <2>2. CASE d # c
      <3>1. req'[d] = req[d] /\ bw'[d] = bw[d] /\ work'[d] = work[d]
        BY <1>5, <1>6, <2>2 DEF IInv, TypeOK
      <3> QED BY <1>10, <3>1 DEF Active, IInv
    <2> QED BY <2>1, <2>2
  <1> QED BY <1>7, <1>9, <1>10 DEF IInv

LEMMA FailsWithIInv ==
  ASSUME KeptApart, IInv, NEW c \in Clients, FailsWith(c)
  PROVE  IInv'
  <1>1. req[c] # NoReq /\ LetIn(req[c]) /\ Active(c)
    BY DEF FailsWith, IInv
  <1>2. Params(c, req[c]) \in [client : 0 .. NClients, piece : 0 .. MaxPiece]
    BY <1>1, OwnCall
  <1>3. /\ req' = [req EXCEPT ![c] = NoReq]
        /\ fYielding' = FALSE /\ yields' = 0 /\ fsFunc' = None /\ curVol' = None
        /\ rgParam' = Params(c, req[c])
        /\ moved9' = IF fYielding \/ ~req[c].xfer THEN moved9 ELSE 0
        /\ UNCHANGED <<bw, work>>
    BY DEF FailsWith, Leave
  <1>4. turn' \in Clients
    BY NextTurnType DEF FailsWith, IInv, TypeOK
  <1>5. TypeOK'
    <2>1. req' \in [Clients -> Reqs]
      BY <1>1, <1>3, NoReqFields, FatThreadAssumption DEF Active, IInv, TypeOK
    <2>2. moved9' \in 0 .. MaxPiece /\ yields' \in 0 .. MaxYields
      BY <1>3, FatThreadAssumption DEF IInv, TypeOK
    <2>3. fsFunc' \in {q.func : q \in Reqs} /\ curVol' \in {q.vol : q \in Reqs}
      BY <1>3, NoReqFields DEF Funcs, Volumes
    <2> QED BY <1>2, <1>3, <1>4, <2>1, <2>2, <2>3 DEF IInv, TypeOK
  <1>6. ASSUME NEW d \in Clients, req'[d] # NoReq PROVE Active(d)'
    BY <1>3, <1>6 DEF Active, IInv, TypeOK
  <1> QED BY <1>3, <1>5, <1>6 DEF IInv

LEMMA NextIInv ==
  ASSUME KeptApart, IInv, [Next]_vars
  PROVE  IInv'
  <1>1. CASE UNCHANGED vars
    BY <1>1 DEF vars, IInv, TypeOK, CallStands, Active
  <1> QED BY <1>1, AskIInv, PassIInv, YieldsIInv, CompletesIInv, FailsWithIInv DEF Next

-----------------------------------------------------------------------------
(* The theorems.                                                           *)

\* Types, with the bounds on what a piece and a request can be.
THEOREM ThreadTypeOK ==
  ASSUME KeptApart
  PROVE  Spec => []TypeOK
  <1>1. IInv => TypeOK
    BY DEF IInv
  <1> QED BY <1>1, InitIInv, NextIInv, PTL DEF Spec

\* With tasks kept apart each is told exactly what the thread moved for it:
\* ExFatFunc never gives the result of a call to another task.
THEOREM ResultsGoHome ==
  ASSUME KeptApart
  PROVE  Spec => []OwnWork
  <1>1. IInv => OwnWork
    BY DEF IInv, OwnWork, Active
  <1> QED BY <1>1, InitIInv, NextIInv, PTL DEF Spec

\* With tasks kept apart the thread never yields inside a call whose task no
\* longer asks for it, so it is not taken for ever.
THEOREM ThreadIsWanted ==
  ASSUME KeptApart
  PROVE  Spec => []ThreadWanted
  <1>1. IInv => ThreadWanted
    BY DEF IInv, ThreadWanted, CallStands
  <1> QED BY <1>1, InitIInv, NextIInv, PTL DEF Spec

\* With tasks kept apart no transfer, however it is split, moves more than was
\* asked for: fswrite's ASSERT(btw >= *bw) holds.
THEOREM TransferFits ==
  ASSUME KeptApart
  PROVE  Spec => NotTooMuch
  <1> DEFINE Fits == \A c \in Clients : req[c] # NoReq => bw'[c] <= req[c].size
  <1>1. ASSUME IInv, Next PROVE Fits
    <2> SUFFICES ASSUME NEW d \in Clients, req[d] # NoReq PROVE bw'[d] <= req[d].size
      OBVIOUS
    <2>0. bw[d] <= req[d].size /\ bw \in [Clients -> Nat]
      BY <1>1 DEF IInv, Active, TypeOK
    <2> PICK c \in Clients : Ask(c) \/ Skip(c) \/ TurnedAway(c) \/ Yields(c) \/ Completes(c)
                             \/ FailsWith(c)
      BY <1>1 DEF Next
    <2>1. CASE Ask(c)
      BY <2>0, <2>1 DEF Ask
    <2>2. CASE Completes(c)
      <3>1. CASE c = d
        BY <1>1, <2>0, <2>2, <3>1, MovedIsTold DEF Completes
      <3>2. CASE c # d
        BY <2>0, <2>2, <3>2 DEF Completes
      <3> QED BY <3>1, <3>2
    <2>3. CASE Skip(c) \/ TurnedAway(c) \/ Yields(c) \/ FailsWith(c)
      BY <2>0, <2>3 DEF Skip, TurnedAway, Yields, FailsWith
    <2> QED BY <2>1, <2>2, <2>3
  <1>2. IInv /\ [Next]_vars => [Fits]_vars
    BY <1>1
  <1> QED BY <1>2, InitIInv, NextIInv, PTL DEF Spec, NotTooMuch

-----------------------------------------------------------------------------
(* The parallel port, for rings, inputs and bounds of any size: there is   *)
(* room for what comes in, and the port is a ByteFifo.                     *)

TypeInv ==
  /\ iRdStart \in Nat /\ iRdEnd \in Nat /\ cbDMA \in Nat
  /\ ffRead \in [0 .. Size - 1 -> Nat]
  /\ dptr \in Nat
  /\ pmdin \in Nat /\ sent \in Nat /\ latched \in Nat /\ taken \in Nat

\* How far the DMA has come, and how far the chip.
Progress ==
  /\ Receiving => /\ dptr <= cbDMA /\ (chen => dptr < cbDMA)
                  /\ pmdin = latched /\ latched = taken + Held + dptr + 1
  /\ ~Receiving => latched = taken + Held
  /\ latched <= sent

\* What the ring holds, and what is being put behind it.
Contents ==
  /\ \A i \in 0 .. Held - 1 : ffRead[Place(iRdStart + i)] = taken + 1 + i
  /\ Receiving => \A k \in 0 .. dptr - 1 : ffRead[Place(iRdEnd) + k] = taken + Held + 1 + k

\* RoomHeld, with Receiving.
Room ==
  /\ iRdStart < Size /\ iRdStart <= iRdEnd /\ Held <= Size
  /\ Receiving => /\ Held + cbDMA + 1 <= Size
                  /\ Place(iRdEnd) + cbDMA + 1 <= Size

PortInv == TypeInv /\ Room /\ Progress /\ Contents

SizeInt == Size \in Nat /\ Size >= 1 /\ InputSize \in Nat /\ InputSize >= 1

LEMMA SizeType == SizeInt
BY Fifo245Assumption DEF Fifo245Assumption, SizeInt

LEMMA InitPortInv == PortInit => PortInv
<1>1. SUFFICES ASSUME PortInit PROVE PortInv
  OBVIOUS
<1>2. ~Receiving
  BY <1>1 DEF PortInit, Receiving
<1>3. TypeInv
  BY <1>1, SizeType DEF PortInit, TypeInv, SizeInt
<1>. QED BY <1>1, <1>2, <1>3, SizeType DEF PortInit, PortInv, Room, Progress, Contents, Held, Place, SizeInt

\* The places that bytes come in to are behind those held.
LEMMA Places ==
  ASSUME TypeInv, Room, Receiving
  PROVE  /\ Place(iRdEnd) \in Nat
         /\ \A k \in 0 .. cbDMA : Place(iRdEnd) + k \in 0 .. Size - 1
         /\ \A k \in 0 .. cbDMA : \A i \in 0 .. Held - 1 :
              Place(iRdStart + i) \in 0 .. Size - 1 /\ Place(iRdStart + i) # Place(iRdEnd) + k
BY SizeType DEF TypeInv, Room, Held, Place, SizeInt

LEMMA SendInv == PortInv /\ Send => PortInv'
<1>1. SUFFICES ASSUME PortInv, Send PROVE PortInv'
  OBVIOUS
<1>2. Receiving' <=> Receiving
  BY <1>1 DEF Send, Receiving
<1>3. /\ sent' = sent + 1
      /\ UNCHANGED <<iRdStart, iRdEnd, cbDMA, ffRead, chen, dptr, pmdin, latched, taken>>
  BY <1>1 DEF Send, ends, chip, user
<1>4. TypeInv'
  BY <1>1, <1>3 DEF PortInv, TypeInv
<1>5. Room'
  BY <1>1, <1>2, <1>3 DEF PortInv, Room, Held, Place
<1>6. Progress'
  BY <1>1, <1>2, <1>3 DEF PortInv, TypeInv, Progress, Held
<1>7. Contents'
  BY <1>1, <1>2, <1>3 DEF PortInv, Contents, Held, Place
<1>. QED BY <1>4, <1>5, <1>6, <1>7 DEF PortInv

LEMMA MoveInv == PortInv /\ Move => PortInv'
<1>1. SUFFICES ASSUME PortInv, Move PROVE PortInv'
  OBVIOUS
<1>2. Receiving /\ Receiving'
  BY <1>1 DEF Move, Receiving
<1>3. /\ latched < sent /\ pmdin' = latched + 1 /\ latched' = latched + 1 /\ dptr' = dptr + 1
      /\ ffRead' = [ffRead EXCEPT ![Place(iRdEnd) + dptr] = pmdin]
      /\ UNCHANGED <<iRdStart, iRdEnd, cbDMA, sent, taken>>
  BY <1>1 DEF Move, ends, user
<1>4. chen /\ (chen' => dptr + 1 < cbDMA)
  <2>1. chen /\ chen' = (dptr + 1 < cbDMA)
    BY <1>1 DEF Move
  <2>. QED BY <2>1, Zenon
<1>5. dptr \in Nat /\ cbDMA \in Nat /\ dptr < cbDMA
  BY <1>1, <1>2, <1>4 DEF PortInv, TypeInv, Progress
<1>6. TypeInv'
  <2>1. ffRead' \in [0 .. Size - 1 -> Nat]
    BY <1>1, <1>3 DEF PortInv, TypeInv
  <2>. QED BY <1>1, <1>3, <2>1 DEF PortInv, TypeInv
<1>7. Room'
  BY <1>1, <1>2, <1>3 DEF PortInv, Room, Held, Place
<1>8. Progress'
  BY <1>1, <1>2, <1>3, <1>4, <1>5 DEF PortInv, TypeInv, Progress, Held
<1>9. Contents'
  <2>1. ASSUME NEW i \in 0 .. Held - 1
        PROVE  ffRead'[Place(iRdStart + i)] = taken + 1 + i
    <3>1. Place(iRdStart + i) # Place(iRdEnd) + dptr /\ Place(iRdStart + i) \in 0 .. Size - 1
      BY <1>1, <1>2, <1>5, Places DEF PortInv
    <3>. QED BY <1>1, <1>3, <3>1 DEF PortInv, TypeInv, Contents
  <2>2. ASSUME NEW k \in 0 .. dptr
        PROVE  ffRead'[Place(iRdEnd) + k] = taken + Held + 1 + k
    <3>1. /\ Place(iRdEnd) \in Nat /\ Place(iRdEnd) + k \in 0 .. Size - 1
          /\ Place(iRdEnd) + dptr \in 0 .. Size - 1
      BY <1>1, <1>2, <1>5, Places DEF PortInv
    <3>2. CASE k = dptr
      BY <1>1, <1>2, <1>3, <3>1, <3>2 DEF PortInv, TypeInv, Progress, Held
    <3>3. CASE k # dptr
      BY <1>1, <1>2, <1>3, <1>5, <3>1, <3>3 DEF PortInv, TypeInv, Contents
    <3>. QED BY <3>2, <3>3
  <2>3. Held' = Held /\ Place(iRdEnd)' = Place(iRdEnd) /\ \A i : Place(iRdStart + i)' = Place(iRdStart + i)
    BY <1>3 DEF Held, Place
  <2>. QED BY <1>2, <1>3, <1>5, <2>1, <2>2, <2>3 DEF Contents
<1>. QED BY <1>6, <1>7, <1>8, <1>9 DEF PortInv

LEMMA OthersInv == PortInv /\ (OtherStarts \/ OtherEnds \/ Watch) => PortInv'
<1>1. SUFFICES ASSUME PortInv, OtherStarts \/ OtherEnds \/ Watch PROVE PortInv'
  OBVIOUS
<1>2. Receiving' <=> Receiving
  BY <1>1, Zenon DEF OtherStarts, OtherEnds, Watch, Receiving
<1>3. UNCHANGED <<iRdStart, iRdEnd, cbDMA, ffRead, chen, dptr, pmdin, sent, latched, taken>>
  BY <1>1 DEF OtherStarts, OtherEnds, Watch, ends, chip, user
<1>4. TypeInv'
  BY <1>1, <1>3 DEF PortInv, TypeInv
<1>5. Room'
  BY <1>1, <1>2, <1>3 DEF PortInv, Room, Held, Place
<1>6. Progress'
  BY <1>1, <1>2, <1>3 DEF PortInv, Progress, Held
<1>7. Contents'
  BY <1>1, <1>2, <1>3 DEF PortInv, Contents, Held, Place
<1>. QED BY <1>4, <1>5, <1>6, <1>7 DEF PortInv

LEMMA FinishInv == PortInv /\ Finish => PortInv'
<1>1. SUFFICES ASSUME PortInv, Finish PROVE PortInv'
  OBVIOUS
<1>2. Receiving /\ ~Receiving'
  BY <1>1 DEF Finish, Receiving
<1>3. /\ ffRead' = [ffRead EXCEPT ![Place(iRdEnd + dptr)] = pmdin]
      /\ iRdEnd' = iRdEnd + dptr + 1 /\ cbDMA' = 0
      /\ UNCHANGED <<iRdStart, dptr, pmdin, sent, latched, taken>>
  BY <1>1 DEF Finish, Moved, user
<1>4. /\ dptr \in Nat /\ cbDMA \in Nat /\ dptr <= cbDMA /\ pmdin \in Nat
      /\ pmdin = taken + Held + dptr + 1
  BY <1>1, <1>2 DEF PortInv, TypeInv, Progress
<1>5. \A k \in 0 .. dptr : Place(iRdEnd + k) = Place(iRdEnd) + k
  BY <1>1, <1>2, <1>4, SizeType DEF PortInv, TypeInv, Room, Place, SizeInt
<1>6. TypeInv'
  <2>1. ffRead' \in [0 .. Size - 1 -> Nat]
    BY <1>1, <1>3, <1>4 DEF PortInv, TypeInv
  <2>. QED BY <1>1, <1>3, <1>4, <2>1 DEF PortInv, TypeInv
<1>7. Room'
  BY <1>1, <1>2, <1>3, <1>4, SizeType DEF PortInv, TypeInv, Room, Held, SizeInt
<1>8. Progress'
  BY <1>1, <1>2, <1>3, <1>4 DEF PortInv, TypeInv, Progress, Held
<1>9. Contents'
  <2>1. ASSUME NEW i \in 0 .. Held + dptr
        PROVE  ffRead'[Place(iRdStart + i)] = taken + 1 + i
    <3>1. /\ Place(iRdEnd) \in Nat /\ \A k \in 0 .. dptr : Place(iRdEnd) + k \in 0 .. Size - 1
      BY <1>1, <1>2, <1>4, Places DEF PortInv
    <3>2. iRdStart \in Nat /\ iRdEnd \in Nat /\ taken \in Nat /\ Held \in Nat /\ iRdEnd = iRdStart + Held
      BY <1>1 DEF PortInv, TypeInv, Room, Held
    <3>3. CASE i < Held
      <4>1. Place(iRdStart + i) # Place(iRdEnd) + dptr /\ Place(iRdStart + i) \in 0 .. Size - 1
        BY <1>1, <1>2, <1>4, <3>2, <3>3, Places DEF PortInv
      <4>2. ffRead'[Place(iRdStart + i)] = ffRead[Place(iRdStart + i)]
        BY <1>1, <1>3, <1>4, <1>5, <4>1 DEF PortInv, TypeInv
      <4>. QED BY <1>1, <3>2, <3>3, <4>2 DEF PortInv, Contents
    <3>4. CASE Held <= i /\ i < Held + dptr
      <4>1. PICK k \in 0 .. dptr - 1 : i = Held + k
        <5>1. i - Held \in 0 .. dptr - 1 /\ i = Held + (i - Held)
          BY <1>4, <3>2, <3>4
        <5>. QED BY <5>1
      <4>2. Place(iRdStart + i) = Place(iRdEnd) + k
        BY <1>4, <1>5, <3>2, <4>1
      <4>3. /\ Place(iRdEnd) + k \in 0 .. Size - 1 /\ Place(iRdEnd) + k # Place(iRdEnd) + dptr
        BY <1>4, <3>1, <4>1
      <4>4. ffRead'[Place(iRdEnd) + k] = ffRead[Place(iRdEnd) + k]
        BY <1>1, <1>3, <1>4, <1>5, <4>3 DEF PortInv, TypeInv
      <4>5. ffRead[Place(iRdEnd) + k] = taken + Held + 1 + k
        BY <1>1, <1>2 DEF PortInv, Contents
      <4>. QED BY <3>2, <4>1, <4>2, <4>4, <4>5
    <3>5. CASE i = Held + dptr
      <4>1. Place(iRdStart + i) = Place(iRdEnd + dptr)
        BY <1>4, <3>2, <3>5
      <4>2. Place(iRdEnd + dptr) \in 0 .. Size - 1
        BY <1>4, <1>5, <3>1
      <4>3. ffRead'[Place(iRdStart + i)] = pmdin
        BY <1>1, <1>3, <4>1, <4>2 DEF PortInv, TypeInv
      <4>. QED BY <1>4, <3>2, <3>5, <4>3
    <3>. QED BY <1>4, <3>2, <3>3, <3>4, <3>5
  <2>2. Held' = Held + dptr + 1 /\ \A i : Place(iRdStart + i)' = Place(iRdStart + i)
    BY <1>1, <1>3, <1>4 DEF PortInv, TypeInv, Held, Place
  <2>3. Held' - 1 = Held + dptr
    BY <1>1, <1>4, <2>2 DEF PortInv, TypeInv, Held
  <2>. QED BY <1>2, <1>3, <2>1, <2>2, <2>3 DEF Contents
<1>. QED BY <1>6, <1>7, <1>8, <1>9 DEF PortInv

LEMMA BeginInv == PortInv /\ Begin => PortInv'
<1>1. SUFFICES ASSUME PortInv, Begin PROVE PortInv'
  OBVIOUS
<1>2. ~Receiving
  BY <1>1 DEF Begin, Receiving
<1>3. /\ Held < Size /\ cbDMA' = Free - 1
      /\ UNCHANGED <<iRdStart, iRdEnd, ffRead, sent, taken>>
  BY <1>1 DEF Begin, HasRoom, ends, user
<1>4. Free \in Int /\ Free - 1 \in Nat /\ Held + Free <= Size /\ Place(iRdEnd) + Free <= Size
  BY <1>1, <1>3, SizeType DEF PortInv, TypeInv, Room, Free, Held, Place, SizeInt
<1>5. CASE latched < sent
  <2>1. /\ Receiving' /\ dptr' = 0 /\ pmdin' = latched + 1 /\ latched' = latched + 1
        /\ chen' = (Free - 1 > 0)
    BY <1>1, <1>5 DEF Begin, Receiving
  <2>2. /\ dptr' = 0 /\ pmdin' = latched + 1 /\ latched' = latched + 1
    BY <2>1
  <2>3. chen' => Free - 1 > 0
    BY <2>1, Zenon
  <2>4. TypeInv'
    BY <1>1, <1>3, <1>4, <2>2 DEF PortInv, TypeInv
  <2>5. Room'
    <3>1. Held \in Int /\ Place(iRdEnd) \in Int
      BY <1>1, SizeType DEF PortInv, TypeInv, Held, Place, SizeInt
    <3>2. Held' = Held /\ Place(iRdEnd)' = Place(iRdEnd)
      BY <1>3 DEF Held, Place
    <3>3. Held + cbDMA' + 1 <= Size /\ Place(iRdEnd) + cbDMA' + 1 <= Size
      BY <1>3, <1>4, <3>1, SizeType DEF SizeInt
    <3>. QED BY <1>1, <1>3, <3>2, <3>3 DEF PortInv, Room
  <2>6. Progress'
    BY <1>1, <1>2, <1>3, <1>4, <1>5, <2>1, <2>2, <2>3 DEF PortInv, TypeInv, Progress, Held
  <2>7. Contents'
    BY <1>1, <1>3, <2>2 DEF PortInv, Contents, Held, Place
  <2>. QED BY <2>4, <2>5, <2>6, <2>7 DEF PortInv
<1>6. CASE ~(latched < sent)
  <2>1. UNCHANGED <<irq, chen, dptr, pmdin, latched>>
    BY <1>1, <1>6 DEF Begin, chip
  <2>2. ~Receiving'
    BY <1>2, <2>1 DEF Receiving
  <2>3. TypeInv'
    BY <1>1, <1>3, <1>4, <2>1 DEF PortInv, TypeInv
  <2>4. Room' /\ Progress' /\ Contents'
    BY <1>1, <1>2, <1>3, <2>1, <2>2 DEF PortInv, Room, Progress, Contents, Held, Place
  <2>. QED BY <2>3, <2>4 DEF PortInv
<1>. QED BY <1>5, <1>6

\* Taking bytes off the front, by a read or a purge.
LEMMA Takes ==
  ASSUME PortInv, NEW n \in 0 .. Held,
         iRdStart' = Place(iRdStart + n), iRdEnd' = Wrapped(n), taken' = taken + n,
         UNCHANGED <<cbDMA, ffRead, irq, chen, dptr, pmdin, sent, latched>>
  PROVE  PortInv'
<1>1. Receiving' <=> Receiving
  BY DEF Receiving
<1>2. n \in Nat /\ iRdStart \in Nat /\ iRdEnd \in Nat /\ taken \in Nat /\ Held \in Nat /\ n <= Held
  BY DEF PortInv, TypeInv, Room, Held
<1>3. /\ iRdStart' \in Nat /\ iRdEnd' \in Nat /\ Held' = Held - n
      /\ iRdStart' < Size /\ Place(iRdEnd)' = Place(iRdEnd)
      /\ \A i \in 0 .. Held - n - 1 : Place(iRdStart + i)' = Place(iRdStart + (n + i))
  BY <1>2, SizeType DEF PortInv, TypeInv, Room, Held, Place, Wrapped, SizeInt
<1>4. TypeInv'
  BY <1>2, <1>3 DEF PortInv, TypeInv
<1>5. Room'
  <2>1. iRdStart' <= iRdEnd'
    BY <1>2, <1>3 DEF Held
  <2>. QED BY <1>1, <1>2, <1>3, <2>1, SizeType DEF PortInv, TypeInv, Room, SizeInt
<1>6. Progress'
  BY <1>1, <1>2, <1>3 DEF PortInv, TypeInv, Progress
<1>7. Contents'
  <2>1. ASSUME NEW i \in 0 .. Held - n - 1
        PROVE  ffRead[Place(iRdStart + (n + i))] = taken + n + 1 + i
    <3>1. n + i \in 0 .. Held - 1
      BY <1>2
    <3>. QED BY <1>2, <3>1 DEF PortInv, Contents
  <2>2. Receiving => \A k \in 0 .. dptr - 1 :
          ffRead[Place(iRdEnd) + k] = (taken + n) + (Held - n) + 1 + k
    BY <1>2 DEF PortInv, TypeInv, Contents
  <2>. QED BY <1>1, <1>2, <1>3, <2>1, <2>2 DEF Contents
<1>. QED BY <1>4, <1>5, <1>6, <1>7 DEF PortInv

\* What a step of the reader does.
LEMMA ReaderTakes ==
  ASSUME PortInv, Reader
  PROVE  \E n \in 0 .. Held :
           /\ iRdStart' = Place(iRdStart + n) /\ iRdEnd' = Wrapped(n) /\ taken' = taken + n
           /\ UNCHANGED <<cbDMA, ffRead, irq, chen, dptr, pmdin, sent, latched>>
           /\ got' = got \/ (n > 0 /\ got' = got \o [i \in 1 .. n |-> Byte(i)])
<1>1. Held \in Nat /\ iRdStart \in Nat /\ iRdEnd = iRdStart + Held
  BY DEF PortInv, TypeInv, Room, Held
<1>2. ASSUME NEW n \in 1 .. Held, Read(n)
      PROVE  /\ iRdStart' = Place(iRdStart + n) /\ iRdEnd' = Wrapped(n) /\ taken' = taken + n
             /\ UNCHANGED <<cbDMA, ffRead, irq, chen, dptr, pmdin, sent, latched>>
             /\ got' = got \o [i \in 1 .. n |-> Byte(i)]
  BY <1>2 DEF Read, chip
<1>3. ASSUME Discard
      PROVE  /\ iRdStart' = Place(iRdStart + Held) /\ iRdEnd' = Wrapped(Held)
             /\ taken' = taken + Held /\ got' = got
             /\ UNCHANGED <<cbDMA, ffRead, irq, chen, dptr, pmdin, sent, latched>>
  <2>1. iRdStart' = Place(iRdEnd) /\ iRdEnd' = Place(iRdEnd) /\ Place(iRdEnd) \in Int
    BY <1>1, <1>3, SizeType DEF Discard, Place, SizeInt
  <2>2. Wrapped(Held) = Place(iRdEnd)
    BY <1>1, <2>1 DEF Wrapped
  <2>. QED BY <1>1, <1>3, <2>1, <2>2 DEF Discard, chip
<1>4. ASSUME ReadOne \/ ReadMany
      PROVE  \E n \in 1 .. Held : Read(n)
  <2>1. CASE ReadOne
    BY <1>1, <2>1 DEF ReadOne
  <2>2. CASE ReadMany
    <3>1. (IF Held < InputSize THEN Held ELSE InputSize) \in 1 .. Held
      BY <1>1, <2>2, SizeType DEF ReadMany, SizeInt
    <3>. QED BY <2>2, <3>1 DEF ReadMany
  <2>. QED BY <1>4, <2>1, <2>2
<1>5. CASE EnableIO \/ Purge
  <2>1. Discard
    BY <1>5 DEF EnableIO, Purge
  <2>. QED BY <1>1, <1>3, <2>1
<1>6. CASE ReadOne \/ ReadMany
  <2>1. PICK n \in 1 .. Held : Read(n)
    BY <1>4, <1>6
  <2>2. n \in 0 .. Held /\ n > 0
    BY <1>1
  <2>. QED BY <1>2, <2>1, <2>2
<1>. QED BY <1>5, <1>6 DEF Reader

LEMMA NextPortInv == PortInv /\ [PortNext]_portVars => PortInv'
<1>1. SUFFICES ASSUME PortInv, [PortNext]_portVars PROVE PortInv'
  OBVIOUS
<1>2. CASE Reader
  BY <1>1, <1>2, ReaderTakes, Takes
<1>3. CASE UNCHANGED portVars
  <2>1. /\ UNCHANGED <<iRdStart, iRdEnd, cbDMA, ffRead, irq, chen, dptr, pmdin, sent, latched, taken>>
    BY <1>3 DEF portVars
  <2>. QED BY <1>1, <2>1 DEF PortInv, TypeInv, Room, Progress, Contents, Held, Place, Receiving
<1>. QED BY <1>1, <1>2, <1>3, SendInv, MoveInv, OthersInv, FinishInv, BeginInv DEF PortNext, PeriodicTask

\* There is always room for the bytes the DMA may move and the one in PMDIN.
THEOREM RoomIsHeld == PortSpec => []RoomHeld
<1>1. PortInv => RoomHeld
  BY DEF PortInv, TypeInv, Room, RoomHeld, Held
<1>. QED BY InitPortInv, NextPortInv, <1>1, PTL DEF PortSpec

-----------------------------------------------------------------------------

LEMMA FifoInit == PortInit => Fifo!Init
BY DEF PortInit, Fifo!Init

LEMMA FifoStep == PortInv /\ [PortNext]_portVars => [Fifo!Send \/ Fifo!Take \/ Fifo!Purge]_<<sent, taken, got>>
<1>1. SUFFICES ASSUME PortInv, [PortNext]_portVars
               PROVE  [Fifo!Send \/ Fifo!Take \/ Fifo!Purge]_<<sent, taken, got>>
  OBVIOUS
<1>2. CASE Send
  BY <1>2 DEF Send, user, Fifo!Send
<1>3. CASE Reader
  <2>1. PICK n \in 0 .. Held :
           /\ taken' = taken + n /\ UNCHANGED sent
           /\ got' = got \/ (n > 0 /\ got' = got \o [i \in 1 .. n |-> Byte(i)])
    BY <1>1, <1>3, ReaderTakes
  <2>2. /\ n \in Nat /\ taken \in Nat /\ sent \in Nat /\ Held \in Nat /\ iRdStart \in Nat
        /\ taken + Held <= sent /\ n <= Held
    BY <1>1 DEF PortInv, TypeInv, Room, Progress, Held
  <2>3. CASE n = 0
    BY <2>1, <2>2, <2>3
  <2>4. CASE n > 0
    <3>1. taken' \in Fifo!Waiting /\ taken' - taken = n
      BY <2>1, <2>2, <2>4 DEF Fifo!Waiting
    <3>2. CASE got' = got
      BY <2>1, <3>1, <3>2 DEF Fifo!Purge
    <3>3. CASE got' = got \o [i \in 1 .. n |-> Byte(i)]
      <4>1. ASSUME NEW i \in 1 .. n
            PROVE  Byte(i) = taken + i
        <5>1. i - 1 \in 0 .. Held - 1 /\ iRdStart + i - 1 = iRdStart + (i - 1)
          BY <2>2
        <5>. QED BY <1>1, <2>2, <5>1 DEF PortInv, Contents, Byte
      <4>2. [i \in 1 .. n |-> Byte(i)] = [i \in 1 .. taken' - taken |-> taken + i]
        BY <3>1, <4>1
      <4>. QED BY <2>1, <3>1, <3>3, <4>2 DEF Fifo!Take
    <3>. QED BY <2>1, <2>4, <3>2, <3>3
  <2>. QED BY <2>2, <2>3, <2>4
<1>4. CASE Move \/ OtherStarts \/ OtherEnds \/ Watch \/ Finish \/ Begin
  BY <1>4 DEF Move, OtherStarts, OtherEnds, Watch, Finish, Begin, user
<1>5. CASE UNCHANGED portVars
  BY <1>5 DEF portVars
<1>. QED BY <1>1, <1>2, <1>3, <1>4, <1>5 DEF PortNext, PeriodicTask

\* The reader gets the bytes of the host, each once and in order, whatever the reader,
\* the DMA and the other users of it do in between.
THEOREM PortIsFifo == PortSpec => ImplementsFifo
<1>. QED BY InitPortInv, NextPortInv, FifoInit, FifoStep, PTL DEF PortSpec, ImplementsFifo, Fifo!Spec

=============================================================================
