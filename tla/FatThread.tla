----------------------------- MODULE FatThread -----------------------------
(***************************************************************************)
(* The one file system thread all tasks share (libraries/DFATFS/DFATFS.cpp *)
(* and Threads.c).  A task calls fswrite, fsread, fsopen, ... on every     *)
(* pass of the super loop until the result is not FR_WAITING_FOR_THREAD;   *)
(* ExFatFunc starts or resumes the thread for it, or turns it away because *)
(* the thread is in a call of someone else, which it tells by the volume   *)
(* and the FatFs function.  The thread yields while the disk is busy.      *)
(*                                                                         *)
(* Reads and writes are split: each call of the thread moves one piece,    *)
(* and the DFILE method returns FR_WAITING_FOR_THREAD until all is moved.  *)
(***************************************************************************)
EXTENDS Integers, FiniteSets

CONSTANTS
  NClients,    \* the tasks, numbered in the order the super loop calls them
  Requests,    \* Requests[c]: what client c may ask for
  MaxPiece,    \* cSectorMax, in sectors
  MaxYields    \* bound: times one FatFs call yields

Clients == 1 .. NClients
None    == "FSNONE"

\* A request is a FatFs function on a volume and, for a transfer, how many
\* sectors to move and how many can be: to the end of the file that is read, or
\* until the disk is full.  Other functions move nothing.
ASSUME FatThreadAssumption ==
  /\ NClients \in Nat \ {0}
  /\ \A c \in Clients : \A r \in Requests[c] :
       /\ r.func # None /\ r.xfer \in BOOLEAN
       /\ r.size \in Nat /\ r.room \in Nat /\ (~r.xfer => r.size = 0)
  /\ MaxPiece \in Nat \ {0} /\ MaxYields \in Nat

VARIABLES
  fsFunc, curVol,  \* what the thread is in, or None
  fYielding,       \* the thread has yielded inside a call
  rgParam,         \* the call: whose it is, and the sectors asked for
  moved9,          \* rgParam[9]: sectors the last or current call moved
  yields,          \* times the current call is still going to yield
  turn,            \* the client the super loop calls next
  req,             \* req[c]: the request c is calling for, or NoReq
  bw,              \* bw[c]: sectors c was told are moved (*bw or *br)
  work             \* history: sectors moved for the present request of c

vars == <<fsFunc, curVol, fYielding, rgParam, moved9, yields, turn, req, bw, work>>

NoReq == [func |-> None, vol |-> None, xfer |-> FALSE, size |-> 0, room |-> 0]
NoCall == [client |-> 0, piece |-> 0]

Init ==
  /\ fsFunc = None /\ curVol = None /\ fYielding = FALSE
  /\ rgParam = NoCall /\ moved9 = 0 /\ yields = 0
  /\ turn = 1
  /\ req = [c \in Clients |-> NoReq]
  /\ bw = [c \in Clients |-> 0]
  /\ work = [c \in Clients |-> 0]

-----------------------------------------------------------------------------
Least(a, b) == IF a < b THEN a ELSE b

\* A piece is at most cSectorMax sectors, and never more than is left.
WholePiece(size, done) == MaxPiece              \* mutant: the last piece is too long
WholeRequest(size, done) == size - done         \* mutant: no cSectorMax
Piece(size, done) == Least(size - done, MaxPiece)

\* ExFatFunc lets a call in if the thread is free or in that very function on
\* that volume.
AnyVolume(r) == fsFunc \in {None, r.func}       \* mutant: the volume is not compared
LetIn(r) == fsFunc = None \/ (r.vol = curVol /\ r.func = fsFunc)

\* A call that is let in sets the parameters unless the thread is yielding.
Params(c, r) ==
  IF fYielding THEN rgParam
  ELSE [client |-> c, piece |-> IF r.xfer THEN Piece(r.size, bw[c]) ELSE 0]

NextTurn == turn' = IF turn = NClients THEN 1 ELSE turn + 1

\* The task of client c finds something to do.
Ask(c) ==
  /\ turn = c /\ req[c] = NoReq
  /\ \E r \in Requests[c] : req' = [req EXCEPT ![c] = r]
  /\ bw' = [bw EXCEPT ![c] = 0]
  /\ work' = [work EXCEPT ![c] = 0]
  /\ UNCHANGED <<fsFunc, curVol, fYielding, rgParam, moved9, yields, turn>>

\* The task of client c has nothing to do.
Skip(c) ==
  /\ turn = c /\ req[c] = NoReq
  /\ NextTurn
  /\ UNCHANGED <<fsFunc, curVol, fYielding, rgParam, moved9, yields, req, bw, work>>

\* FR_WAITING_FOR_THREAD, someone else has the thread.
TurnedAway(c) ==
  /\ turn = c /\ req[c] # NoReq /\ ~LetIn(req[c])
  /\ NextTurn
  /\ UNCHANGED <<fsFunc, curVol, fYielding, rgParam, moved9, yields, req, bw, work>>

\* The thread runs for c until it yields: FR_WAITING_FOR_THREAD.
Yields(c) ==
  LET r == req[c] IN
  /\ turn = c /\ r # NoReq /\ LetIn(r)
  /\ IF fYielding THEN yields > 0 /\ yields' = yields - 1 ELSE yields' \in 0 .. MaxYields - 1
  /\ curVol' = IF fYielding THEN curVol ELSE r.vol
  /\ fsFunc' = IF fYielding THEN fsFunc ELSE r.func
  /\ rgParam' = Params(c, r)
  /\ moved9' = IF fYielding \/ ~r.xfer THEN moved9 ELSE 0
  /\ fYielding' = TRUE
  /\ NextTurn
  /\ UNCHANGED <<req, bw, work>>

\* What ExFatFunc leaves behind when the FatFs call is complete.
StayIn(f) == f                                  \* mutant: fsFunc is not reset
Leave(f) == None

\* fswrite is done when all is moved or when nothing was: the disk is full.
\* fsread is done only when all is moved.
MoreOfAll(r, got, total) == r.xfer /\ total < r.size    \* mutant: a full disk is not noticed
More(r, got, total) == r.xfer /\ total < r.size /\ (r.func = "FSWRITE" => got > 0)

\* The thread completes the call in rgParam, whoever's it is, and its result
\* goes to c.
Completes(c) ==
  LET r    == req[c]
      call == Params(c, r)
      n    == Least(call.piece, req[call.client].room - work[call.client])
      got  == IF r.xfer THEN n ELSE 0
      more == More(r, got, bw[c] + got)
  IN  /\ turn = c /\ r # NoReq /\ LetIn(r)
      /\ fYielding => yields = 0
      /\ work' = [work EXCEPT ![call.client] = @ + n]
      /\ moved9' = IF r.xfer THEN n ELSE moved9
      /\ bw' = [bw EXCEPT ![c] = @ + got]
      /\ req' = IF more THEN req ELSE [req EXCEPT ![c] = NoReq]
      /\ fYielding' = FALSE /\ yields' = 0
      /\ fsFunc' = Leave(r.func) /\ curVol' = None
      /\ rgParam' = call
      /\ NextTurn

\* FatFs returns an error to c, before it moved anything.
FailsWith(c) ==
  LET r == req[c] IN
  /\ turn = c /\ r # NoReq /\ LetIn(r)
  /\ fYielding => yields = 0
  /\ req' = [req EXCEPT ![c] = NoReq]
  /\ fYielding' = FALSE /\ yields' = 0
  /\ fsFunc' = Leave(r.func) /\ curVol' = None
  /\ rgParam' = Params(c, r)
  /\ moved9' = IF fYielding \/ ~r.xfer THEN moved9 ELSE 0
  /\ NextTurn
  /\ UNCHANGED <<bw, work>>

Next == \E c \in Clients :
  Ask(c) \/ Skip(c) \/ TurnedAway(c) \/ Yields(c) \/ Completes(c) \/ FailsWith(c)

Spec == Init /\ [][Next]_vars

\* The super loop goes around.
FairSpec == Spec /\ WF_vars(Next)

-----------------------------------------------------------------------------
(* Properties.                                                             *)

Reqs == {NoReq} \cup UNION {Requests[c] : c \in Clients}

TypeOK ==
  /\ fsFunc \in {r.func : r \in Reqs} /\ curVol \in {r.vol : r \in Reqs}
  /\ fYielding \in BOOLEAN
  /\ rgParam \in [client : 0 .. NClients, piece : 0 .. MaxPiece]
  /\ moved9 \in 0 .. MaxPiece /\ yields \in 0 .. MaxYields
  /\ turn \in Clients
  /\ req \in [Clients -> Reqs]
  /\ bw \in [Clients -> Nat] /\ work \in [Clients -> Nat]

\* What a task is told is moved is what the thread moved for it, no more (it
\* would skip data) and no less (it would repeat it): the result of a call
\* never goes to another task.
OwnWork == \A c \in Clients : req[c] # NoReq => bw[c] = work[c]

\* While the thread is inside a call, the task whose call it is still wants
\* it, and the thread is taken exactly then: it cannot be left behind in a
\* call nobody asks for again.
ThreadWanted ==
  /\ fYielding <=> fsFunc # None
  /\ fYielding => LET r == req[rgParam.client] IN r.func = fsFunc /\ r.vol = curVol

\* A transfer never moves more than was asked for: ASSERT(btw >= *bw).
NotTooMuch == [][\A c \in Clients : req[c] # NoReq => bw'[c] <= req[c].size]_vars

\* Every request is served, however often the others come back and however full the
\* disk is, beside a read that wants more than the file has; which alone is not.
PastTheEnd(r) == r.func = "FSREAD" /\ r.xfer /\ r.room < r.size
Served == \A c \in Clients : req[c] # NoReq /\ ~PastTheEnd(req[c]) ~> req[c] = NoReq

=============================================================================
