---------------------------- MODULE CloudTarget ----------------------------
(***************************************************************************)
(* The cloud target of a log (OpenLogger/CloudTask.cpp, ADCCloudTask):     *)
(* every minSecBetweenPosts seconds it posts what has been converted since *)
(* to a ThingSpeak channel, one delta per scan, and counts it processed    *)
(* when the server says so.  The length of the body is written before the  *)
(* body.  A failed connection is tried again while the log goes on; any    *)
(* other failure ends the target.                                          *)
(*                                                                         *)
(* The task is a state machine called once per pass of the super loop; a   *)
(* pass that only waits for the network changes nothing and is no step     *)
(* here.  Conversion, the end of the log, the clock and the server         *)
(* interleave with the passes.                                             *)
(***************************************************************************)
EXTENDS Integers, Sequences

CONSTANTS
  CSVBUFF,      \* size of the voltage ring, in samples
  CActiveCh,    \* logged channels
  CsPost,       \* 960: most samples behind
  Slow,         \* secPerSampl >= minSecBetweenPosts: every scan is posted by itself
  MaxBurst,     \* bound: scans converted at a time, scans left to convert after a stop
  MaxTotal      \* bound: samples converted

ASSUME CloudTargetAssumption ==
  /\ CSVBUFF \in Nat \ {0} /\ CActiveCh \in Nat \ {0} /\ CSVBUFF % CActiveCh = 0
  /\ CsPost \in Nat \ {0} /\ CsPost < CSVBUFF /\ Slow \in BOOLEAN
  /\ MaxBurst \in Nat \ {0} /\ MaxTotal \in Nat

VARIABLES
  logState,   \* logIParam.state
  csTotal,    \* logIParam.csTotal
  rawLeft,    \* scans of the raw ring still to convert after a stop
  trg,        \* logIParam.adcTrg
  ready,      \* minSecBetweenPosts have gone by since tLastPost
  connected,  \* tcpSocketCloud
  wire,       \* the deltas of the post written so far
  reply,      \* what the server makes of the post: "none", "ok" or "refused"
  server      \* the deltas on the server

vars == <<logState, csTotal, rawLeft, trg, ready, connected, wire, reply, server>>
log  == <<logState, csTotal, rawLeft>>
net  == <<connected, wire, reply, server>>

Init ==
  /\ logState = "Running" /\ csTotal = 0 /\ rawLeft = 0
  /\ trg = [state |-> "Running", nextState |-> "Idle", stcd |-> "STCDNormal",
            csProcessed |-> 0, csBackLog |-> 0, cSampleWait |-> 0, fFinishTime |-> FALSE,
            psVCur |-> 0, csVSave |-> 0, csVSaved |-> 0,
            deltas |-> 0, out |-> <<>>, resp |-> "none"]
  /\ ready = FALSE
  /\ connected = FALSE /\ wire = <<>> /\ reply = "none" /\ server = <<>>

In(s)   == trg.state = s
FFinish == logState = "Finishing" /\ rawLeft = 0

\* The sample at place p of the voltage ring: the latest one put there.
Latest(p) == CHOOSE n \in 0 .. csTotal - 1 : n % CSVBUFF = p /\ n + CSVBUFF >= csTotal

-----------------------------------------------------------------------------
(* What goes on between the passes.                                        *)

\* At one scan per second at most, the ring holds hours: no post lasts that long.
Convert(n) ==
  /\ csTotal + n * CActiveCh <= MaxTotal
  /\ trg.state \notin {"Running", "Finishing", "Idle"} =>
       csTotal + n * CActiveCh <= trg.csProcessed + CSVBUFF
  /\ \/ logState = "Running" /\ UNCHANGED rawLeft
     \/ logState = "Finishing" /\ n <= rawLeft /\ rawLeft' = rawLeft - n
  /\ csTotal' = csTotal + n * CActiveCh
  /\ UNCHANGED <<logState, trg, ready, net>>

\* FnLogStop, the button, or csMax reached
Stop ==
  /\ logState = "Running" /\ logState' = "Finishing"
  /\ rawLeft' \in 0 .. MaxBurst /\ csTotal + rawLeft' * CActiveCh <= MaxTotal
  /\ UNCHANGED <<csTotal, trg, ready, net>>

\* The core timer goes round in 43 s, so the time since the last post looks short
\* again for 20 of them.
Clock ==
  /\ ~Slow /\ In("Running") /\ ready' = ~ready
  /\ UNCHANGED <<log, trg, net>>

\* The server takes a post when it has as many bytes as the header said, if
\* need be after the logger has given up waiting.
ServerTakes ==
  /\ reply = "none" /\ wire # <<>> /\ Len(wire) >= trg.deltas /\ trg.nextState \in {"CLDRead", "Working"}
  /\ trg.state # "CLDWrite"
  /\ reply' = "ok" /\ server' = server \o SubSeq(wire, 1, trg.deltas)
  /\ UNCHANGED <<log, trg, ready, connected, wire>>

ServerRefuses ==
  /\ reply = "none" /\ trg.state = "CLDRead"
  /\ reply' = "refused"
  /\ UNCHANGED <<log, trg, ready, connected, wire, server>>

-----------------------------------------------------------------------------
(* The passes of ADCCloudTask.                                             *)

Goto(s) == trg' = [trg EXCEPT !.state = s]
Behind  == csTotal - trg.csProcessed

Done ==
  /\ In("Running") /\ FFinish /\ csTotal = trg.csProcessed
  /\ trg' = [trg EXCEPT !.state = "Finishing", !.stcd = "STCDNormal"]
  /\ UNCHANGED <<log, ready, net>>
Going == In("Running") /\ ~(FFinish /\ csTotal = trg.csProcessed)

\* The last sample of the log may wait for the next post: its time is kept.
WaitToPost ==
  /\ Going /\ ~Slow /\ ~ready
  /\ trg' = [trg EXCEPT !.fFinishTime = @ \/ FFinish, !.cSampleWait = csTotal]
  /\ UNCHANGED <<log, ready, net>>

\* A sample has come since the wait, or none will.
AtSample == Slow \/ (ready /\ (FFinish \/ csTotal > trg.cSampleWait))

\* What is behind up to the end of the ring, and the length of the post it makes.
AllBehind == Behind       \* mutant: the end of the ring is not looked at
Batch ==
  LET start == (csTotal % CSVBUFF) - Behind
  IN  IF start < 0 THEN -start ELSE Behind
NoPadding(cs) == cs \div CActiveCh      \* mutant: the padding is not counted
Deltas(cs) ==
  cs \div CActiveCh + (IF trg.fFinishTime /\ csTotal = trg.csProcessed + cs THEN 1 ELSE 0)

Post ==
  /\ Going /\ AtSample
  /\ ready' = FALSE
  /\ CASE Behind = 0 -> UNCHANGED trg
       [] Behind > CsPost -> trg' = [trg EXCEPT !.state = "Finishing", !.stcd = "STCDOverflow"]
       [] OTHER ->
            trg' = [trg EXCEPT !.state = "CLDConnect", !.csVSave = Batch, !.csVSaved = 0,
                               !.csBackLog = Batch, !.deltas = Deltas(Batch),
                               !.psVCur = (csTotal - Behind) % CSVBUFF]
  /\ UNCHANGED <<log, net>>

Write(piece, t, nextState) ==
  trg' = [t EXCEPT !.out = piece, !.nextState = nextState, !.state = "CLDWrite"]

Connect ==
  /\ In("CLDConnect")
  /\ connected' = TRUE /\ wire' = <<>> /\ reply' = "none"
  /\ Write(<<>>, trg, "CLDWriteUpdate")
  /\ UNCHANGED <<log, ready, server>>

\* Any error but that of a connection while the log goes on ends the target.
Broken == [trg EXCEPT !.stcd = "STCDError", !.nextState = IF connected THEN "Finishing" ELSE @,
                      !.state = IF connected THEN "CLDDisconnect" ELSE "Finishing"]
Fails(t) ==
  /\ trg' = t
  /\ UNCHANGED <<log, ready, connected, wire, reply, server>>

TriesForEver == [trg EXCEPT !.state = "Running"]        \* mutant: also after the end of the log
AfterRefused == IF FFinish THEN Broken ELSE [trg EXCEPT !.state = "Running"]
NoConnection == In("CLDConnect") /\ Fails(AfterRefused)

WriteUpdate ==
  /\ In("CLDWriteUpdate") /\ Write(<<>>, trg, "CLDWriteField")
  /\ UNCHANGED <<log, ready, net>>

\* One scan.  After the last one of the log comes the same scan again, with the
\* time that has gone by since.
LastOfPost(t) == t.fFinishTime /\ t.csVSaved = t.csVSave      \* mutant: of any post
Last(t) == t.fFinishTime /\ csTotal = t.csProcessed + t.csVSaved
WriteField ==
  LET pad  == trg.csVSaved # 0 /\ trg.csVSaved = trg.csVSave
      here == IF pad THEN [trg EXCEPT !.fFinishTime = FALSE, !.psVCur = @ - CActiveCh,
                                      !.csVSaved = @ - CActiveCh]
                     ELSE trg
      past == [here EXCEPT !.psVCur = @ + CActiveCh, !.csVSaved = @ + CActiveCh]
      more == Last(past) \/ past.csVSaved # past.csVSave
  IN  /\ In("CLDWriteField")
      /\ Write(<<[n |-> IF here.psVCur < CSVBUFF THEN Latest(here.psVCur) ELSE -1, pad |-> pad]>>, past,
               IF more THEN "CLDNextDelta" ELSE "CLDEndDelta")
      /\ UNCHANGED <<log, ready, net>>

NextDelta ==
  /\ In("CLDNextDelta") /\ Write(<<>>, trg, "CLDWriteField")
  /\ UNCHANGED <<log, ready, net>>

EndDelta ==
  /\ In("CLDEndDelta") /\ Write(<<>>, [trg EXCEPT !.resp = "none"], "CLDRead")
  /\ UNCHANGED <<log, ready, net>>

Written ==
  /\ In("CLDWrite")
  /\ wire' = wire \o trg.out
  /\ trg' = [trg EXCEPT !.state = trg.nextState, !.out = <<>>]
  /\ UNCHANGED <<log, ready, connected, reply, server>>
WriteFails == In("CLDWrite") /\ Fails(Broken)

ReadReply ==
  /\ In("CLDRead") /\ reply # "none" /\ trg.resp = "none"
  /\ trg' = [trg EXCEPT !.resp = reply]
  /\ UNCHANGED <<log, ready, net>>

\* The server has closed, or nothing has come for half the time between posts.
CloseRead ==
  /\ In("CLDRead")
  /\ trg' = [trg EXCEPT !.state = "CLDDisconnect", !.nextState = "Working"]
  /\ UNCHANGED <<log, ready, connected, wire, reply, server>>

Disconnected ==
  /\ In("CLDDisconnect")
  /\ connected' = FALSE /\ Goto(trg.nextState)
  /\ UNCHANGED <<log, ready, wire, reply, server>>

\* Counted when the server has said so.
CountAnyway == TRUE       \* mutant: the answer is not looked at
Succeeded == trg.resp = "ok"
Working ==
  /\ In("Working")
  /\ trg' = IF Succeeded
            THEN [trg EXCEPT !.csProcessed = @ + trg.csVSaved, !.state = "Running", !.csBackLog = 0]
            ELSE [trg EXCEPT !.stcd = "STCDError", !.state = "Finishing"]
  /\ UNCHANGED <<log, ready, net>>

Finishing ==
  /\ In("Finishing") /\ trg' = [trg EXCEPT !.state = "Idle", !.nextState = "Idle"]
  /\ UNCHANGED <<log, ready, net>>

\* ADCTargetsTask, with the target idle
LogStops ==
  /\ In("Idle") /\ logState = "Finishing" /\ logState' = "Stopped"
  /\ UNCHANGED <<csTotal, rawLeft, trg, ready, net>>

ADCCloudTask ==
  \/ Done \/ WaitToPost \/ Post \/ Connect \/ NoConnection \/ WriteUpdate \/ WriteField
  \/ NextDelta \/ EndDelta \/ Written \/ WriteFails \/ ReadReply \/ CloseRead
  \/ Disconnected \/ Working \/ Finishing \/ LogStops
Next ==
  \/ \E n \in 1 .. MaxBurst : Convert(n)
  \/ Stop \/ Clock \/ ServerTakes \/ ServerRefuses \/ ADCCloudTask

Spec == Init /\ [][Next]_vars
\* The loop goes round, time goes by, a server that has a post answers it or the
\* wait for it ends, and what was sampled before a stop is converted.
FairSpec ==
  /\ Spec /\ WF_vars(ADCCloudTask) /\ WF_vars(Clock) /\ SF_vars(Post) /\ WF_vars(ServerTakes)
  /\ \A n \in 1 .. MaxBurst : WF_vars(logState = "Finishing" /\ Convert(n))

-----------------------------------------------------------------------------
(* Properties.                                                             *)

Posting   == {"CLDConnect", "CLDWriteUpdate", "CLDWriteField", "CLDNextDelta", "CLDEndDelta",
              "CLDWrite", "CLDRead", "CLDDisconnect", "Working"}
States    == {"Running", "Finishing", "Idle"} \cup Posting
DeltaType == [n : Int, pad : BOOLEAN]
TrgType   ==
  [state : States, nextState : States, stcd : {"STCDNormal", "STCDOverflow", "STCDError"},
   csProcessed : Nat, csBackLog : Nat, cSampleWait : Nat, fFinishTime : BOOLEAN,
   psVCur : Nat, csVSave : Nat, csVSaved : Nat,
   deltas : Nat, out : Seq(DeltaType), resp : {"none", "ok", "refused"}]
TypeOK ==
  /\ logState \in {"Running", "Finishing", "Stopped"} /\ csTotal \in Nat /\ rawLeft \in Nat
  /\ trg \in TrgType
  /\ ready \in BOOLEAN /\ connected \in BOOLEAN
  /\ wire \in Seq(DeltaType) /\ reply \in {"none", "ok", "refused"} /\ server \in Seq(DeltaType)

\* The scans the server has: all its deltas but the padding, which is the last.
Scans == IF server # <<>> /\ server[Len(server)].pad THEN Len(server) - 1 ELSE Len(server)

\* Whatever is posted in pieces, tried again or refused, the server has the first
\* scans of the log, each once and in order, at most followed by the last one again
\* as the padding, and the logger counts no sample that the server does not have.
PostedOnce ==
  /\ \A k \in DOMAIN server :
       server[k] = [n |-> (IF k > Scans THEN k - 2 ELSE k - 1) * CActiveCh, pad |-> k > Scans]
  /\ Scans = 0 => server = <<>>
  /\ trg.csProcessed <= Scans * CActiveCh

\* The body written is as long as the header said, also with the padding that is
\* decided on again after the header is out.
LengthTrue == In("CLDRead") => Len(wire) = trg.deltas

\* A log that ends normally is on the server whole; and if it had to wait for its
\* last post, the last delta says how long.
NormalIsComplete ==
  In("Idle") /\ trg.stcd = "STCDNormal" =>
    /\ trg.csProcessed = csTotal /\ Scans * CActiveCh = csTotal
    /\ ~trg.fFinishTime

\* The ASSERTs of ADCCloudTask (CloudTask.cpp:248, 317, 351): a post is of whole
\* scans, and there is padding only after a log's last scan and with a whole post
\* before it.
NoAssert ==
  /\ In("CLDConnect") => trg.csVSave > 0 /\ trg.csVSave % CActiveCh = 0
  /\ In("CLDWriteField") /\ trg.csVSaved # 0 /\ trg.csVSaved = trg.csVSave =>
       trg.fFinishTime /\ trg.csVSaved >= CActiveCh /\ csTotal = trg.csProcessed + trg.csBackLog
  /\ In("CLDWrite") /\ trg.nextState = "CLDNextDelta" /\ Last(trg) => trg.csVSaved = trg.csVSave

\* A post is what its header announced: its body has that length, and no ASSERT about
\* what goes into it stops the firmware.
PostSound == LengthTrue /\ NoAssert

\* A log that is stopped gets to Stopped, whatever the network does.
CloudEnds == (logState = "Finishing") ~> (logState = "Stopped")
=============================================================================
