----------------------------- MODULE BinaryData -----------------------------
(***************************************************************************)
(* The binary data of JSON requests: OSPAR::StreamOS (LexJSON.cpp) takes a *)
(* request in chunks, a chunk of JSON first, runs its commands, hands the  *)
(* bytes that follow to the file that is being written (OSPAR::WriteFile,  *)
(* File.cpp), and answers in two chunks, the JSON and all that the         *)
(* commands have to send: pieces of files (OSPAR::ReadFile) and of the     *)
(* voltage ring (OSPAR::ReadVoltageLog, ADC.cpp).                          *)
(*                                                                         *)
(* The request comes in pieces that have nothing to do with the chunks,    *)
(* nor the chunks with the commands.  A count with its line ends is one    *)
(* byte here and so is the JSON text; the transports are JsonStreams.  One *)
(* step is one turn of StreamOS; a file system call that returns           *)
(* FR_WAITING_FOR_THREAD changes nothing and is no step.                   *)
(***************************************************************************)
EXTENDS Integers, Sequences, FiniteSets

CONSTANTS
  Requests,    \* the requests: commands and the number of bytes that follow
  CbInput,     \* sizeof(szInput)
  CbResp,      \* sizeof(pchJSONRespBuff)
  CbDMA,       \* CBADCDMA, in samples
  Fsize,       \* size of a file that is read
  Room,        \* what the card can take
  CSVBUFF,     \* size of the voltage ring, in samples
  CActiveCh,   \* logged channels
  Faults,      \* what goes wrong, see FaultKinds
  MaxTotal     \* bound: samples converted

FaultKinds == {"syntax", "drop", "write", "read", "close", "finishing"}
Paths == {"a.bin", "b.bin", "log"}      \* "log" is being written by a log
Commands ==
  [do : {"write"}, path : Paths, at : Nat, cb : Nat]
    \cup [do : {"read"}, path : Paths, at : Nat, cb : Nat \cup {-1}]
    \cup [do : {"log"}, at : Nat, cb : Nat \cup {-1}]

ASSUME BinaryDataAssumption ==
  /\ \A r \in Requests : r.cmds \in Seq(Commands) /\ r.bin \in Nat
  /\ {CbInput, CbResp, CbDMA, CActiveCh} \subseteq Nat \ {0} /\ {Fsize, Room} \subseteq Nat
  /\ CSVBUFF \in Nat \ {0} /\ CSVBUFF % (8 * CActiveCh) = 0
  /\ Faults \subseteq FaultKinds /\ MaxTotal \in Nat

VARIABLES
  msg,       \* what the client sends
  req,       \* the commands of the request
  io,        \* jsonIO.state
  os,        \* oslex, but the places of its own below
  fn,        \* the command in progress: its number and its curState
  idata,     \* oslex.idata: one at most, there is one WRITING entry
  odata,     \* oslex.odata, without odata[0], the JSON answer
  usage,     \* fileTask: the paths of the WRITING and READING entries
  open,      \* which of their files are open
  broken,    \* cbWrittenInProgress = -1: the write failed
  stuck,     \* the file that is written cannot be closed: its card is gone
  out,       \* pbOutput, cbOutput: what goes out next
  got,       \* what the file has been given
  sent,      \* the binary chunk of the answer
  announced, \* and its length, sent first
  log,       \* logIParam.state, csTotal; history: csTotal when a log was read
  halted     \* an ASSERT has stopped the firmware

requestVars == <<msg, req, io, os, fn, idata, odata, usage, open, broken, stuck, out, got, sent,
                 announced, log, halted>>
file == <<usage, open>>
wire == <<out, got, sent, announced>>
request == <<req, fn, idata, odata>>

NoFile == "none"
NoData == [at |-> -1, cb |-> 0]
NoOut  == [what |-> "nothing", at |-> 0, cb |-> 0]

\* OSPAR::Init
OsInit == [state |-> "Idle", nextChunk |-> "Idle", base |-> 0, iStream |-> 0, cbStream |-> 0,
           iBinary |-> 0, iBinaryDone |-> 0, write |-> FALSE,
           cbChunk |-> 0, iChunkStart |-> 0, iChunk |-> 0, iOData |-> 0, fError |-> FALSE]

RequestInit ==
  /\ msg = <<>> /\ req = <<>> /\ io = "Listening" /\ os = OsInit
  /\ fn = [i |-> 1, at |-> "Idle"] /\ idata = NoData /\ odata = <<>>
  /\ usage = [d \in {"WRITING", "READING"} |-> NoFile] /\ open = [d \in DOMAIN usage |-> FALSE]
  /\ broken = FALSE /\ stuck = FALSE /\ out = NoOut /\ got = <<>> /\ sent = <<>> /\ announced = 0
  /\ log = [state |-> "Running", csTotal |-> 0, asked |-> -1] /\ halted = FALSE

\* The sample at place p of the voltage ring: the latest one put there, if any.
InRing(p) == {n \in 0 .. log.csTotal - 1 : n % CSVBUFF = p /\ n + CSVBUFF >= log.csTotal}
Sample(p) == IF InRing(p) = {} THEN -1 ELSE CHOOSE n \in InRing(p) : TRUE

-----------------------------------------------------------------------------
(* The client.                                                             *)

Count(n) == [is |-> "count", n |-> n]
Json     == [is |-> "json", n |-> 0]
Data(n)  == [is |-> "data", n |-> n]

\* The ways to cut n bytes into chunks: the places to cut at.
InChunks(n, cuts) ==
  LET ends   == cuts \cup {n}
      size(i) == (CHOOSE e \in ends : e >= i /\ \A f \in ends : f >= i => f >= e) - (i - 1)
      one(i) == IF i = 1 \/ i - 1 \in cuts THEN <<Count(size(i)), Data(i)>> ELSE <<Data(i)>>
      upTo[i \in 0 .. n] == IF i = 0 THEN <<>> ELSE upTo[i - 1] \o one(i)
  IN  upTo[n]
Messages(n) ==
  IF n = 0 THEN {<<Json>>}
  ELSE {<<Count(1), Json>> \o InChunks(n, cuts) \o <<Count(0)>> : cuts \in SUBSET (1 .. n - 1)}

\* The first byte of a request; a new request finds everything as OSPAR::Init leaves it.
Listen(r) ==
  /\ io = "Listening"
  /\ msg' \in Messages(r.bin) /\ req' = r.cmds
  /\ os' = [OsInit EXCEPT !.cbStream = 1, !.nextChunk = "ParseJSON",
                          !.state = IF r.bin = 0 THEN "ParseJSON" ELSE "ReadCount"]
  /\ io' = "CONTINUE" /\ fn' = [i |-> 1, at |-> "Idle"] /\ idata' = NoData /\ odata' = <<>>
  /\ out' = NoOut /\ got' = <<>> /\ sent' = <<>> /\ announced' = 0
  /\ log' = [log EXCEPT !.asked = -1]
  /\ UNCHANGED <<file, broken, halted, stuck>>

\* As many bytes as there are, up to the size of szInput.
Receive(n) ==
  /\ io = "READ" /\ os.base + n <= Len(msg)
  /\ os' = [os EXCEPT !.cbStream = n] /\ io' = "CONTINUE"
  /\ UNCHANGED <<msg, request, file, broken, wire, log, halted, stuck>>

\* What is written out is read when it goes out.
Transmit ==
  /\ io = "WRITE" /\ io' = "CONTINUE"
  /\ CASE out.what = "count"  -> announced' = out.cb /\ UNCHANGED sent
       [] out.what = "file"   -> /\ sent' = sent \o [i \in 1 .. out.cb |-> <<"file", out.at + i>>]
                                 /\ UNCHANGED announced
       [] out.what = "log"    -> /\ sent' = sent \o [i \in 1 .. out.cb |-> <<"log", Sample(out.at + i - 1)>>]
                                 /\ UNCHANGED announced
       [] OTHER               -> UNCHANGED <<sent, announced>>
  /\ out' = NoOut
  /\ UNCHANGED <<msg, request, os, file, broken, got, log, halted, stuck>>

Outcomes(fault) == IF fault \in Faults THEN BOOLEAN ELSE {TRUE}      \* does a call succeed?
NoneHeld == \A d \in DOMAIN usage : usage[d] = NoFile

\* The client is gone when it is written to: OSPAR::ProcessJSON gives up.
Drop ==
  /\ io = "WRITE" /\ (NoneHeld \/ "drop" \in Faults)
  /\ io' = "Listening" /\ os' = OsInit /\ out' = NoOut
  /\ UNCHANGED <<msg, request, file, broken, got, sent, announced, log, halted, stuck>>

-----------------------------------------------------------------------------
(* The log.  Nobody else looks at the ring, so it only moves while a       *)
(* request that reads it is in progress, and then as far as it will: it    *)
(* does not wait for a client that is slow to take the answer.             *)

Convert ==
  /\ \E i \in DOMAIN req : req[i].do = "log"
  /\ io # "Listening" /\ log.state # "Stopped" /\ log.csTotal + CActiveCh <= MaxTotal
  /\ log' = [log EXCEPT !.csTotal = @ + CActiveCh]
  /\ UNCHANGED <<msg, request, io, os, file, broken, wire, halted, stuck>>

Stop ==
  /\ log.state = "Running"
  /\ log' = [log EXCEPT !.state = IF "finishing" \in Faults THEN "Finishing" ELSE "Stopped"]
  /\ UNCHANGED <<msg, request, io, os, file, broken, wire, halted, stuck>>

-----------------------------------------------------------------------------
(* StreamOS, the request.                                                  *)

Turn(s) == io = "CONTINUE" /\ os.state = s /\ ~halted

Unit == msg[os.base + os.iStream + 1]

\* A turn that does not yield: the end of a chunk is looked at, then the end of what
\* was received.
AlwaysReads(o) == o.iStream = o.cbStream     \* mutant: also after the last chunk
NeedsData(o) == o.iStream = o.cbStream /\ o.state # "OutputJSON"
Went(o) ==
  LET i     == o.iStream - o.iChunkStart
      next  == IF o.cbChunk <= 0 THEN o
               ELSE IF i # o.cbChunk THEN [o EXCEPT !.iChunk = i]
               ELSE [o EXCEPT !.iChunk = -2, !.cbChunk = -1, !.nextChunk = o.state, !.state = "ReadCount"]
  IN  /\ os' = IF next.iStream # next.cbStream THEN next
               ELSE [next EXCEPT !.iChunkStart = IF next.cbChunk > 0 THEN @ - next.iStream ELSE @,
                                 !.base = @ + next.iStream, !.iStream = 0, !.cbStream = 0]
      /\ io' = IF NeedsData(next) THEN "READ" ELSE "CONTINUE"
Yields(o) == os' = o /\ UNCHANGED io

\* The answer is the error, and no binary data.
Failed(o) == [o EXCEPT !.state = "OutputJSON", !.fError = TRUE]

ReadCount ==
  /\ Turn("ReadCount")
  /\ IF Unit.is = "count"
     THEN /\ Went([os EXCEPT !.iStream = @ + 1, !.cbChunk = Unit.n, !.iChunk = 0,
                             !.iChunkStart = os.iStream + 1,
                             !.state = IF Unit.n = 0 THEN "OutputJSON" ELSE os.nextChunk])
          /\ UNCHANGED odata
     ELSE Went(Failed(os)) /\ odata' = <<>>
  /\ UNCHANGED <<msg, req, fn, idata, file, broken, wire, log, halted, stuck>>

\* The commands have been run.
JsonDone ==
  /\ Turn("ParseJSON") /\ Unit.is = "json" /\ fn.i > Len(req)
  /\ Went([os EXCEPT !.iStream = @ + 1, !.state = IF os.cbChunk > 0 THEN "ReadNextBinary" ELSE "OutputJSON"])
  /\ UNCHANGED <<msg, request, file, broken, wire, log, halted, stuck>>

\* The text goes wrong after some commands have been run.
SyntaxError ==
  /\ Turn("ParseJSON") /\ fn.at = "Idle" /\ (NoneHeld \/ "syntax" \in Faults)
  /\ Went(Failed(os)) /\ odata' = <<>> /\ req' = <<>>
  /\ UNCHANGED <<msg, fn, idata, file, broken, wire, log, halted, stuck>>

\* Whose bytes come next: of the file from iBinary on, of nobody until then, or an error.
ReadNextBinary ==
  /\ Turn("ReadNextBinary")
  /\ IF idata.at >= os.iBinary
     THEN /\ Went([os EXCEPT !.state = "ReadBinary", !.write = (idata.at = os.iBinary),
                             !.iBinaryDone = IF idata.at = os.iBinary THEN idata.at + idata.cb ELSE idata.at])
          /\ UNCHANGED odata
     ELSE Went(Failed(os)) /\ odata' = <<>>
  /\ UNCHANGED <<msg, req, fn, idata, file, broken, wire, log, halted, stuck>>

Least(a, b) == IF a < b THEN a ELSE b
ToEndOfStream(o) == Least(o.cbStream - o.iStream, o.iBinaryDone - o.iBinary)   \* mutant: chunks are not looked at
CbWrite(o) == Least(Least(o.cbStream - o.iStream, o.cbChunk - o.iChunk), o.iBinaryDone - o.iBinary)

Taken(o, n) == [o EXCEPT !.iStream = @ + n, !.iBinary = @ + n]

SkipBinary ==
  /\ Turn("ReadBinary") /\ ~os.write
  /\ LET o == Taken(os, CbWrite(os))
     IN  Went([o EXCEPT !.state = IF o.iBinary = o.iBinaryDone THEN "ReadNextBinary" ELSE @])
  /\ UNCHANGED <<msg, request, file, broken, wire, log, halted, stuck>>

WriteTurn == Turn("ReadBinary") /\ os.write
Closing   == CbWrite(os) = 0 \/ broken

\* fswrite: a card that is full takes less.  At the end of the file the turn yields, to
\* come back with nothing to write.
NeverYields(o) == FALSE      \* mutant: the next chunk is looked at before the file is closed
AtEndOfFile(o) == o.iBinary >= o.iBinaryDone
WriteFile ==
  /\ WriteTurn /\ open["WRITING"] /\ ~Closing
  /\ \E ok \in Outcomes("write") :
       LET n == Least(CbWrite(os), Room - Len(got))
           o == Taken(os, n)
       IN  IF ~ok THEN broken' = TRUE /\ UNCHANGED <<io, os, got>>
           ELSE /\ got' = got \o SubSeq(msg, os.base + os.iStream + 1, os.base + os.iStream + n)
                /\ IF AtEndOfFile(o) THEN Yields(o) ELSE Went(o)
                /\ UNCHANGED broken
  /\ UNCHANGED <<msg, request, file, out, sent, announced, log, halted, stuck>>

\* A close that fails is tried again.  What made it fail once, a card that is gone, makes
\* it fail each time, and then nothing changes any more.
WriteFileClose ==
  /\ WriteTurn /\ open["WRITING"] /\ Closing /\ ~stuck
  /\ \E ok \in Outcomes("close") : open' = [open EXCEPT !["WRITING"] = ~ok] /\ stuck' = ~ok
  /\ UNCHANGED <<msg, request, io, os, usage, broken, wire, log, halted>>

UsageCleared(d) == [usage EXCEPT ![d] = NoFile]
WriteFileDone ==
  /\ WriteTurn /\ ~open["WRITING"]
  /\ usage["WRITING"] # NoFile /\ usage' = UsageCleared("WRITING") /\ broken' = FALSE
  /\ halted' = (CbWrite(os) # 0)
  /\ Went([os EXCEPT !.state = "ReadNextBinary"])
  /\ UNCHANGED <<msg, request, open, wire, log, stuck>>

-----------------------------------------------------------------------------
(* The commands: FnFileWrite, FnFileRead and FnLogRead of Parse.cpp.       *)

Cmd   == req[fn.i]
At(s) == Turn("ParseJSON") /\ fn.i <= Len(req) /\ fn.at = s
Entry == IF Cmd.do = "write" THEN "WRITING" ELSE "READING"
NextCommand == [i |-> fn.i + 1, at |-> "Idle"]
Goto(s)     == [fn EXCEPT !.at = s]

\* No card, or the file, or the entry, is in use.
SetUsage ==
  /\ At("Idle") /\ Cmd.do # "log"
  /\ \/ /\ usage[Entry] = NoFile /\ Cmd.path \notin {usage[d] : d \in DOMAIN usage} \cup {"log"}
        /\ usage' = [usage EXCEPT ![Entry] = Cmd.path] /\ fn' = Goto("WaitingForResources")
     \/ fn' = NextCommand /\ UNCHANGED usage
  /\ UNCHANGED <<msg, req, io, os, idata, odata, open, broken, wire, log, halted, stuck>>

\* All that is to be sent so far.
Total  == LET sum[i \in 0 .. Len(odata)] == IF i = 0 THEN 0 ELSE sum[i - 1] + odata[i].cb
          IN  sum[Len(odata)]

\* "can we read the requested data?"
CbRead  == IF Cmd.cb = -1 THEN Fsize - Cmd.at ELSE Cmd.cb
InFile  == Cmd.at <= Fsize /\ Cmd.at + CbRead <= Fsize
OpenFile ==
  /\ At("WaitingForResources")
  /\ \/ /\ open' = [open EXCEPT ![Entry] = TRUE] /\ UNCHANGED usage
        /\ fn' = Goto(IF Cmd.do = "write" \/ InFile THEN "JSONSeekFile" ELSE "JSONClose")
     \/ fn' = NextCommand /\ usage' = UsageCleared(Entry) /\ UNCHANGED open
  /\ UNCHANGED <<msg, req, io, os, idata, odata, broken, wire, log, halted, stuck>>

SeekFile ==
  /\ At("JSONSeekFile")
  /\ \/ /\ fn' = NextCommand
        /\ IF Cmd.do = "write"
           THEN idata' = [at |-> Cmd.at, cb |-> Cmd.cb] /\ UNCHANGED odata
           ELSE /\ odata' = Append(odata, [do |-> "read", at |-> Cmd.at, cb |-> CbRead, iOut |-> 0,
                                           offset |-> Total])
                /\ UNCHANGED idata
     \/ fn' = Goto("JSONClose") /\ UNCHANGED <<idata, odata>>
  /\ UNCHANGED <<msg, req, io, os, file, broken, wire, log, halted, stuck>>

CloseFile ==
  /\ At("JSONClose")
  /\ \E ok \in Outcomes("close") :
       /\ open' = [open EXCEPT ![Entry] = ~ok] /\ halted' = ~ok
       /\ usage' = UsageCleared(Entry) /\ fn' = NextCommand
  /\ UNCHANGED <<msg, req, io, os, idata, odata, broken, wire, log, stuck>>

\* What of the ring may be sent: all of it, or while it fills, seven eighths.
NoSlop == (log.csTotal - CSVBUFF) \div CActiveCh       \* mutant: all of it also then
OldestScan ==
  IF log.state # "Running" THEN (log.csTotal - CSVBUFF) \div CActiveCh
  ELSE (log.csTotal - (7 * CSVBUFF) \div 8) \div CActiveCh
LogRead ==
  LET iStart == IF OldestScan < Cmd.at THEN Cmd.at ELSE OldestScan
      total  == log.csTotal \div CActiveCh
      iEnd   == IF Cmd.cb < 0 THEN total ELSE Least(Cmd.at + Cmd.cb, total)
  IN  /\ At("Idle") /\ Cmd.do = "log"
      /\ fn' = NextCommand
      /\ \E channels \in BOOLEAN :      \* are those asked for the ones logged?
         IF ~channels \/ iEnd <= iStart THEN UNCHANGED <<odata, log>>
         ELSE /\ odata' = Append(odata, [do |-> "log", at |-> iStart * CActiveCh, iOut |-> 0,
                                         cb |-> (iEnd - iStart) * CActiveCh, offset |-> 0])
              /\ log' = [log EXCEPT !.asked = IF @ = -1 THEN log.csTotal ELSE @]
      /\ UNCHANGED <<msg, req, io, os, idata, file, broken, wire, halted, stuck>>

-----------------------------------------------------------------------------
(* StreamOS, the answer.  Chunk 0 is the JSON, all other data chunk 1.     *)

cOData == Len(odata) + 1

OutputJSON ==
  /\ Turn("OutputJSON")
  /\ os' = [os EXCEPT !.base = @ + os.iStream, !.iStream = 0, !.iOData = 0, !.iBinary = 0,
                      !.state = IF cOData > 1 THEN "WriteChunkSize" ELSE "WriteOData"]
  /\ UNCHANGED <<msg, request, io, file, broken, wire, log, halted, stuck>>

\* Nothing to send but the JSON, the end, the length of a chunk, or more of chunk 1.
WriteChunkSize ==
  /\ Turn("WriteChunkSize")
  /\ IF os.iOData = cOData \/ cOData = 1
     THEN /\ os' = [os EXCEPT !.state = "Done"] /\ io' = "WRITE"
          /\ out' = [NoOut EXCEPT !.what = "end"]
     ELSE /\ os' = [os EXCEPT !.state = "WriteOData"]
          /\ io' = IF os.iOData <= 1 THEN "WRITE" ELSE "CONTINUE"
          /\ out' = IF os.iOData = 1 THEN [NoOut EXCEPT !.what = "count", !.cb = Total] ELSE NoOut
  /\ UNCHANGED <<msg, request, file, broken, got, sent, announced, log, halted, stuck>>

NextOData == [os EXCEPT !.state = "WriteChunkSize", !.iOData = @ + 1]
Sends     == Turn("WriteOData") /\ os.iOData > 0
O         == odata[os.iOData]

\* The JSON answer is one piece.
WriteJSONResp ==
  /\ Turn("WriteOData") /\ os.iOData = 0
  /\ os' = NextOData /\ io' = "WRITE" /\ out' = [NoOut EXCEPT !.what = "json"]
  /\ UNCHANGED <<msg, request, file, broken, got, sent, announced, log, halted, stuck>>

Out(n) == /\ odata' = [odata EXCEPT ![os.iOData].iOut = @ + n] /\ io' = "WRITE"
OfThis == O.cb - O.iOut
CbMax == Least(Least(Fsize - (O.at + O.iOut), CbResp), OfThis)

ReadFile ==
  /\ Sends /\ O.do = "read" /\ open["READING"] /\ CbMax > 0
  /\ \E ok \in Outcomes("read") :
       IF ok THEN Out(CbMax) /\ out' = [what |-> "file", at |-> O.at + O.iOut, cb |-> CbMax]
       ELSE odata' = [odata EXCEPT ![os.iOData].iOut = O.cb] /\ UNCHANGED <<io, out>>
  /\ UNCHANGED <<msg, req, fn, idata, os, file, broken, got, sent, announced, log, halted, stuck>>

ReadFileClose ==
  /\ Sends /\ O.do = "read" /\ open["READING"] /\ CbMax <= 0
  /\ \E ok \in Outcomes("close") : open' = [open EXCEPT !["READING"] = ~ok] /\ halted' = ~ok
  /\ UNCHANGED <<msg, request, io, os, usage, broken, wire, log, stuck>>

ReadFileDone ==
  /\ Sends /\ O.do = "read" /\ ~open["READING"]
  /\ usage["READING"] # NoFile /\ usage' = UsageCleared("READING")
  /\ os' = NextOData
  /\ UNCHANGED <<msg, request, io, open, broken, wire, log, halted, stuck>>

CbLog(p) == Least(Least(OfThis, CSVBUFF - p), CbDMA)
ReadVoltageLog ==
  LET start == (O.at % CSVBUFF) + O.iOut
      p     == IF start >= CSVBUFF THEN start - CSVBUFF ELSE start
  IN  /\ Sends /\ O.do = "log"
      /\ IF OfThis = 0 THEN os' = NextOData /\ UNCHANGED <<io, odata, out>>
         ELSE /\ Out(CbLog(p)) /\ out' = [what |-> "log", at |-> p, cb |-> CbLog(p)]
              /\ UNCHANGED os
      /\ UNCHANGED <<msg, req, fn, idata, file, broken, got, sent, announced, log, halted, stuck>>

Done ==
  /\ Turn("Done") /\ io' = "Listening" /\ os' = OsInit
  /\ UNCHANGED <<msg, request, file, broken, wire, log, halted, stuck>>

-----------------------------------------------------------------------------
StreamOS ==
  \/ ReadCount \/ JsonDone \/ SyntaxError \/ ReadNextBinary
  \/ SkipBinary \/ WriteFile \/ WriteFileClose \/ WriteFileDone
  \/ SetUsage \/ OpenFile \/ SeekFile \/ CloseFile \/ LogRead
  \/ OutputJSON \/ WriteChunkSize \/ WriteJSONResp
  \/ ReadFile \/ ReadFileClose \/ ReadFileDone \/ ReadVoltageLog \/ Done
Client == Transmit \/ \E n \in 1 .. CbInput : Receive(n)
RequestNext == StreamOS \/ Client \/ Drop \/ Convert \/ Stop \/ \E r \in Requests : Listen(r)

RequestSpec == RequestInit /\ [][RequestNext]_requestVars
\* The loop goes round, the file thread answers, and the client sends the whole request
\* and reads the whole answer.
FairRequestSpec == RequestSpec /\ WF_requestVars(StreamOS \/ Client)

-----------------------------------------------------------------------------
(* Properties.                                                             *)

\* Between two requests no file is open and no entry of fileTask is taken: otherwise
\* every later read or write is refused (FR_LOCKED).
GivenBack == io = "Listening" => \A d \in DOMAIN usage : usage[d] = NoFile /\ ~open[d]

\* However the request is cut into chunks and pieces, it is only refused if it has bytes
\* that no command wants; otherwise the file gets the bytes meant for it, each once and
\* in order, before it is closed.
Wanted == IF idata = NoData THEN 0 ELSE idata.at + idata.cb
BytesArrive ==
  /\ ~halted
  /\ os.state = "Done" =>
       /\ os.fError <=> req = <<>> \/ Cardinality({i \in DOMAIN msg : msg[i].is = "data"}) > Wanted
       /\ idata # NoData => got = [i \in 1 .. idata.cb |-> Data(idata.at + i)]

\* The log has gone on by more than FnLogRead leaves room for, an eighth of the ring.
Late == log.asked # -1 /\ log.csTotal > log.asked + CSVBUFF \div 8

\* What is sent is what was promised or, if that is late, a later sample in its place.
Right(item, told) ==
  item = told \/ (Late /\ item[1] = "log" /\ told[1] = "log" /\ item[2] > told[2])

\* The answer has the length that was sent ahead of it, and holds the bytes asked for and
\* the samples promised, each where the JSON says that it is, also while the ring goes
\* round: up to an eighth of the ring, after which samples may be overwritten by later
\* ones before they are sent, and neither bytes nor places change.
Promised(o) ==
  [i \in 1 .. o.cb |-> IF o.do = "read" THEN <<"file", o.at + i>> ELSE <<"log", o.at + i - 1>>]
AnswerWhole ==
  os.state = "Done" /\ Len(odata) > 0 =>
    LET all[i \in 0 .. Len(odata)] == IF i = 0 THEN <<>> ELSE all[i - 1] \o Promised(odata[i])
        whole == all[Len(odata)]
    IN  /\ Len(sent) = Len(whole) /\ announced = Len(sent)
        /\ \A k \in 1 .. Len(sent) : Right(sent[k], whole[k])
        /\ \A i \in DOMAIN odata : odata[i].offset = Len(all[i - 1])

\* "if running we have to leave a buffer to allow fill while reading" (FnLogRead): the
\* samples of a log that are sent are those the answer says they are.
SamplesKept ==
  os.state = "Done" /\ Len(odata) = 1 /\ odata[1].do = "log" => sent = Promised(odata[1])

\* Every request is answered.
RequestServed == []<>(io = "Listening")
=============================================================================
