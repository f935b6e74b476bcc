---------------------------- MODULE JsonStreams ----------------------------
(***************************************************************************)
(* JSON commands from the serial port and from HTTP POSTs                  *)
(* (OpenLogger/LexJSON.cpp, JsonIO.cpp, OSSerial.cpp and                   *)
(* libraries/HTTPServer).  One lexer, oslex, serves every stream: a stream *)
(* that has input takes fLocked and keeps it until its answer is out.  The *)
(* debug prints take the same lock, for they use the serial port too.  The *)
(* POSTs share one JSONPost stream: a client owns it from the start of its *)
(* page to the end of its connection (pClientMutex), and the page and the  *)
(* stream pass reads and writes to each other in lexState, nextState and   *)
(* nextCMD.                                                                *)
(*                                                                         *)
(* turn follows the super loop: one client is processed, then the serial   *)
(* stream, the POST stream and the prints.                                 *)
(* Nothing that comes from outside is seen before the loop looks for it:   *)
(* what the network brought is taken in by DEIPcK::periodicTasks between   *)
(* the clients and the streams, and input of the serial port, the end of a *)
(* DMA and new prints matter only where they are polled.  They happen      *)
(* there, in any number.                                                   *)
(***************************************************************************)
EXTENDS Integers, Sequences, FiniteSets

CONSTANTS
  Clients,    \* connections; each makes one POST
  Unsteady,   \* clients that may leave, fall silent or send a POST without a body
  NSlots,     \* cMaxSocketsToListen: clients served at a time
  Pieces,     \* bound: pieces a command arrives in
  NPrints,    \* bound: debug prints
  MaxBegun,   \* bound: clients, serial commands and prints in all
  Mishaps     \* see MishapKinds

\* What may go wrong beyond what a run always has:
\*   "drop"      a client goes away, or falls silent, in the middle of its command
\*   "give up"   a client goes away while it waits for another's POST
\*   "headless"  a POST without a Content-Length comes while other commands run
\*   "shutdown"  the server shuts down during a POST
\*   "early"     a POST has an error before its end
MishapKinds == {"drop", "give up", "headless", "shutdown", "early"}

ASSUME JsonStreamsAssumption ==
  /\ IsFiniteSet(Clients) /\ Clients \cap {"nobody", "serial"} = {}
  /\ Unsteady \subseteq Clients /\ NSlots \in Nat \ {0}
  /\ Pieces \in Nat \ {0, 1} /\ NPrints \in Nat /\ MaxBegun \in Nat /\ Mishaps \subseteq MishapKinds

VARIABLES
  turn,    \* which part of the super loop is next
  client,  \* the clients: how far they are and what they have sent
  port,    \* the sender on the serial port
  answer,  \* history: for each client and "serial", the commands answered to it
  slots,   \* rgClient
  next,    \* iNextClientToProcess
  post,    \* the JSONPost stream and its mutex
  io,      \* state of each stream: jsonIO.state
  lex,     \* oslex: input in hand, input taken, writes left
  locked,  \* oslex.fLocked
  tx,      \* what the serial DMA is sending
  print,   \* debug prints waiting, and whether one is in the DMA (cbDMA)
  trap     \* the firmware stopped in an ASSERT

world == <<client, port>>
http  == <<slots, next>>
vars  == <<turn, client, port, answer, slots, next, post, io, lex, locked, tx, print, trap>>

Streams == {"serial", "post"}
Nobody  == "nobody"
NoSlot  == -1

\* The pieces of a POST: lines of the header and, numbered from 1, the body.
Url == -2
ContentLength == -1
Blank == 0
Header(kind) == IF kind = "headless" THEN <<Url, Blank>> ELSE <<Url, ContentLength, Blank>>
Wire(c) ==
  LET body == IF client[c].kind = "empty" THEN <<>> ELSE [k \in 1 .. Pieces |-> k]
      all  == Header(client[c].kind) \o body
  IN  [k \in DOMAIN all |-> [of |-> c, n |-> all[k]]]

EmptySlot == [c |-> Nobody, state |-> "READINPUT", next |-> "PROCESSHTML", page |-> "none",
              html |-> "HTTPSTART", buf |-> <<>>, out |-> Nobody]
NewLexer  == [in |-> <<>>, got |-> <<>>, out |-> 0, output |-> FALSE]

NewPost == [mutex |-> NoSlot, avail |-> 0, lexState |-> "LEXNONE", nextState |-> "LEXNONE",
            nextCMD |-> "CONTINUE", first |-> FALSE, writing |-> FALSE]

\* main has enabled both streams: EnableIO.
Init ==
  /\ turn = "client"
  /\ client = [c \in Clients |-> [conn |-> "new", kind |-> "json", sent |-> 0, read |-> 0]]
  /\ port = [sent |-> 0, read |-> 0, writing |-> FALSE]
  /\ answer = [a \in Clients \cup {"serial"} |-> <<>>]
  /\ slots = [i \in 0 .. NSlots - 1 |-> EmptySlot] /\ next = 0
  /\ post = NewPost
  /\ io = [s \in Streams |-> "JSONListening"]
  /\ lex = NewLexer /\ locked = FALSE
  /\ tx = "none" /\ print = [wait |-> 0, dma |-> FALSE, left |-> NPrints]
  /\ trap = FALSE

Following == [client |-> "serial", serial |-> "post",
              post |-> "print", print |-> "client"]
Turn(t) == turn = t /\ ~trap /\ turn' = Following[t]

\* The command in the lexer: the sender of the first piece it took.
Owner == IF lex.got = <<>> THEN Nobody ELSE lex.got[1].of
Running(s) == io[s] # "JSONListening"

-----------------------------------------------------------------------------
(* The clients and the serial port.                                        *)

SlotOf(c) == {i \in DOMAIN slots : slots[i].c = c}
PortBusy == port.sent > 0 /\ (Len(answer["serial"]) < 2 \/ Running("serial"))
Busy     == (\E c \in Clients : SlotOf(c) # {}) \/ PortBusy \/ print.wait > 0 \/ print.dma
Begun    == Cardinality({c \in Clients : client[c].conn # "new"})
              + (IF port.sent > 0 THEN 1 ELSE 0) + NPrints - print.left

Network == turn = "serial" /\ ~trap

\* Room for one more, and no POST without a Content-Length beside it.
Lone == \E c \in Clients : SlotOf(c) # {} /\ client[c].kind = "headless"
MayBegin == Begun < MaxBegun /\ (Lone => "headless" \in Mishaps)

\* CHECKING: a connection gets the next free slot; it waits while there is none.
\* Its URL and header come with it or later.
Free      == {i \in DOMAIN slots : slots[i].c = Nobody}
Nearest(S) == LET Steps(i) == (i - next) % NSlots
              IN  CHOOSE i \in S : \A j \in S : Steps(i) <= Steps(j)

Connect(c, kind) ==
  /\ Network /\ Free # {} /\ MayBegin
  /\ client[c].conn = "new"
  /\ c \notin Unsteady => kind = "json"
  /\ kind = "headless" => "headless" \in Mishaps \/ ~Busy
  /\ client' = [client EXCEPT ![c].conn = "open", ![c].kind = kind]
  /\ slots' = [slots EXCEPT ![Nearest(Free)] = [EmptySlot EXCEPT !.c = c]]
  /\ UNCHANGED <<turn, port, answer, next, post, io, lex, locked, tx, print, trap>>

Send(c) ==
  /\ Network
  /\ client[c].conn = "open" /\ client[c].sent < Len(Wire(c))
  /\ \E n \in client[c].sent + 1 .. Len(Wire(c)) :
       /\ Wire(c)[n].n \in {Url, Blank} \cup 1 .. Pieces
       /\ client' = [client EXCEPT ![c].sent = n]
  /\ UNCHANGED <<turn, port, answer, slots, next, post, io, lex, locked, tx, print, trap>>

\* Where a client is when it goes away.
WaitsForMutex(c) == \E i \in SlotOf(c) : slots[i].page = "post" /\ slots[i].html = "HTTPSTART"
InCommand(c)     == \E i \in SlotOf(c) : post.mutex = i /\ slots[i].html \in {"JSONLEX", "WRITEHTTP", "WRITEJSON"}
MayLeave(c) ==
  /\ Network
  /\ WaitsForMutex(c) => "give up" \in Mishaps
  /\ InCommand(c) => "drop" \in Mishaps

Leave(c) ==
  /\ Network
  /\ c \in Unsteady /\ client[c].conn = "open" /\ MayLeave(c)
  /\ client' = [client EXCEPT ![c].conn = "gone"]
  /\ UNCHANGED <<turn, port, answer, slots, next, post, io, lex, locked, tx, print, trap>>

SendSerial ==
  /\ turn = "serial" /\ ~trap
  /\ port.sent = 0 => MayBegin
  /\ \E n \in port.sent + 1 .. Pieces : port' = [port EXCEPT !.sent = n]
  /\ UNCHANGED <<turn, client, answer, slots, next, post, io, lex, locked, tx, print, trap>>

TxDone ==
  /\ turn \in {"serial", "print"} /\ ~trap
  /\ tx # "none" /\ tx' = "none"
  /\ UNCHANGED <<turn, client, port, answer, slots, next, post, io, lex, locked, print, trap>>

DebugPrint ==
  /\ turn = "print" /\ ~trap
  /\ print.left > 0 /\ MayBegin
  /\ print' = [print EXCEPT !.left = @ - 1, !.wait = @ + 1]
  /\ UNCHANGED <<turn, client, port, answer, slots, next, post, io, lex, locked, tx, trap>>

-----------------------------------------------------------------------------
(* The HTTP server: ProcessServer, one client of ProcessClient per pass.   *)

\* SHUTDOWN, ENDPASS1: the slots are emptied and no page is told.  What is in a slot
\* stays until a client gets it, and is seen as long as the mutex points to it.
Shutdown ==
  /\ Network
  /\ Free # DOMAIN slots
  /\ post.mutex = NoSlot \/ "shutdown" \in Mishaps
  /\ slots' = [i \in DOMAIN slots |-> IF i = post.mutex THEN [slots[i] EXCEPT !.c = Nobody] ELSE EmptySlot]
  /\ client' = [c \in Clients |-> IF client[c].conn = "open" THEN [client[c] EXCEPT !.conn = "gone"]
                                                             ELSE client[c]]
  /\ UNCHANGED <<turn, port, answer, next, post, io, lex, locked, tx, print, trap>>

Serve(i) ==
  /\ Turn("client") /\ Free # DOMAIN slots
  /\ i = Nearest(DOMAIN slots \ Free) /\ next' = (i + 1) % NSlots
NoClient ==
  /\ Turn("client") /\ Free = DOMAIN slots
  /\ UNCHANGED <<world, answer, http, post, io, lex, locked, tx, print, trap>>

Lost(i)   == client[slots[i].c].conn = "gone"
Unread(i) == LET c == slots[i].c IN SubSeq(Wire(c), client[c].read + 1, client[c].sent)

\* HTTPDISCONNECT and DONE of ComposeHTMLPostCmd.  nextCMD and fFirstWrite stay
\* as they are until LEXAVAILABLE and ENDHDR set them, and nothing looks at them
\* before: here they go back to what they were.
Disconnected(i) == [NewPost EXCEPT !.mutex = IF post.mutex = i THEN NoSlot ELSE post.mutex]

Closes(i, how) ==
  /\ slots' = [slots EXCEPT ![i] = EmptySlot]
  /\ post' = IF slots[i].page = "post" THEN Disconnected(i) ELSE post
  /\ client' = [client EXCEPT ![slots[i].c] =
                 [conn |-> IF @.conn = "open" THEN how ELSE @.conn, kind |-> @.kind, sent |-> 0, read |-> 0]]
  /\ UNCHANGED <<port, answer, io, lex, locked, tx, print, trap>>

\* STOPCLIENT, at once when the connection is lost
StopClient(i) ==
  /\ Serve(i) /\ (Lost(i) \/ slots[i].state = "STOPCLIENT")
  /\ Closes(i, "closed")

At(i, state) == Serve(i) /\ ~Lost(i) /\ slots[i].state = state
Goto(i, state) == slots' = [slots EXCEPT ![i].state = state]

\* The URL decides the page: WAITCMD, DISPLAYTIME.
ReadInput(i) ==
  /\ At(i, "READINPUT")
  /\ IF Unread(i) # <<>>
     THEN /\ slots' = [slots EXCEPT ![i].buf = @ \o Unread(i), ![i].page = "post",
                                    ![i].state = slots[i].next, ![i].next = ""]
          /\ client' = [client EXCEPT ![slots[i].c].read = client[slots[i].c].sent]
     ELSE UNCHANGED <<slots, client>>
  /\ UNCHANGED <<port, answer, post, io, lex, locked, tx, print, trap>>

\* secClientTO: nothing came.  With a part of a header line in the buffer the
\* page is called first; without it the client is stopped at once.
TimeOut(i) ==
  /\ At(i, "READINPUT") /\ Unread(i) = <<>> /\ slots[i].c \in Unsteady
  /\ InCommand(slots[i].c) => "drop" \in Mishaps
  /\ \/ Closes(i, "gone")
     \/ /\ slots[i].next = "PARSENEXTLINE"
        /\ post' = Disconnected(i) /\ Goto(i, "STOPCLIENT")
        /\ client' = [client EXCEPT ![slots[i].c].conn = "gone"]
        /\ UNCHANGED <<port, answer, io, lex, locked, tx, print, trap>>

ParseNextLine(i) ==
  /\ At(i, "PARSENEXTLINE")
  /\ slots' = IF slots[i].buf # <<>>
              THEN [slots EXCEPT ![i].state = "PROCESSHTML"]
              ELSE [slots EXCEPT ![i].state = "READINPUT", ![i].next = "PARSENEXTLINE"]
  /\ UNCHANGED <<world, answer, post, io, lex, locked, tx, print, trap>>

WriteBuffer(i) ==
  /\ At(i, "WRITEBUFFER")
  /\ answer' = [answer EXCEPT ![slots[i].c] = Append(@, slots[i].out)]
  /\ slots' = [slots EXCEPT ![i].state = "PROCESSHTML", ![i].out = Nobody]
  /\ UNCHANGED <<world, post, io, lex, locked, tx, print, trap>>

-----------------------------------------------------------------------------
(* PROCESSHTML: the page ComposeHTMLPostCmd.                               *)

InPage(i, html) == At(i, "PROCESSHTML") /\ slots[i].html = html
Obey == [CONTINUE |-> "PROCESSHTML", READ |-> "READINPUT", GETLINE |-> "PARSENEXTLINE",
         WRITE |-> "WRITEBUFFER", DONE |-> "STOPCLIENT"]
Returns(i, cmd, html) ==
  slots' = [slots EXCEPT ![i].html = html, ![i].state = Obey[cmd],
                         ![i].next = IF cmd = "READ" THEN "PROCESSHTML" ELSE ""]
Local == <<world, answer, io, lex, locked, tx, print, trap>>

MutexFree == post.mutex = NoSlot

HttpStart(i) ==
  /\ InPage(i, "HTTPSTART")
  /\ IF MutexFree
     THEN /\ post' = [post EXCEPT !.mutex = i, !.nextState = "LEXNONE"]
          /\ Returns(i, "GETLINE", "CONTLEN")
     ELSE /\ UNCHANGED post /\ Returns(i, "CONTINUE", "HTTPSTART")
  /\ UNCHANGED Local

\* The page has looked at the line at the front of the buffer.
Line(i) == Head(slots[i].buf).n
ReturnsPast(i, cmd, html) ==
  slots' = [slots EXCEPT ![i].buf = Tail(@), ![i].html = html, ![i].state = Obey[cmd],
                         ![i].next = IF cmd = "READ" THEN "PROCESSHTML" ELSE ""]

ContLen(i) ==
  /\ InPage(i, "CONTLEN")
  /\ CASE Line(i) = Blank         -> ReturnsPast(i, "CONTINUE", "JMPFILENOTFOUND")
       [] Line(i) = ContentLength -> ReturnsPast(i, "GETLINE", "ENDHDR")
       [] OTHER                   -> ReturnsPast(i, "GETLINE", "CONTLEN")
  /\ UNCHANGED <<post, Local>>

\* What follows the header in the buffer is the start of the body.
EndHdr(i) ==
  /\ InPage(i, "ENDHDR")
  /\ LET cmd == IF Len(slots[i].buf) = 1 THEN "READ" ELSE "CONTINUE" IN
     IF client[slots[i].c].kind = "empty"
     THEN ReturnsPast(i, cmd, "HTTPDISCONNECT") /\ UNCHANGED post
     ELSE /\ ReturnsPast(i, cmd, "JSONLEX")
          /\ post' = [post EXCEPT !.avail = 0, !.lexState = "LEXAVAILABLE", !.first = TRUE]
  /\ UNCHANGED Local

\* The page and the stream take turns: LEXWAIT does what the stream asked for.
JsonLex(i) ==
  /\ InPage(i, "JSONLEX")
  /\ CASE post.lexState \in {"LEXAVAILABLE", "LEXLISTEN"} ->
            /\ post' = [post EXCEPT !.avail = IF post.lexState = "LEXAVAILABLE"
                                              THEN @ + Len(slots[i].buf) ELSE @,
                                    !.nextState = "LEXWAIT", !.nextCMD = "CONTINUE",
                                    !.lexState = "LEXWAIT"]
            /\ Returns(i, "CONTINUE", "JSONLEX") /\ UNCHANGED trap
       [] post.lexState = "LEXWAIT" ->
            /\ post' = [post EXCEPT !.lexState = post.nextState]
            /\ Returns(i, post.nextCMD, "JSONLEX") /\ UNCHANGED trap
       [] OTHER -> trap' = TRUE /\ UNCHANGED <<slots, post>>
  /\ UNCHANGED <<world, answer, io, lex, locked, tx, print>>

HeaderForgotten == post   \* mutant: fFirstWrite is not reset
HeaderWritten == [post EXCEPT !.first = FALSE]

WriteHttp(i) ==
  /\ InPage(i, "WRITEHTTP")
  /\ post' = HeaderWritten
  /\ slots' = [slots EXCEPT ![i].html = "WRITEJSON", ![i].state = "WRITEBUFFER", ![i].out = Owner]
  /\ UNCHANGED Local

WriteJson(i) ==
  /\ InPage(i, "WRITEJSON")
  /\ post' = [post EXCEPT !.nextState = "LEXLISTEN", !.nextCMD = "CONTINUE"]
  /\ Returns(i, "CONTINUE", "JSONLEX")
  /\ UNCHANGED Local

\* JMPFILENOTFOUND: the lexer is initialized whoever uses it; the 404 page
\* answers and is done.
FileNotFound(i) ==
  /\ InPage(i, "JMPFILENOTFOUND")
  /\ post' = [post EXCEPT !.mutex = NoSlot]
  /\ lex' = NewLexer /\ locked' = FALSE
  /\ slots' = [slots EXCEPT ![i].page = "404", ![i].state = "STOPCLIENT"]
  /\ UNCHANGED <<world, answer, io, tx, print, trap>>

Disconnect(i) ==
  /\ InPage(i, "HTTPDISCONNECT")
  /\ post' = Disconnected(i) /\ Returns(i, "DONE", "HTTPDISCONNECT")
  /\ UNCHANGED Local

ProcessClient(i) ==
  \/ StopClient(i) \/ ReadInput(i) \/ TimeOut(i)
  \/ ParseNextLine(i) \/ WriteBuffer(i) \/ HttpStart(i) \/ ContLen(i) \/ EndHdr(i)
  \/ JsonLex(i) \/ WriteHttp(i) \/ WriteJson(i) \/ FileNotFound(i) \/ Disconnect(i)

-----------------------------------------------------------------------------
(* ProcessJSON, for the serial stream and the POST stream.                 *)

\* The pieces a stream has: of a POST, the last avail of the client's buffer.  More
\* than the buffer holds are read from before it: only after a shutdown.
Stray == [k \in 1 .. post.avail |-> [of |-> Nobody, n |-> Blank]]
Input(s) ==
  IF s = "serial" THEN [k \in 1 .. port.sent - port.read |-> [of |-> "serial", n |-> port.read + k]]
  ELSE IF post.mutex = NoSlot THEN <<>>
  ELSE LET buf == slots[post.mutex].buf
       IN  IF post.avail <= Len(buf) THEN SubSeq(buf, Len(buf) - post.avail + 1, Len(buf)) ELSE Stray

Take(s, n) ==
  IF s = "serial" THEN port' = [port EXCEPT !.read = @ + n] /\ UNCHANGED post
                  ELSE post' = [post EXCEPT !.avail = @ - n] /\ UNCHANGED port

\* Available() of an empty POST stream asks the page for a READ.
AskForMore(s) ==
  IF s = "post" /\ post.mutex # NoSlot /\ post.avail = 0 /\ post.nextState = "LEXWAIT"
  THEN /\ post' = [post EXCEPT !.nextState = "LEXAVAILABLE", !.nextCMD = "READ"]
       /\ slots' = [slots EXCEPT ![post.mutex].buf = <<>>]
  ELSE UNCHANGED <<post, slots>>

\* JSONListening: a stream with input takes the lock when it can.
MayTakeAnyway == TRUE     \* mutant: the lock is not looked at
MayTakeLock == ~locked

Listen(s) ==
  /\ Turn(s) /\ io[s] = "JSONListening"
  /\ UNCHANGED <<client, answer, next, tx, print, trap>>
  /\ IF MayTakeLock /\ Input(s) # <<>>
     THEN /\ Take(s, 1) /\ UNCHANGED slots
          /\ \E starts \in IF Head(Input(s)).n = 1 THEN {TRUE} ELSE BOOLEAN :
               IF starts
               THEN /\ lex' = [NewLexer EXCEPT !.in = <<Head(Input(s))>>]
                    /\ locked' = TRUE /\ io' = [io EXCEPT ![s] = "CONTINUE"]
               ELSE UNCHANGED <<lex, locked, io>>
     ELSE /\ IF MayTakeLock THEN AskForMore(s) ELSE UNCHANGED <<post, slots>>
          /\ UNCHANGED <<port, lex, locked, io>>

\* StreamOS: a command ends with its last piece, or with an error in it (stray
\* bytes may be one), and is answered with two writes.
EndsWith(s, piece) ==
  IF piece.n = Pieces THEN {TRUE}
  ELSE IF piece.of = Nobody \/ (s = "post" /\ "early" \in Mishaps) THEN BOOLEAN ELSE {FALSE}

Continue(s) ==
  /\ Turn(s) /\ io[s] = "CONTINUE"
  /\ IF ~lex.output
     THEN \E ends \in IF lex.in = <<>> THEN {FALSE} ELSE EndsWith(s, lex.in[Len(lex.in)]) :
            /\ lex' = [in |-> <<>>, got |-> lex.got \o lex.in, output |-> ends,
                       out |-> IF ends THEN 2 ELSE 0]
            /\ io' = [io EXCEPT ![s] = IF ends THEN "CONTINUE" ELSE "READ"]
     ELSE /\ io' = [io EXCEPT ![s] = IF lex.out > 0 THEN "WRITE" ELSE "DONE"]
          /\ UNCHANGED lex
  /\ UNCHANGED <<world, answer, http, post, locked, tx, print, trap>>

ReadMore(s) ==
  /\ Turn(s) /\ io[s] = "READ"
  /\ IF Input(s) # <<>>
     THEN \E n \in 1 .. Len(Input(s)) :
            /\ Take(s, n)
            /\ lex' = [lex EXCEPT !.in = SubSeq(Input(s), 1, n)]
            /\ io' = [io EXCEPT ![s] = "CONTINUE"]
            /\ UNCHANGED slots
     ELSE AskForMore(s) /\ UNCHANGED <<port, lex, io>>
  /\ UNCHANGED <<client, answer, next, locked, tx, print, trap>>

Written(s) ==
  /\ io' = [io EXCEPT ![s] = "CONTINUE"]
  /\ lex' = [lex EXCEPT !.out = @ - 1]

\* JSONSerial::Write: by DMA
WriteSerial ==
  /\ Turn("serial") /\ io["serial"] = "WRITE"
  /\ CASE tx # "none" -> UNCHANGED <<port, answer, io, lex, tx>>
       [] tx = "none" /\ ~port.writing ->
            /\ tx' = "answer" /\ port' = [port EXCEPT !.writing = TRUE]
            /\ UNCHANGED <<answer, io, lex>>
       [] tx = "none" /\ port.writing ->
            /\ port' = [port EXCEPT !.writing = FALSE] /\ Written("serial")
            /\ answer' = [answer EXCEPT !["serial"] = Append(@, Owner)]
            /\ UNCHANGED tx
  /\ UNCHANGED <<client, http, post, locked, print, trap>>

\* JSONPost::Write: the page writes the HTTP header first.
WritePost ==
  /\ Turn("post") /\ io["post"] = "WRITE"
  /\ CASE post.mutex = NoSlot ->
            io' = [io EXCEPT !["post"] = "ERROR"] /\ UNCHANGED <<slots, post, lex>>
       [] post.mutex # NoSlot /\ post.nextState # "LEXWAIT" -> UNCHANGED <<slots, post, io, lex>>
       [] post.mutex # NoSlot /\ post.nextState = "LEXWAIT" /\ post.writing ->
            post' = [post EXCEPT !.writing = FALSE] /\ Written("post") /\ UNCHANGED slots
       [] post.mutex # NoSlot /\ post.nextState = "LEXWAIT" /\ ~post.writing /\ post.first ->
            /\ post' = [post EXCEPT !.nextState = "LEXLISTEN"]
            /\ slots' = [slots EXCEPT ![post.mutex].html = "WRITEHTTP"]
            /\ UNCHANGED <<io, lex>>
       [] OTHER ->
            /\ post' = [post EXCEPT !.nextState = "LEXLISTEN", !.nextCMD = "WRITE", !.writing = TRUE]
            /\ slots' = [slots EXCEPT ![post.mutex].out = Owner]
            /\ UNCHANGED <<io, lex>>
  /\ UNCHANGED <<world, answer, next, locked, tx, print, trap>>

\* ERROR, DONE: Done() tells whoever has the mutex by now to disconnect.
TellsNobody(s) == slots' = slots      \* mutant: the page is not told
Tells(s) ==
  slots' = IF s = "post" /\ post.mutex # NoSlot
           THEN [slots EXCEPT ![post.mutex].html = "HTTPDISCONNECT"] ELSE slots

Finish(s) ==
  /\ Turn(s) /\ io[s] \in {"ERROR", "DONE"}
  /\ io' = [io EXCEPT ![s] = "JSONListening"]
  /\ lex' = NewLexer /\ locked' = FALSE
  /\ Tells(s)
  /\ UNCHANGED <<world, answer, next, post, tx, print, trap>>

ProcessJSON(s) == Listen(s) \/ Continue(s) \/ ReadMore(s) \/ Finish(s)

\* OSSerial::PeriodicTask
PrintTask ==
  /\ Turn("print")
  /\ LET free   == locked /\ ~print.dma
         starts == tx = "none" /\ ~free /\ print.wait > 0
     IN  IF tx # "none" THEN UNCHANGED <<locked, tx, print>>
         ELSE /\ locked' = (free \/ starts)
              /\ print' = [print EXCEPT !.dma = starts, !.wait = IF starts THEN @ - 1 ELSE @]
              /\ tx' = IF starts THEN "print" ELSE tx
  /\ UNCHANGED <<world, answer, http, post, io, lex, trap>>

Loop ==
  \/ NoClient \/ \E i \in DOMAIN slots : ProcessClient(i)
  \/ \E s \in Streams : ProcessJSON(s)
  \/ WriteSerial \/ WritePost \/ PrintTask
Outside ==
  \/ \E c \in Clients : Send(c) \/ Leave(c) \/ \E kind \in {"json", "empty", "headless"} : Connect(c, kind)
  \/ SendSerial \/ TxDone \/ DebugPrint \/ Shutdown
Next == Loop \/ Outside

\* The super loop goes round; what is in the DMA goes out; a sender that has
\* begun sends all of it; a client the server waits for in vain is timed out.
\* Each of these happens a few times at most, so fairness of any is fairness of all.
Promised ==
  \/ TxDone
  \/ port.sent > 0 /\ SendSerial
  \/ \E c \in Clients : Send(c)
  \/ \E i \in DOMAIN slots : TimeOut(i)
Spec == Init /\ [][Next]_vars
FairSpec == Spec /\ WF_vars(Loop) /\ SF_vars(Promised)

-----------------------------------------------------------------------------
(* Properties.                                                             *)

Senders    == Clients \cup {"serial"}
Piece      == [of : Senders, n : Int]
ClientType == [conn : {"new", "open", "gone", "closed"}, kind : {"json", "empty", "headless"},
               sent : Nat, read : Nat]
SlotType   ==
  [c : Clients \cup {Nobody}, page : {"none", "post", "404"}, buf : Seq(Piece),
   state : {"READINPUT", "PARSENEXTLINE", "PROCESSHTML", "WRITEBUFFER", "STOPCLIENT"},
   next : {"", "PROCESSHTML", "PARSENEXTLINE"}, out : Senders \cup {Nobody},
   html : {"HTTPSTART", "CONTLEN", "ENDHDR", "JSONLEX", "WRITEHTTP", "WRITEJSON",
           "JMPFILENOTFOUND", "HTTPDISCONNECT"}]
PostType   ==
  [mutex : 0 .. NSlots - 1 \cup {NoSlot}, avail : Nat, first : BOOLEAN, writing : BOOLEAN,
   lexState : {"LEXNONE", "LEXAVAILABLE", "LEXWAIT", "LEXLISTEN"},
   nextState : {"LEXNONE", "LEXAVAILABLE", "LEXWAIT", "LEXLISTEN"},
   nextCMD : {"CONTINUE", "READ", "WRITE"}]
LexType    == [in : Seq(Piece), got : Seq(Piece), out : 0 .. 2, output : BOOLEAN]
TypeOK ==
  /\ turn \in {"client", "serial", "post", "print"}
  /\ client \in [Clients -> ClientType]
  /\ port \in [sent : Nat, read : Nat, writing : BOOLEAN]
  /\ answer \in [Senders -> Seq(Senders \cup {Nobody})]
  /\ slots \in [0 .. NSlots - 1 -> SlotType] /\ next \in 0 .. NSlots - 1
  /\ post \in PostType
  /\ io \in [Streams -> {"JSONListening", "CONTINUE", "READ", "WRITE", "ERROR", "DONE"}]
  /\ lex \in LexType /\ locked \in BOOLEAN /\ tx \in {"none", "answer", "print"}
  /\ print \in [wait : Nat, dma : BOOLEAN, left : Nat] /\ trap \in BOOLEAN

Users == {s \in Streams : Running(s)} \cup (IF print.dma THEN {"print"} ELSE {})

\* The lexer, its buffers and the serial DMA have one user at a time, and the
\* lock is held exactly as long as there is one (LexJSON.cpp:1279, 1388 and
\* OSSerial.cpp:83).
OneUser == Cardinality(Users) <= 1 /\ (locked <=> Users # {})

\* What the lexer takes for one command comes from one sender, from the start
\* and without a gap (HTMLPostCmd.cpp:86, "absolutely critical that we don't
\* process 2 JSON commands concurrently").
WholeCommands ==
  LET taken == lex.got \o lex.in
  IN  \A k \in DOMAIN taken : taken[k] = [of |-> taken[1].of, n |-> k]

\* One command at a time, and whole: the lexer has one user, which gives the lock
\* back, and nothing of another command comes between (HTMLPostCmd.cpp:86).
OneCommand == OneUser /\ WholeCommands

\* A client gets the header and the answer of its own POST, and the serial port
\* the answer of its command.
AnswersGoHome ==
  /\ \A c \in Clients : Len(answer[c]) <= 3 /\ \A k \in DOMAIN answer[c] : answer[c][k] = c
  /\ Len(answer["serial"]) <= 2 /\ \A k \in DOMAIN answer["serial"] : answer["serial"][k] = "serial"

\* No ASSERT of the page stops the firmware, and whoever sends a whole command
\* gets the whole answer: the lock and the mutex always come back.
Unserved ==
  {c \in Clients : client[c].conn \in {"open", "closed"} /\ client[c].kind = "json" /\ Len(answer[c]) < 3}
Served == []<>(~trap /\ Unserved = {} /\ ~PortBusy /\ ~locked /\ post.mutex = NoSlot)
=============================================================================
