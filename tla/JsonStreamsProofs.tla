------------------------- MODULE JsonStreamsProofs -------------------------
(***************************************************************************)
(* What TLAPS proves of JsonStreams, for any clients, slots, pieces and    *)
(* prints, as long as nothing goes wrong that the code does not handle:    *)
(* the lexer has one user at a time, which holds the lock and takes one    *)
(* whole command, and every answer goes to the sender of its command.      *)
(***************************************************************************)
EXTENDS JsonStreams, WellFoundedInduction, FiniteSetTheorems, SequenceTheorems, TLAPS

\* A client that gives up leads to an ASSERT and not to mixed commands.  Each of
\* the other mishaps breaks OneCommand and AnswersGoHome.
Handled == Mishaps \subseteq {"give up"}

-----------------------------------------------------------------------------
(* The inductive invariant.                                                *)

Slots     == 0 .. NSlots - 1
Used(i)   == slots[i].c # Nobody
Owned(i)  == client[slots[i].c]
Reply(i)  == answer[slots[i].c]
Gone(i)   == Owned(i).read - Len(slots[i].buf)     \* pieces the page has done with
HeaderAt  == {"CONTLEN", "ENDHDR"}
Exchange  == {"JSONLEX", "WRITEHTTP", "WRITEJSON"}
Talks(i)  == post.mutex = i /\ slots[i].html \in Exchange
One(b)    == IF b THEN 1 ELSE 0

\* A slot and its client: what is in the buffer, and where the page can be.
BufferInv(i) ==
  /\ Owned(i).read <= Owned(i).sent /\ Owned(i).sent <= Len(Wire(slots[i].c))
  /\ Len(slots[i].buf) <= Owned(i).read
  /\ \A k \in 1 .. Len(slots[i].buf) : slots[i].buf[k] = Wire(slots[i].c)[Gone(i) + k]

HeaderInv(i) ==
  LET s == slots[i] IN
  /\ s.page = "none" => /\ s.state = "READINPUT" /\ s.html = "HTTPSTART"
                        /\ Owned(i).read = 0 /\ s.next = "PROCESSHTML"
  /\ s.page # "none" /\ s.html = "HTTPSTART" => s.state = "PROCESSHTML"
  /\ s.html = "HTTPSTART" => Gone(i) = 0
  /\ s.html = "CONTLEN" => Gone(i) \in 0 .. 1
  /\ s.html = "ENDHDR" => Gone(i) = 2 /\ Owned(i).kind # "headless"
  /\ s.html \in HeaderAt => /\ s.state # "WRITEBUFFER"
                            /\ s.state = "READINPUT" => s.next = "PARSENEXTLINE"
                            /\ s.state = "PROCESSHTML" => s.buf # <<>>
  /\ s.html = "JMPFILENOTFOUND" => Owned(i).kind = "headless" /\ s.state \in {"PROCESSHTML", "STOPCLIENT"}
  /\ s.html \notin Exchange \cup {"HTTPDISCONNECT"} => Reply(i) = <<>>
  /\ s.page = "404" => s.state = "STOPCLIENT"

BodyInv(i) ==
  LET s == slots[i] IN
  /\ s.state = "PARSENEXTLINE" => s.html \in HeaderAt
  /\ s.state = "READINPUT" /\ s.html \notin HeaderAt => s.next = "PROCESSHTML"
  /\ s.state = "WRITEBUFFER" => s.out = s.c /\ s.html \in {"JSONLEX", "WRITEJSON", "HTTPDISCONNECT"}
  /\ s.html \in Exchange => /\ s.page = "post" /\ Owned(i).kind = "json" /\ Owned(i).conn = "open"
                            /\ Gone(i) >= 3 /\ s.state # "STOPCLIENT"
  /\ s.html \in {"WRITEHTTP", "WRITEJSON"} => s.state # "READINPUT"

SlotInv(i) == IF Used(i) THEN Owned(i).conn \in {"open", "gone"} /\ BufferInv(i) /\ HeaderInv(i) /\ BodyInv(i)
                         ELSE slots[i] = EmptySlot
Apart == \A i, j \in Slots : Used(i) /\ slots[i].c = slots[j].c => i = j
NewInv == \A c \in Clients : client[c].conn = "new" =>
            client[c].sent = 0 /\ client[c].read = 0 /\ answer[c] = <<>>

\* Who has the mutex, and what the POST stream is when no command is in it.
Holds(i) == slots[i].page = "post" /\ slots[i].html # "HTTPSTART" /\ slots[i].state # "STOPCLIENT"
MutexInv == \A i \in Slots : post.mutex = i <=> Holds(i)
Unstarted == post.mutex \in Slots => slots[post.mutex].html \in HeaderAt \cup {"JMPFILENOTFOUND"}
RestInv  == /\ Unstarted => post = [NewPost EXCEPT !.mutex = post.mutex]
            /\ \A i \in Slots : post.mutex = i /\ slots[i].html = "HTTPDISCONNECT" => post.avail = 0

\* How page and stream hand over to each other.  Another client that closes puts
\* the stream back to LEXNONE; the page then stops at its next look.
Count    == Len(lex.got) + Len(lex.in)
Taken    == IF Running("post") THEN Count ELSE 0
Out      == IF Running("post") /\ lex.output THEN lex.out ELSE 2
Broken(i) ==
  /\ post.lexState = "LEXNONE" /\ post.nextState \in {"LEXNONE", "LEXLISTEN"} /\ post.avail = 0
  /\ slots[i].html # "JSONLEX" => io["post"] = "WRITE"
  /\ Len(Reply(i)) + One(slots[i].state = "WRITEBUFFER") + One(slots[i].html = "WRITEHTTP") <= 3
Asked(i) ==
  /\ post.lexState = "LEXAVAILABLE" /\ post.nextState \in {"LEXNONE", "LEXAVAILABLE"}
  /\ slots[i].html = "JSONLEX" /\ slots[i].state \in {"READINPUT", "PROCESSHTML"} /\ post.avail = 0
Waits(i) ==
  /\ post.lexState = "LEXWAIT" /\ slots[i].html = "JSONLEX" /\ slots[i].state = "PROCESSHTML"
  /\ \/ post.nextState = "LEXWAIT" /\ post.nextCMD = "CONTINUE"
     \/ post.nextState = "LEXAVAILABLE" /\ post.nextCMD = "READ" /\ post.avail = 0 /\ slots[i].buf = <<>>
Writes(i) ==
  /\ post.nextState = "LEXLISTEN" /\ io["post"] = "WRITE"
  /\ \/ /\ post.lexState = "LEXWAIT" /\ post.nextCMD = "CONTINUE"
        /\ (slots[i].html = "JSONLEX" => slots[i].state = "PROCESSHTML")
     \/ /\ post.lexState = "LEXWAIT" /\ post.nextCMD = "WRITE" /\ post.writing
        /\ slots[i].html = "JSONLEX" /\ slots[i].state = "PROCESSHTML" /\ slots[i].out = slots[i].c
     \/ post.lexState = "LEXLISTEN" /\ slots[i].html = "JSONLEX" /\ slots[i].state \in {"WRITEBUFFER", "PROCESSHTML"}
AllThere(i) ==
  Taken + post.avail + (IF post.lexState = "LEXAVAILABLE" THEN Len(slots[i].buf) ELSE 0) = Owned(i).read - 3
AllToCome(i) ==
  Len(Reply(i)) + One(slots[i].state = "WRITEBUFFER")
    + One(post.lexState = "LEXWAIT" /\ post.nextCMD = "WRITE") + One(post.first) + Out = 3 + One(post.writing)
Whole(i) ==
  /\ Asked(i) \/ Waits(i) \/ Writes(i)
  /\ post.writing => io["post"] = "WRITE"
  /\ slots[i].html = "WRITEHTTP" => post.first
  /\ post.avail <= Len(slots[i].buf)
  /\ AllThere(i) /\ AllToCome(i)
TalkInv == \A i \in Slots : Talks(i) => Broken(i) \/ Whole(i)

\* The lexer: one sender's pieces, from the first on.
Sender(s) == IF s = "serial" THEN "serial" ELSE slots[post.mutex].c
InTurn(s) ==
  /\ \A k \in 1 .. Len(lex.got) : lex.got[k] = [of |-> Sender(s), n |-> k]
  /\ \A k \in 1 .. Len(lex.in) : lex.in[k] = [of |-> Sender(s), n |-> Len(lex.got) + k]
  /\ IF lex.output THEN lex.in = <<>> /\ Len(lex.got) = Pieces /\ io[s] \in {"CONTINUE", "WRITE", "DONE"}
                   ELSE lex.out = 0 /\ io[s] \in {"CONTINUE", "READ"}
  /\ io[s] = "READ" => lex.in = <<>>
  /\ io[s] = "WRITE" => lex.out > 0
  /\ io[s] = "DONE" => lex.out = 0
LexInv == /\ \A s \in Streams : Running(s) => InTurn(s)
          /\ (\A s \in Streams : ~Running(s)) => lex = NewLexer
PostRuns == Running("post") => \E i \in Slots : Talks(i)

\* The serial port, the lock, and the client that comes alone.
SerialInv ==
  /\ port.read <= port.sent /\ port.sent <= Pieces
  /\ IF Running("serial")
     THEN port.read = Count /\ port.read > 0
          /\ Len(answer["serial"]) = IF lex.output THEN 2 - lex.out ELSE 0
     ELSE \/ port.read = 0 /\ answer["serial"] = <<>>
          \/ port.read = Pieces /\ Len(answer["serial"]) = 2
LockInv ==
  /\ locked <=> Running("serial") \/ Running("post") \/ print.dma
  /\ ~(Running("serial") /\ Running("post"))
  /\ print.dma => ~Running("serial") /\ ~Running("post")
LoneInv == \A i \in Slots : Used(i) /\ Owned(i).kind = "headless" =>
             /\ \A j \in Slots : Used(j) => j = i
             /\ ~PortBusy /\ print.wait = 0 /\ ~print.dma
OwnInv == \A a \in Senders : /\ Len(answer[a]) <= 3
                             /\ \A k \in 1 .. Len(answer[a]) : answer[a][k] = a
EndInv == \A i \in Slots : Used(i) /\ slots[i].html = "HTTPDISCONNECT" =>
            Len(Reply(i)) + One(slots[i].state = "WRITEBUFFER") <= 3

Inv == /\ TypeOK /\ (\A i \in Slots : SlotInv(i)) /\ Apart /\ NewInv /\ MutexInv /\ RestInv /\ TalkInv
       /\ LexInv /\ PostRuns /\ SerialInv /\ LockInv /\ LoneInv /\ OwnInv /\ EndInv

-----------------------------------------------------------------------------
(* Helpers: constants, the next client, and what is on the wire.           *)

LEMMA Consts ==
  /\ NSlots \in Nat \ {0} /\ Pieces \in Nat /\ Pieces >= 2
  /\ Nobody \notin Clients /\ "serial" \notin Clients
  /\ NoSlot \notin Slots /\ Slots \subseteq Int /\ Nobody # "serial"
BY JsonStreamsAssumption DEF Nobody, NoSlot, Slots

LEMMA MinNat ==
  ASSUME NEW T, T \subseteq Nat, T # {}
  PROVE  \E m \in T : \A n \in T : m <= n
<1> DEFINE R == OpToRel(<, Nat)
<1>1. PICK m \in T : \A n \in T : ~ (<<n, m>> \in R)
  BY WFMin, NatLessThanWellFounded, Zenon
<1>2. \A a, b \in Nat : b < a => <<b, a>> \in R
  BY DEF OpToRel
<1>3. ASSUME NEW n \in T PROVE ~(n < m)
  BY <1>1, <1>2, Zenon
<1>4. \A n \in T : m <= n
  BY <1>3
<1> QED BY <1>4

\* The search for a client ends at one of those it looks for.
LEMMA NearestIn ==
  ASSUME next \in Slots, NEW S \in SUBSET Slots, S # {}
  PROVE  Nearest(S) \in S
<1> DEFINE Steps(i) == (i - next) % NSlots
           T == {Steps(i) : i \in S}
<1>1. \A i \in Slots : Steps(i) \in Nat
  BY Consts DEF Slots
<1>2. T \subseteq Nat /\ T # {}
  BY <1>1
<1>3. PICK m \in T : \A n \in T : m <= n
  <2> HIDE DEF T
  <2> QED BY <1>2, MinNat
<1>4. PICK i \in S : m = Steps(i)
  BY <1>3
<1>5. \A j \in S : Steps(i) <= Steps(j)
  BY <1>3, <1>4
<1> QED BY <1>5, Zenon DEF Nearest

LEMMA ServeUsed ==
  ASSUME TypeOK, NEW i, Serve(i)
  PROVE  /\ i \in Slots /\ Used(i) /\ slots[i].c \in Clients
         /\ turn' = "serial" /\ ~trap /\ next' \in Slots
<1> DEFINE S == DOMAIN slots \ Free
<1>1. DOMAIN slots = Slots /\ next \in Slots
  BY DEF TypeOK, Slots
<1>2. Free # DOMAIN slots /\ i = Nearest(S) /\ next' = (i + 1) % NSlots /\ ~trap /\ turn' = "serial"
  BY DEF Serve, Turn, Following
<1>3. S \in SUBSET Slots /\ S # {}
  BY <1>1, <1>2 DEF Free
<1>4. i \in S
  <2> HIDE DEF S
  <2> QED BY <1>1, <1>2, <1>3, NearestIn
<1>5. i \in Slots /\ Used(i)
  BY <1>1, <1>4 DEF Free, Used
<1>6. next' \in Slots
  BY <1>2, <1>5, Consts DEF Slots
<1>7. slots[i].c \in Clients
  BY <1>5, <1>1 DEF TypeOK, SlotType, Used
<1> QED BY <1>2, <1>5, <1>6, <1>7

LEMMA WireIs ==
  ASSUME NEW c \in Clients, client[c].kind \in {"json", "empty", "headless"}
  PROVE  /\ Wire(c) \in Seq(Piece) /\ Len(Wire(c)) >= 2
         /\ Wire(c)[1].n = Url
         /\ client[c].kind # "headless" => Wire(c)[2].n = ContentLength /\ Len(Wire(c)) >= 3
         /\ client[c].kind = "headless" => Wire(c)[2].n = Blank
         /\ client[c].kind = "json" =>
              /\ Len(Wire(c)) = 3 + Pieces
              /\ \A k \in 1 .. Pieces : Wire(c)[3 + k] = [of |-> c, n |-> k]
<1> DEFINE kind == client[c].kind
           body == IF kind = "empty" THEN <<>> ELSE [k \in 1 .. Pieces |-> k]
           head == Header(kind)
           all  == head \o body
<1>1. /\ head \in Seq(Int) /\ body \in Seq(Int) /\ Len(body) \in Nat
      /\ kind = "headless" => head = <<Url, Blank>> /\ Len(head) = 2
      /\ kind # "headless" => head = <<Url, ContentLength, Blank>> /\ Len(head) = 3
  BY Consts DEF Header, Url, ContentLength, Blank
<1>2. kind = "json" => Len(body) = Pieces /\ \A k \in 1 .. Pieces : body[k] = k
  BY Consts
<1> HIDE DEF body, head
<1>3. /\ all \in Seq(Int) /\ Len(all) = Len(head) + Len(body)
      /\ \A k \in 1 .. Len(head) : all[k] = head[k]
      /\ \A k \in 1 .. Len(body) : all[Len(head) + k] = body[k]
  BY <1>1
<1> HIDE DEF all
<1>4. Wire(c) = [k \in 1 .. Len(all) |-> [of |-> c, n |-> all[k]]]
  <2>1. Wire(c) = [k \in DOMAIN all |-> [of |-> c, n |-> all[k]]]
    BY DEF Wire, all, head, body
  <2> QED BY <2>1, <1>3
<1>5. Wire(c) \in Seq(Piece) /\ Len(Wire(c)) = Len(all)
  <2>1. \A k \in 1 .. Len(all) : [of |-> c, n |-> all[k]] \in Piece
    BY <1>3 DEF Piece, Senders
  <2>2. Len(all) \in Nat
    BY <1>3
  <2> QED BY <1>4, <2>1, <2>2
<1>6. \A k \in 1 .. Len(all) : Wire(c)[k] = [of |-> c, n |-> all[k]]
  BY <1>4
<1>7. /\ Len(head) \in Nat /\ Len(head) >= 2 /\ (kind # "headless" => Len(head) = 3)
      /\ head[1] = Url /\ (kind = "headless" => head[2] = Blank)
      /\ (kind # "headless" => head[2] = ContentLength)
  <2>1. CASE kind = "headless"
    <3>1. head = <<Url, Blank>> /\ Len(head) = 2
      BY <1>1, <2>1
    <3> QED BY <2>1, <3>1
  <2>2. CASE kind # "headless"
    <3>1. head = <<Url, ContentLength, Blank>> /\ Len(head) = 3
      BY <1>1, <2>2
    <3> QED BY <2>2, <3>1
  <2> QED BY <2>1, <2>2
<1>8. Len(all) \in Nat /\ Len(all) >= 2 /\ (kind # "headless" => Len(all) >= 3)
  <2>1. Len(body) \in Nat /\ Len(all) = Len(head) + Len(body)
    BY <1>1, <1>3
  <2>2. Len(head) \in Nat /\ Len(head) >= 2 /\ (kind # "headless" => Len(head) = 3)
    BY <1>7
  <2>3. Len(all) \in Nat /\ Len(all) >= 2
    BY <2>1, <2>2
  <2>4. ASSUME kind # "headless" PROVE Len(all) >= 3
    <3>1. Len(head) = 3
      BY <2>2, <2>4
    <3> QED BY <2>1, <3>1
  <2> QED BY <2>3, <2>4
<1>9. all[1] = head[1] /\ all[2] = head[2]
  <2>1. 1 \in 1 .. Len(head) /\ 2 \in 1 .. Len(head)
    BY <1>7
  <2> QED BY <1>3, <2>1
<1>a. Wire(c)[1].n = all[1] /\ Wire(c)[2].n = all[2]
  <2>1. 1 \in 1 .. Len(all) /\ 2 \in 1 .. Len(all)
    BY <1>8
  <2>2. Wire(c)[1] = [of |-> c, n |-> all[1]] /\ Wire(c)[2] = [of |-> c, n |-> all[2]]
    BY <1>6, <2>1
  <2> QED BY <2>2
<1>b. ASSUME kind = "json"
      PROVE  Len(Wire(c)) = 3 + Pieces /\ \A k \in 1 .. Pieces : Wire(c)[3 + k] = [of |-> c, n |-> k]
  <2>1. Len(head) = 3 /\ Len(body) = Pieces /\ Len(all) = 3 + Pieces
    BY <1>b, <1>1, <1>2, <1>3
  <2>2. \A k \in 1 .. Pieces : all[3 + k] = k /\ 3 + k \in 1 .. Len(all)
    BY <1>b, <2>1, <1>2, <1>3, Consts
  <2> QED BY <2>1, <2>2, <1>5, <1>6
<1> QED BY <1>5, <1>7, <1>8, <1>9, <1>a, <1>b

LEMMA PartIs ==
  ASSUME NEW S, NEW w \in Seq(S), NEW a \in Nat, NEW b \in Nat, a <= b, b <= Len(w)
  PROVE  /\ SubSeq(w, a + 1, b) \in Seq(S) /\ Len(SubSeq(w, a + 1, b)) = b - a
         /\ \A k \in 1 .. b - a : SubSeq(w, a + 1, b)[k] = w[a + k]
<1>1. a + 1 \in 1 .. Len(w) + 1 /\ b \in (a + 1) - 1 .. Len(w)
  OBVIOUS
<1>2. /\ SubSeq(w, a + 1, b) \in Seq(S) /\ Len(SubSeq(w, a + 1, b)) = b - (a + 1) + 1
      /\ \A k \in 1 .. b - (a + 1) + 1 : SubSeq(w, a + 1, b)[k] = w[(a + 1) + k - 1]
  BY <1>1, SubSeqProperties
<1>3. b - (a + 1) + 1 = b - a /\ \A k \in 1 .. b - a : (a + 1) + k - 1 = a + k
  OBVIOUS
<1> QED BY <1>2, <1>3

LEMMA JoinIs ==
  ASSUME NEW S, NEW v \in Seq(S), NEW w \in Seq(S)
  PROVE  /\ v \o w \in Seq(S) /\ Len(v \o w) = Len(v) + Len(w)
         /\ \A k \in 1 .. Len(v) : (v \o w)[k] = v[k]
         /\ \A k \in 1 .. Len(w) : (v \o w)[Len(v) + k] = w[k]
OBVIOUS

-----------------------------------------------------------------------------
(* What stays as it is when other things change.                           *)

LEMMA Fields ==
  ASSUME TypeOK, NEW i \in Slots
  PROVE  /\ DOMAIN slots = Slots /\ slots[i] \in SlotType
         /\ slots[i].buf \in Seq(Piece) /\ Len(slots[i].buf) \in Nat
         /\ Used(i) => /\ slots[i].c \in Clients /\ slots[i].c \in Senders
                       /\ Owned(i) \in ClientType /\ Owned(i).read \in Nat /\ Owned(i).sent \in Nat
                       /\ Owned(i).kind \in {"json", "empty", "headless"}
                       /\ Reply(i) \in Seq(Senders \cup {Nobody}) /\ Len(Reply(i)) \in Nat
<1>1. DOMAIN slots = Slots /\ slots[i] \in SlotType
  BY DEF TypeOK, Slots
<1>2. slots[i].buf \in Seq(Piece) /\ Len(slots[i].buf) \in Nat
  <2>1. slots[i].buf \in Seq(Piece)
    BY <1>1 DEF SlotType
  <2> QED BY <2>1
<1>3. ASSUME Used(i)
      PROVE  /\ slots[i].c \in Clients /\ slots[i].c \in Senders /\ Owned(i) \in ClientType
             /\ Reply(i) \in Seq(Senders \cup {Nobody})
  <2>1. slots[i].c \in Clients \cup {Nobody}
    BY <1>1 DEF SlotType
  <2>2. slots[i].c \in Clients /\ slots[i].c \in Senders
    BY <2>1, <1>3 DEF Used, Senders
  <2> QED BY <2>2 DEF TypeOK, Owned, Reply
<1>4. ASSUME Used(i)
      PROVE  Owned(i).read \in Nat /\ Owned(i).sent \in Nat /\ Owned(i).kind \in {"json", "empty", "headless"}
  BY <1>3, <1>4 DEF ClientType
<1>5. ASSUME Used(i) PROVE Len(Reply(i)) \in Nat
  BY <1>3, <1>5
<1> QED BY <1>1, <1>2, <1>3, <1>4, <1>5

LEMMA WireKept ==
  ASSUME NEW c, client'[c].kind = client[c].kind
  PROVE  Wire(c)' = Wire(c)
BY DEF Wire, Header

LEMMA SlotKept ==
  ASSUME NEW j, SlotInv(j), slots'[j] = slots[j],
         Used(j) => client'[slots[j].c] = client[slots[j].c] /\ answer'[slots[j].c] = answer[slots[j].c]
  PROVE  SlotInv(j)'
<1>1. CASE Used(j)
  <2>1. Wire(slots[j].c)' = Wire(slots[j].c)
    BY <1>1 DEF Wire, Header
  <2>2. /\ Used(j)' /\ Owned(j)' = Owned(j) /\ Reply(j)' = Reply(j) /\ Gone(j)' = Gone(j)
    BY <1>1 DEF Used, Owned, Reply, Gone
  <2>3. Owned(j).conn \in {"open", "gone"} /\ BufferInv(j) /\ HeaderInv(j) /\ BodyInv(j)
    BY <1>1 DEF SlotInv
  <2>4. BufferInv(j)'
    BY <2>1, <2>2, <2>3 DEF BufferInv
  <2>5. HeaderInv(j)'
    BY <2>2, <2>3 DEF HeaderInv
  <2>6. BodyInv(j)'
    BY <2>2, <2>3 DEF BodyInv
  <2> QED BY <2>2, <2>3, <2>4, <2>5, <2>6 DEF SlotInv
<1>2. CASE ~Used(j)
  BY <1>2 DEF SlotInv, Used, EmptySlot, Nobody
<1> QED BY <1>1, <1>2

LEMMA TalkKept ==
  ASSUME NEW j, Talks(j) => Broken(j) \/ Whole(j), slots'[j] = slots[j],
         client'[slots[j].c] = client[slots[j].c] /\ answer'[slots[j].c] = answer[slots[j].c],
         post' = post, io' = io, lex' = lex
  PROVE  Talks(j)' => (Broken(j) \/ Whole(j))'
<1>1. Talks(j)' = Talks(j)
  BY DEF Talks
<1>2. Reply(j)' = Reply(j) /\ Owned(j)' = Owned(j) /\ Taken' = Taken /\ Out' = Out
  BY DEF Reply, Owned, Taken, Out, Count, Running
<1>3. Broken(j)' = Broken(j)
  BY <1>2 DEF Broken
<1>4. Asked(j)' = Asked(j) /\ Waits(j)' = Waits(j) /\ Writes(j)' = Writes(j)
  BY DEF Asked, Waits, Writes
<1>5. Whole(j)' = Whole(j)
  BY <1>2, <1>4 DEF Whole, AllThere, AllToCome
<1> QED BY <1>1, <1>3, <1>5

LEMMA LexKept ==
  ASSUME LexInv, io' = io, lex' = lex, Running("post") => slots'[post'.mutex].c = slots[post.mutex].c
  PROVE  LexInv'
<1>1. \A s \in Streams : Running(s)' = Running(s)
  BY DEF Running
<1>2. ASSUME NEW s \in Streams, Running(s) PROVE InTurn(s)'
  <2>1. InTurn(s)
    BY <1>2 DEF LexInv
  <2>2. Sender(s)' = Sender(s)
    BY <1>2 DEF Sender, Streams
  <2> QED BY <2>1, <2>2 DEF InTurn
<1> QED BY <1>1, <1>2 DEF LexInv

\* A page does something, for itself, and with the stream only if it may.
PageFrame(i) ==
  /\ UNCHANGED <<port, io, lex, locked, print>>
  /\ \A j \in Slots : j # i => slots'[j] = slots[j]
  /\ slots'[i].c = slots[i].c
  /\ \A c \in Clients : c # slots[i].c => client'[c] = client[c]
  /\ client'[slots[i].c].kind = Owned(i).kind
  /\ \A a \in Senders : a # slots[i].c => answer'[a] = answer[a]
  /\ post' = post \/ (post.mutex \in {i, NoSlot} /\ post'.mutex \in {i, NoSlot})

LEMMA PageStep ==
  ASSUME Inv, TypeOK', NEW i \in Slots, Used(i), PageFrame(i),
         SlotInv(i)', post'.mutex = i <=> Holds(i)', post'.mutex \in {i, NoSlot} => RestInv',
         Talks(i)' => (Broken(i) \/ Whole(i))', Running("post") /\ Talks(i) => Talks(i)',
         Len(Reply(i)') <= 3, \A k \in 1 .. Len(Reply(i)') : Reply(i)'[k] = slots[i].c,
         slots'[i].html = "HTTPDISCONNECT" => Len(Reply(i)') + One(slots'[i].state = "WRITEBUFFER") <= 3
  PROVE  Inv'
<1> DEFINE c == slots[i].c
<1>1. /\ c \in Clients /\ c \in Senders /\ c # "serial" /\ c # Nobody /\ slots'[i].c = c
      /\ "serial" \in Senders /\ Clients \subseteq Senders
  BY Fields, Consts DEF Inv, PageFrame, Senders, Nobody
<1>2. \A j \in Slots : j # i => /\ slots'[j] = slots[j]
                                /\ Used(j) => slots[j].c \in Clients /\ slots[j].c \in Senders /\ slots[j].c # c
  <2>1. \A j \in Slots : Used(j) => slots[j].c \in Clients /\ slots[j].c \in Senders
    BY Fields DEF Inv
  <2> QED BY <2>1 DEF Inv, Apart, PageFrame
<1>3. \A j \in Slots : j # i /\ Used(j) => /\ client'[slots[j].c] = client[slots[j].c]
                                           /\ answer'[slots[j].c] = answer[slots[j].c]
  BY <1>2 DEF PageFrame
<1>4. \A j \in Slots : Used(j)' = Used(j) /\ slots'[j].c = slots[j].c
  BY <1>1, <1>2 DEF Used
<1>5. \A j \in Slots : SlotInv(j)'
  <2>1. ASSUME NEW j \in Slots, j # i PROVE SlotInv(j)'
    <3>1. SlotInv(j)
      BY DEF Inv
    <3> QED BY <2>1, <3>1, <1>2, <1>3, SlotKept
  <2> QED BY <2>1
<1>6. Apart'
  BY <1>4 DEF Inv, Apart
<1>7. NewInv'
  <2>1. client'[c].conn # "new"
    BY <1>1, <1>4 DEF SlotInv, Owned, Used
  <2>2. \A d \in Clients : d # c => client'[d] = client[d] /\ answer'[d] = answer[d]
    BY <1>1 DEF PageFrame
  <2> QED BY <2>1, <2>2 DEF Inv, NewInv
<1>8. \A j \in Slots : j # i => (post'.mutex = j <=> post.mutex = j) /\ (post.mutex = j => post' = post)
  BY Consts DEF PageFrame
<1>9. MutexInv'
  <2>1. ASSUME NEW j \in Slots, j # i PROVE post'.mutex = j <=> Holds(j)'
    <3>1. Holds(j)' = Holds(j)
      BY <1>2, <2>1 DEF Holds
    <3> QED BY <3>1, <1>8, <2>1 DEF Inv, MutexInv
  <2> QED BY <2>1 DEF MutexInv
<1>a. RestInv'
  <2>1. CASE post'.mutex \in {i, NoSlot}
    BY <2>1
  <2>2. CASE post'.mutex \notin {i, NoSlot}
    <3>1. post' = post /\ post.mutex \in Slots /\ post.mutex # i
      BY <2>2 DEF PageFrame, Inv, TypeOK, PostType, Slots
    <3>2. slots'[post.mutex] = slots[post.mutex]
      BY <3>1, <1>2
    <3>3. \A j \in Slots : post.mutex = j => slots'[j] = slots[j]
      BY <3>2
    <3> QED BY <3>1, <3>2, <3>3 DEF Inv, RestInv, Unstarted
  <2> QED BY <2>1, <2>2
<1>b. TalkInv'
  <2>1. ASSUME NEW j \in Slots, j # i, Talks(j)' PROVE (Broken(j) \/ Whole(j))'
    <3>1. post' = post /\ Talks(j)
      BY <2>1, <1>2, <1>8 DEF Talks
    <3>2. Used(j) /\ (Broken(j) \/ Whole(j))
      BY <2>1, <3>1 DEF Inv, TalkInv, SlotInv, EmptySlot, Talks, Exchange
    <3> QED BY <2>1, <3>1, <3>2, <1>2, <1>3, TalkKept DEF PageFrame
  <2> QED BY <2>1 DEF TalkInv
<1>c. PostRuns'
  <2>1. Running("post")' = Running("post")
    BY DEF Running, PageFrame
  <2>2. ASSUME Running("post") PROVE \E j \in Slots : Talks(j)'
    <3>1. PICK j \in Slots : Talks(j)
      BY <2>2 DEF Inv, PostRuns
    <3>2. j # i => Talks(j)'
      BY <3>1, <1>2, <1>8 DEF Talks
    <3> QED BY <2>2, <3>1, <3>2
  <2> QED BY <2>1, <2>2 DEF PostRuns
<1>d. LexInv'
  <2>1. ASSUME Running("post") PROVE slots'[post'.mutex].c = slots[post.mutex].c
    <3>1. PICK j \in Slots : Talks(j)
      BY <2>1 DEF Inv, PostRuns
    <3>2. post.mutex = j /\ post'.mutex = j
      BY <2>1, <3>1, <1>8 DEF Talks
    <3> QED BY <3>2, <1>4
  <2> QED BY <2>1, LexKept DEF PageFrame, Inv
<1>e. SerialInv'
  <2>1. answer'["serial"] = answer["serial"]
    BY <1>1 DEF PageFrame
  <2> QED BY <2>1 DEF Inv, SerialInv, Running, Count, PageFrame
<1>f. LockInv'
  BY DEF Inv, LockInv, Running, PageFrame
<1>g. LoneInv'
  <2>1. PortBusy' = PortBusy
    BY <1>1 DEF PageFrame, PortBusy, Running
  <2>2. \A j \in Slots : Used(j) => Owned(j)'.kind = Owned(j).kind
    BY <1>2, <1>3, <1>4 DEF Owned, PageFrame
  <2> QED BY <2>1, <2>2, <1>4 DEF Inv, LoneInv, PageFrame
<1>h. OwnInv'
  <2>1. ASSUME NEW a \in Senders, a # c PROVE answer'[a] = answer[a]
    BY <2>1 DEF PageFrame
  <2>2. Reply(i)' = answer'[c]
    BY <1>1 DEF Reply
  <2> QED BY <2>1, <2>2 DEF Inv, OwnInv
<1>i. EndInv'
  <2>1. ASSUME NEW j \in Slots, j # i PROVE Used(j) => Reply(j)' = Reply(j)
    BY <2>1, <1>2, <1>3 DEF Reply
  <2> QED BY <2>1, <1>2, <1>4 DEF Inv, EndInv
<1> QED BY <1>5, <1>6, <1>7, <1>9, <1>a, <1>b, <1>c, <1>d, <1>e, <1>f, <1>g, <1>h, <1>i DEF Inv

LEMMA BufferKept ==
  ASSUME NEW i, BufferInv(i), slots'[i].c = slots[i].c, slots'[i].buf = slots[i].buf,
         client'[slots[i].c] = client[slots[i].c]
  PROVE  BufferInv(i)' /\ Gone(i)' = Gone(i) /\ Owned(i)' = Owned(i)
<1>1. Wire(slots[i].c)' = Wire(slots[i].c)
  BY DEF Wire, Header
<1>2. Gone(i)' = Gone(i) /\ Owned(i)' = Owned(i)
  BY DEF Gone, Owned
<1> QED BY <1>1, <1>2 DEF BufferInv

\* The page is done with the piece at the front.
LEMMA BufferTail ==
  ASSUME TypeOK, NEW i \in Slots, Used(i), BufferInv(i), slots'[i].c = slots[i].c, slots[i].buf # <<>>,
         slots'[i].buf = Tail(slots[i].buf), client'[slots[i].c] = client[slots[i].c]
  PROVE  /\ BufferInv(i)' /\ Gone(i)' = Gone(i) + 1 /\ Owned(i)' = Owned(i)
         /\ Head(slots[i].buf) = Wire(slots[i].c)[Gone(i) + 1] /\ Tail(slots[i].buf) \in Seq(Piece)
         /\ Len(Tail(slots[i].buf)) = Len(slots[i].buf) - 1 /\ Gone(i) \in Nat
<1> DEFINE b == slots[i].buf
<1>1. /\ b \in Seq(Piece) /\ b # <<>> /\ Len(b) \in Nat /\ Owned(i).read \in Nat /\ Len(b) <= Owned(i).read
      /\ \A k \in 1 .. Len(b) : b[k] = Wire(slots[i].c)[Gone(i) + k]
  BY Fields DEF BufferInv
<1>2. Gone(i) = Owned(i).read - Len(b)
  BY DEF Gone
<1>3. Wire(slots[i].c)' = Wire(slots[i].c) /\ Owned(i)' = Owned(i)
  BY DEF Wire, Header, Owned
<1> HIDE DEF b
<1>4. /\ Tail(b) \in Seq(Piece) /\ Len(Tail(b)) = Len(b) - 1 /\ Len(b) >= 1 /\ Head(b) = b[1]
      /\ \A k \in 1 .. Len(b) - 1 : Tail(b)[k] = b[k + 1]
  BY <1>1
<1>5. Gone(i)' = Gone(i) + 1 /\ Gone(i) \in Nat
  <2>1. Gone(i)' = Owned(i).read - (Len(b) - 1)
    BY <1>3, <1>4 DEF Gone, b
  <2> QED BY <2>1, <1>1, <1>2
<1>6. \A k \in 1 .. Len(b) - 1 : Tail(b)[k] = Wire(slots[i].c)[(Gone(i) + 1) + k]
  <2>1. \A k \in 1 .. Len(b) - 1 : k + 1 \in 1 .. Len(b) /\ Gone(i) + (k + 1) = (Gone(i) + 1) + k
    BY <1>1, <1>5
  <2> QED BY <2>1, <1>1, <1>4
<1>7. BufferInv(i)'
  <2>1. slots'[i].buf = Tail(b)
    BY DEF b
  <2>2. Len(Tail(b)) <= Owned(i).read
    BY <1>1, <1>4
  <2> QED BY <2>1, <2>2, <1>3, <1>4, <1>5, <1>6 DEF BufferInv
<1>8. Head(b) = Wire(slots[i].c)[Gone(i) + 1]
  <2>1. 1 \in 1 .. Len(b)
    BY <1>1, <1>4
  <2> QED BY <2>1, <1>1, <1>4
<1> QED BY <1>3, <1>4, <1>5, <1>7, <1>8 DEF b

\* What is known of a page that takes a step.
LEMMA AtPage ==
  ASSUME Inv, NEW i, NEW state, At(i, state)
  PROVE  /\ i \in Slots /\ Used(i) /\ slots[i].c \in Clients /\ slots[i].state = state /\ slots[i] \in SlotType
         /\ turn' = "serial" /\ ~trap /\ next' \in Slots
         /\ Owned(i).conn = "open" /\ BufferInv(i) /\ HeaderInv(i) /\ BodyInv(i)
         /\ post.mutex = i <=> Holds(i)
         /\ Talks(i) => Broken(i) \/ Whole(i)
         /\ Len(Reply(i)) <= 3 /\ \A k \in 1 .. Len(Reply(i)) : Reply(i)[k] = slots[i].c
         /\ slots[i].html = "HTTPDISCONNECT" => Len(Reply(i)) + One(slots[i].state = "WRITEBUFFER") <= 3
<1>1. /\ i \in Slots /\ Used(i) /\ slots[i].c \in Clients /\ slots[i].state = state
      /\ turn' = "serial" /\ ~trap /\ next' \in Slots /\ Owned(i).conn # "gone"
  BY ServeUsed DEF Inv, At, Lost, Owned
<1>2. Owned(i).conn = "open" /\ BufferInv(i) /\ HeaderInv(i) /\ BodyInv(i)
  BY <1>1 DEF Inv, SlotInv
<1>3. /\ post.mutex = i <=> Holds(i)
      /\ Talks(i) => Broken(i) \/ Whole(i)
  BY <1>1 DEF Inv, MutexInv, TalkInv
<1>4. slots[i].c \in Senders
  BY <1>1 DEF Senders
<1>5. Len(Reply(i)) <= 3 /\ \A k \in 1 .. Len(Reply(i)) : Reply(i)[k] = slots[i].c
  BY <1>4 DEF Inv, OwnInv, Reply
<1>6. slots[i].html = "HTTPDISCONNECT" => Len(Reply(i)) + One(slots[i].state = "WRITEBUFFER") <= 3
  BY <1>1 DEF Inv, EndInv
<1> QED BY <1>1, <1>2, <1>3, <1>5, <1>6, Fields DEF Inv

LEMMA PageTypes ==
  ASSUME TypeOK, NEW i \in Slots, NEW e \in SlotType, slots' = [slots EXCEPT ![i] = e],
         client' \in [Clients -> ClientType], answer' \in [Senders -> Seq(Senders \cup {Nobody})],
         post' \in PostType, UNCHANGED <<port, io, lex, locked, tx, print>>, trap' \in BOOLEAN,
         turn' = "serial", next' \in Slots
  PROVE  TypeOK'
<1>1. slots' \in [0 .. NSlots - 1 -> SlotType]
  BY DEF TypeOK, Slots
<1> QED BY <1>1 DEF TypeOK, Slots

\* A page moves on with nothing read, nothing answered and its connection as it is.
LEMMA PageMoves ==
  ASSUME Inv, NEW i \in Slots, Used(i), NEW e \in SlotType, slots' = [slots EXCEPT ![i] = e],
         e.c = slots[i].c, UNCHANGED <<client, port, answer, io, lex, locked, tx, print>>,
         post' = post \/ (post.mutex \in {i, NoSlot} /\ post'.mutex \in {i, NoSlot}),
         post' \in PostType, trap' \in BOOLEAN, turn' = "serial", next' \in Slots,
         BufferInv(i)', HeaderInv(i)', BodyInv(i)',
         post'.mutex = i <=> Holds(i)', post'.mutex \in {i, NoSlot} => RestInv',
         Talks(i)' => (Broken(i) \/ Whole(i))', Running("post") /\ Talks(i) => Talks(i)',
         e.html = "HTTPDISCONNECT" => Len(Reply(i)) + One(e.state = "WRITEBUFFER") <= 3
  PROVE  Inv'
<1>1. /\ slots'[i] = e /\ \A j \in Slots : j # i => slots'[j] = slots[j]
  BY Fields DEF Inv
<1>2. Used(i)' /\ Owned(i)' = Owned(i) /\ Reply(i)' = Reply(i)
  BY <1>1 DEF Used, Owned, Reply
<1>3. SlotInv(i)'
  BY <1>2 DEF Inv, SlotInv
<1>4. TypeOK'
  BY PageTypes DEF Inv, TypeOK
<1>5. PageFrame(i)
  BY <1>1 DEF PageFrame, Owned
<1>6. slots[i].c \in Senders
  BY Fields DEF Inv
<1>7. Len(Reply(i)) <= 3 /\ \A k \in 1 .. Len(Reply(i)) : Reply(i)[k] = slots[i].c
  BY <1>6 DEF Inv, OwnInv, Reply
<1> QED BY <1>1, <1>2, <1>3, <1>4, <1>5, <1>7, PageStep

-----------------------------------------------------------------------------
(* The header of a POST.                                                   *)

LEMMA ParseNextLineInv ==
  ASSUME Inv, NEW i, ParseNextLine(i)
  PROVE  Inv'
<1> DEFINE s == slots[i]
           e == IF s.buf # <<>> THEN [s EXCEPT !.state = "PROCESSHTML"]
                                ELSE [s EXCEPT !.state = "READINPUT", !.next = "PARSENEXTLINE"]
<1>1. At(i, "PARSENEXTLINE") /\ UNCHANGED <<client, port, answer, post, io, lex, locked, tx, print, trap>>
      /\ slots' = [slots EXCEPT ![i] = e]
  BY DEF ParseNextLine, world
<1>2. /\ i \in Slots /\ Used(i) /\ s \in SlotType /\ s.state = "PARSENEXTLINE" /\ turn' = "serial" /\ next' \in Slots
      /\ Owned(i).conn = "open" /\ BufferInv(i) /\ HeaderInv(i) /\ BodyInv(i) /\ (post.mutex = i <=> Holds(i))
      /\ TypeOK /\ RestInv
  BY <1>1, AtPage DEF Inv
<1>3. s.html \in HeaderAt /\ s.page = "post"
  BY <1>2 DEF HeaderInv, BodyInv, SlotType, HeaderAt
<1>4. e \in SlotType /\ slots'[i] = e /\ e.c = s.c /\ e.html = s.html /\ e.buf = s.buf /\ e.page = s.page
  <2>1. e \in SlotType /\ e.c = s.c /\ e.html = s.html /\ e.buf = s.buf /\ e.page = s.page
    BY <1>2 DEF SlotType
  <2>2. i \in DOMAIN slots
    BY <1>2, Fields
  <2> HIDE DEF e
  <2> QED BY <1>1, <2>1, <2>2
<1>5. IF s.buf # <<>> THEN e.state = "PROCESSHTML" ELSE e.state = "READINPUT" /\ e.next = "PARSENEXTLINE"
  <2>1. CASE s.buf # <<>>
    <3>1. e = [s EXCEPT !.state = "PROCESSHTML"]
      BY <2>1, Zenon
    <3> HIDE DEF e
    <3> QED BY <1>2, <2>1, <3>1 DEF SlotType
  <2>2. CASE s.buf = <<>>
    <3>1. e = [s EXCEPT !.state = "READINPUT", !.next = "PARSENEXTLINE"]
      BY <2>2, Zenon
    <3> HIDE DEF e
    <3> QED BY <1>2, <2>2, <3>1 DEF SlotType
  <2> QED BY <2>1, <2>2
<1> HIDE DEF e
<1>6. BufferInv(i)' /\ Gone(i)' = Gone(i) /\ Owned(i)' = Owned(i)
  BY <1>1, <1>2, <1>4, BufferKept
<1>7. Reply(i)' = Reply(i)
  BY <1>1, <1>4 DEF Reply
<1>8. HeaderInv(i)'
  BY <1>2, <1>3, <1>4, <1>5, <1>6, <1>7 DEF HeaderInv, HeaderAt, Exchange
<1>9. BodyInv(i)'
  BY <1>2, <1>3, <1>4, <1>5, <1>6 DEF BodyInv, HeaderAt, Exchange
<1>a. post'.mutex = i <=> Holds(i)'
  BY <1>1, <1>2, <1>3, <1>4, <1>5 DEF Holds
<1>b. ~Talks(i)' /\ ~Talks(i)
  BY <1>1, <1>3, <1>4 DEF Talks, HeaderAt, Exchange
<1>c. RestInv'
  <2>1. \A j \in Slots : j # i => slots'[j] = slots[j]
    BY <1>1, <1>2, Fields
  <2>2. Unstarted' = Unstarted
    BY <1>1, <1>4, <2>1 DEF Unstarted
  <2>3. \A j \in Slots : slots'[j].html = slots[j].html
    BY <1>4, <2>1
  <2> QED BY <1>1, <1>2, <2>2, <2>3 DEF RestInv
<1>d. post' \in PostType /\ trap' \in BOOLEAN
  BY <1>1, <1>2 DEF TypeOK
<1>e. e.html # "HTTPDISCONNECT"
  BY <1>3, <1>4 DEF HeaderAt
<1> QED BY <1>1, <1>2, <1>4, <1>6, <1>8, <1>9, <1>a, <1>b, <1>c, <1>d, <1>e, PageMoves

\* What a page returns, and what ProcessClient makes of it.
Pages == {"HTTPSTART", "CONTLEN", "ENDHDR", "JSONLEX", "WRITEHTTP", "WRITEJSON", "JMPFILENOTFOUND",
          "HTTPDISCONNECT"}
Moved(s, cmd, html) ==
  [s EXCEPT !.html = html, !.state = Obey[cmd], !.next = IF cmd = "READ" THEN "PROCESSHTML" ELSE ""]

IsMoved(e, s, cmd, html) ==
  /\ e \in SlotType /\ e.c = s.c /\ e.buf = s.buf /\ e.page = s.page /\ e.out = s.out
  /\ e.html = html /\ e.state = Obey[cmd] /\ (cmd = "READ" => e.next = "PROCESSHTML")

LEMMA Obeyed ==
  /\ Obey["CONTINUE"] = "PROCESSHTML" /\ Obey["READ"] = "READINPUT" /\ Obey["GETLINE"] = "PARSENEXTLINE"
  /\ Obey["WRITE"] = "WRITEBUFFER" /\ Obey["DONE"] = "STOPCLIENT"
BY DEF Obey

\* A slot stays one when its page, its state or what it is told to do next changes.
LEMMA SlotChanges ==
  ASSUME NEW s \in SlotType
  PROVE  /\ \A h \in {"HTTPSTART", "CONTLEN", "ENDHDR", "JSONLEX", "WRITEHTTP", "WRITEJSON",
                      "JMPFILENOTFOUND", "HTTPDISCONNECT"} : [s EXCEPT !.html = h] \in SlotType
         /\ \A t \in {"READINPUT", "PARSENEXTLINE", "PROCESSHTML", "WRITEBUFFER", "STOPCLIENT"} :
              [s EXCEPT !.state = t] \in SlotType
         /\ \A n \in {"", "PROCESSHTML", "PARSENEXTLINE"} : [s EXCEPT !.next = n] \in SlotType
<1> DEFINE C == Clients \cup {Nobody}
           P == {"none", "post", "404"}
           B == Seq(Piece)
           S == {"READINPUT", "PARSENEXTLINE", "PROCESSHTML", "WRITEBUFFER", "STOPCLIENT"}
           N == {"", "PROCESSHTML", "PARSENEXTLINE"}
           O == Senders \cup {Nobody}
           H == {"HTTPSTART", "CONTLEN", "ENDHDR", "JSONLEX", "WRITEHTTP", "WRITEJSON",
                 "JMPFILENOTFOUND", "HTTPDISCONNECT"}
<1>1. SlotType = [c : C, page : P, buf : B, state : S, next : N, out : O, html : H]
  BY DEF SlotType
<1> HIDE DEF C, P, B, S, N, O, H
<1>2. \A h \in H : [s EXCEPT !.html = h] \in SlotType
  BY <1>1
<1>3. \A t \in S : [s EXCEPT !.state = t] \in SlotType
  BY <1>1
<1>4. \A n \in N : [s EXCEPT !.next = n] \in SlotType
  BY <1>1
<1> QED BY <1>2, <1>3, <1>4 DEF H, S, N

LEMMA MovedIs ==
  ASSUME NEW s \in SlotType, NEW cmd \in {"CONTINUE", "READ", "GETLINE", "WRITE", "DONE"}, NEW html \in Pages
  PROVE  IsMoved(Moved(s, cmd, html), s, cmd, html)
<1> DEFINE n == IF cmd = "READ" THEN "PROCESSHTML" ELSE ""
           t == Obey[cmd]
<1>1. /\ n \in {"", "PROCESSHTML", "PARSENEXTLINE"} /\ (cmd = "READ" => n = "PROCESSHTML")
      /\ t \in {"READINPUT", "PARSENEXTLINE", "PROCESSHTML", "WRITEBUFFER", "STOPCLIENT"}
  BY Obeyed
<1>2. Moved(s, cmd, html) = [s EXCEPT !.html = html, !.state = t, !.next = n]
  BY DEF Moved
<1> HIDE DEF n, t
<1> DEFINE e1 == [s EXCEPT !.html = html]
           e2 == [e1 EXCEPT !.state = t]
           e3 == [e2 EXCEPT !.next = n]
<1>3. e1 \in SlotType /\ e1.c = s.c /\ e1.buf = s.buf /\ e1.page = s.page /\ e1.out = s.out /\ e1.html = html
  <2>1. e1 \in SlotType
    BY SlotChanges DEF Pages
  <2>2. e1.c = s.c /\ e1.buf = s.buf /\ e1.page = s.page /\ e1.out = s.out
    BY DEF SlotType
  <2>3. e1.html = html
    BY DEF SlotType
  <2> QED BY <2>1, <2>2, <2>3
<1>4. Moved(s, cmd, html) = e3
  BY <1>2
<1> HIDE DEF e1
<1>5. /\ e2 \in SlotType /\ e2.c = e1.c /\ e2.buf = e1.buf /\ e2.page = e1.page /\ e2.out = e1.out
      /\ e2.html = e1.html /\ e2.state = t
  <2>1. e1 \in SlotType
    BY <1>3
  <2>2. e2 \in SlotType
    BY <1>1, <2>1, SlotChanges
  <2>3. e2.c = e1.c /\ e2.buf = e1.buf /\ e2.page = e1.page /\ e2.out = e1.out
    BY <2>1 DEF SlotType
  <2>4. e2.html = e1.html /\ e2.state = t
    BY <2>1 DEF SlotType
  <2> QED BY <2>2, <2>3, <2>4
<1> HIDE DEF e2
<1>6. /\ e3 \in SlotType /\ e3.c = e2.c /\ e3.buf = e2.buf /\ e3.page = e2.page /\ e3.out = e2.out
      /\ e3.html = e2.html /\ e3.state = e2.state /\ e3.next = n
  <2>1. e2 \in SlotType
    BY <1>5
  <2>2. e3 \in SlotType
    BY <1>1, <2>1, SlotChanges
  <2>3. e3.c = e2.c /\ e3.buf = e2.buf /\ e3.page = e2.page /\ e3.out = e2.out
    BY <2>1 DEF SlotType
  <2>4. e3.html = e2.html /\ e3.state = e2.state /\ e3.next = n
    BY <2>1 DEF SlotType
  <2> QED BY <2>2, <2>3, <2>4
<1> HIDE DEF e3
<1> QED BY <1>1, <1>3, <1>4, <1>5, <1>6 DEF t, IsMoved

LEMMA ReturnsIs ==
  ASSUME TypeOK, NEW i \in Slots, NEW cmd, NEW html
  PROVE  /\ Returns(i, cmd, html) => slots' = [slots EXCEPT ![i] = Moved(slots[i], cmd, html)]
         /\ ReturnsPast(i, cmd, html) =>
              slots' = [slots EXCEPT ![i] = Moved([slots[i] EXCEPT !.buf = Tail(@)], cmd, html)]
<1>1. i \in DOMAIN slots
  BY Fields
<1> QED BY <1>1 DEF Returns, ReturnsPast, Moved

LEMMA PageReturns ==
  ASSUME TypeOK, NEW i \in Slots, Used(i), BufferInv(i), client' = client, answer' = answer,
         NEW cmd \in {"CONTINUE", "READ", "GETLINE", "WRITE", "DONE"}, NEW html \in Pages, Returns(i, cmd, html)
  PROVE  /\ slots' = [slots EXCEPT ![i] = slots'[i]] /\ slots'[i] \in SlotType /\ slots'[i].c = slots[i].c
         /\ slots'[i].buf = slots[i].buf /\ slots'[i].page = slots[i].page /\ slots'[i].out = slots[i].out
         /\ slots'[i].html = html /\ slots'[i].state = Obey[cmd]
         /\ cmd = "READ" => slots'[i].next = "PROCESSHTML"
         /\ BufferInv(i)' /\ Gone(i)' = Gone(i) /\ Owned(i)' = Owned(i) /\ Reply(i)' = Reply(i)
         /\ \A j \in Slots : j # i => slots'[j] = slots[j]
<1> DEFINE m == Moved(slots[i], cmd, html)
<1>1. i \in DOMAIN slots /\ DOMAIN slots = Slots /\ slots[i] \in SlotType
  BY Fields
<1>2. slots' = [slots EXCEPT ![i] = m]
  BY ReturnsIs, Zenon
<1>3. /\ m \in SlotType /\ m.c = slots[i].c /\ m.buf = slots[i].buf /\ m.page = slots[i].page
      /\ m.out = slots[i].out /\ m.html = html /\ m.state = Obey[cmd] /\ (cmd = "READ" => m.next = "PROCESSHTML")
  <2>1. IsMoved(m, slots[i], cmd, html)
    BY <1>1, MovedIs
  <2> HIDE DEF m
  <2> QED BY <2>1 DEF IsMoved
<1> HIDE DEF m
<1>4. slots'[i] = m /\ \A j \in Slots : j # i => slots'[j] = slots[j]
  BY <1>1, <1>2
<1>5. Reply(i)' = Reply(i)
  BY <1>3, <1>4 DEF Reply
<1>6. BufferInv(i)' /\ Gone(i)' = Gone(i) /\ Owned(i)' = Owned(i)
  BY <1>3, <1>4, BufferKept
<1> QED BY <1>2, <1>3, <1>4, <1>5, <1>6

LEMMA HttpStartInv ==
  ASSUME Inv, NEW i, HttpStart(i)
  PROVE  Inv'
<1> DEFINE s == slots[i]
<1>1. /\ At(i, "PROCESSHTML") /\ s.html = "HTTPSTART"
      /\ UNCHANGED <<client, port, answer, io, lex, locked, tx, print, trap>>
  BY DEF HttpStart, InPage, Local, world
<1>2. /\ i \in Slots /\ Used(i) /\ s \in SlotType /\ s.state = "PROCESSHTML" /\ turn' = "serial" /\ next' \in Slots
      /\ Owned(i).conn = "open" /\ BufferInv(i) /\ HeaderInv(i) /\ BodyInv(i) /\ (post.mutex = i <=> Holds(i))
      /\ TypeOK /\ RestInv
  BY <1>1, AtPage DEF Inv
<1>3. s.page = "post" /\ ~Holds(i) /\ ~Talks(i)
  BY <1>1, <1>2 DEF HeaderInv, SlotType, Holds, Talks, Exchange
<1>5. ASSUME NEW cmd \in {"CONTINUE", "READ", "GETLINE", "WRITE", "DONE"}, NEW html \in Pages, Returns(i, cmd, html)
      PROVE  /\ slots' = [slots EXCEPT ![i] = slots'[i]] /\ slots'[i] \in SlotType /\ slots'[i].c = s.c
             /\ slots'[i].buf = s.buf /\ slots'[i].page = s.page /\ slots'[i].html = html
             /\ slots'[i].state = Obey[cmd] /\ BufferInv(i)' /\ Gone(i)' = Gone(i) /\ Owned(i)' = Owned(i)
             /\ Reply(i)' = Reply(i)
  BY <1>1, <1>2, <1>5, PageReturns
<1>6. CASE MutexFree
  <2>1. post' = [post EXCEPT !.mutex = i, !.nextState = "LEXNONE"] /\ Returns(i, "GETLINE", "CONTLEN")
        /\ post.mutex = NoSlot
    BY <1>6 DEF HttpStart, MutexFree
  <2>2. /\ slots' = [slots EXCEPT ![i] = slots'[i]] /\ slots'[i] \in SlotType /\ slots'[i].c = s.c
        /\ slots'[i].buf = s.buf /\ slots'[i].page = s.page /\ slots'[i].html = "CONTLEN"
        /\ slots'[i].state = "PARSENEXTLINE" /\ BufferInv(i)' /\ Gone(i)' = Gone(i) /\ Owned(i)' = Owned(i)
        /\ Reply(i)' = Reply(i)
    BY <1>5, <2>1, Obeyed DEF Pages
  <2>3. HeaderInv(i)' /\ BodyInv(i)'
    BY <1>1, <1>2, <1>3, <2>2 DEF HeaderInv, BodyInv, HeaderAt, Exchange
  <2>4. post = [NewPost EXCEPT !.mutex = post.mutex]
    BY <1>2, <2>1, Consts DEF RestInv, Unstarted
  <2>5. post' = [NewPost EXCEPT !.mutex = i] /\ post' \in PostType /\ post'.mutex = i
    <3>1. post' = [NewPost EXCEPT !.mutex = i]
      BY <2>1, <2>4 DEF NewPost
    <3> QED BY <3>1, <1>2 DEF NewPost, PostType, Slots
  <2>6. RestInv'
    <3>1. \A j \in Slots : post'.mutex = j => j = i
      BY <2>5
    <3>2. slots'[i].html # "HTTPDISCONNECT"
      BY <2>2
    <3> QED BY <2>5, <3>1, <3>2 DEF RestInv
  <2>7. Holds(i)' /\ ~Talks(i)'
    BY <1>3, <2>2 DEF Holds, Talks, Exchange
  <2>8. trap' \in BOOLEAN
    BY <1>1, <1>2 DEF TypeOK
  <2> QED BY <1>1, <1>2, <1>3, <2>1, <2>2, <2>3, <2>5, <2>6, <2>7, <2>8, PageMoves
<1>7. CASE ~MutexFree
  <2>1. post' = post /\ Returns(i, "CONTINUE", "HTTPSTART") /\ post.mutex # NoSlot /\ post.mutex # i
    BY <1>2, <1>3, <1>7 DEF HttpStart, MutexFree
  <2>2. /\ slots' = [slots EXCEPT ![i] = slots'[i]] /\ slots'[i] \in SlotType /\ slots'[i].c = s.c
        /\ slots'[i].buf = s.buf /\ slots'[i].page = s.page /\ slots'[i].html = "HTTPSTART"
        /\ slots'[i].state = "PROCESSHTML" /\ BufferInv(i)' /\ Gone(i)' = Gone(i) /\ Owned(i)' = Owned(i)
        /\ Reply(i)' = Reply(i)
    BY <1>5, <2>1, Obeyed DEF Pages
  <2>3. HeaderInv(i)' /\ BodyInv(i)'
    BY <1>1, <1>2, <1>3, <2>2 DEF HeaderInv, BodyInv, HeaderAt, Exchange
  <2>4. ~Holds(i)' /\ ~Talks(i)'
    BY <2>2 DEF Holds, Talks, Exchange
  <2>5. trap' \in BOOLEAN /\ post' \in PostType
    BY <1>1, <1>2, <2>1 DEF TypeOK
  <2> QED BY <1>1, <1>2, <1>3, <2>1, <2>2, <2>3, <2>4, <2>5, PageMoves
<1> QED BY <1>6, <1>7

\* The page is done with a line of the header.
LEMMA PagePast ==
  ASSUME TypeOK, NEW i \in Slots, Used(i), BufferInv(i), client' = client, answer' = answer, slots[i].buf # <<>>,
         NEW cmd \in {"CONTINUE", "READ", "GETLINE", "WRITE", "DONE"}, NEW html \in Pages, ReturnsPast(i, cmd, html)
  PROVE  /\ slots' = [slots EXCEPT ![i] = slots'[i]] /\ slots'[i] \in SlotType /\ slots'[i].c = slots[i].c
         /\ slots'[i].buf = Tail(slots[i].buf) /\ slots'[i].page = slots[i].page /\ slots'[i].out = slots[i].out
         /\ slots'[i].html = html /\ slots'[i].state = Obey[cmd]
         /\ cmd = "READ" => slots'[i].next = "PROCESSHTML"
         /\ BufferInv(i)' /\ Gone(i)' = Gone(i) + 1 /\ Owned(i)' = Owned(i) /\ Reply(i)' = Reply(i)
         /\ Gone(i) \in Nat /\ Line(i) = Wire(slots[i].c)[Gone(i) + 1].n
         /\ Len(slots'[i].buf) = Len(slots[i].buf) - 1
         /\ \A j \in Slots : j # i => slots'[j] = slots[j]
<1> DEFINE p == [slots[i] EXCEPT !.buf = Tail(@)]
           m == Moved(p, cmd, html)
<1>1. i \in DOMAIN slots /\ DOMAIN slots = Slots /\ slots[i] \in SlotType /\ slots[i].buf \in Seq(Piece)
  <2>1. DOMAIN slots = Slots /\ slots[i] \in SlotType /\ slots[i].buf \in Seq(Piece)
    BY Fields
  <2> QED BY <2>1
<1>2. slots' = [slots EXCEPT ![i] = m]
  <2>1. slots' = [slots EXCEPT ![i] = Moved([slots[i] EXCEPT !.buf = Tail(slots[i].buf)], cmd, html)]
    BY <1>1 DEF ReturnsPast, Moved
  <2> QED BY <2>1
<1>3. Tail(slots[i].buf) \in Seq(Piece)
  BY <1>1
<1>4. /\ p \in SlotType /\ p.c = slots[i].c /\ p.buf = Tail(slots[i].buf)
      /\ p.page = slots[i].page /\ p.out = slots[i].out
  BY <1>1, <1>3 DEF SlotType
<1> HIDE DEF p
<1>5. /\ m \in SlotType /\ m.c = p.c /\ m.buf = p.buf /\ m.page = p.page
      /\ m.out = p.out /\ m.html = html /\ m.state = Obey[cmd] /\ (cmd = "READ" => m.next = "PROCESSHTML")
  <2>1. p \in SlotType
    BY <1>4
  <2>2. IsMoved(m, p, cmd, html)
    BY <2>1, MovedIs
  <2> HIDE DEF m
  <2> QED BY <2>2 DEF IsMoved
<1> HIDE DEF m
<1>6. slots'[i] = m /\ \A j \in Slots : j # i => slots'[j] = slots[j]
  BY <1>1, <1>2
<1>7. slots'[i].c = slots[i].c /\ slots'[i].buf = Tail(slots[i].buf)
  BY <1>4, <1>5, <1>6
<1>8. Reply(i)' = Reply(i)
  BY <1>7 DEF Reply
<1>9. /\ BufferInv(i)' /\ Gone(i)' = Gone(i) + 1 /\ Owned(i)' = Owned(i)
      /\ Head(slots[i].buf) = Wire(slots[i].c)[Gone(i) + 1]
      /\ Len(Tail(slots[i].buf)) = Len(slots[i].buf) - 1 /\ Gone(i) \in Nat
  BY <1>7, BufferTail
<1> QED BY <1>2, <1>4, <1>5, <1>6, <1>7, <1>8, <1>9 DEF Line

\* Before its body a POST has done nothing with the stream.
LEMMA InHeader ==
  ASSUME Inv, NEW i \in Slots, post.mutex = i, slots[i].html \in HeaderAt \cup {"JMPFILENOTFOUND"}
  PROVE  /\ post = [NewPost EXCEPT !.mutex = i] /\ ~Running("post") /\ ~Talks(i)
         /\ post.avail = 0 /\ post.lexState = "LEXNONE" /\ post.nextState = "LEXNONE"
         /\ post.nextCMD = "CONTINUE" /\ ~post.first /\ ~post.writing
<1>1. post = [NewPost EXCEPT !.mutex = i]
  BY DEF Inv, RestInv, Unstarted
<1>2. ~Talks(i)
  BY DEF Talks, HeaderAt, Exchange
<1>3. ~Running("post")
  <2>1. \A j \in Slots : Talks(j) => j = i
    BY DEF Talks
  <2> QED BY <1>2, <2>1 DEF Inv, PostRuns
<1> QED BY <1>1, <1>2, <1>3 DEF NewPost

LEMMA ContLenInv ==
  ASSUME Inv, NEW i, ContLen(i)
  PROVE  Inv'
<1> DEFINE s == slots[i]
<1>1. /\ At(i, "PROCESSHTML") /\ s.html = "CONTLEN"
      /\ UNCHANGED <<client, port, answer, post, io, lex, locked, tx, print, trap>>
  BY DEF ContLen, InPage, Local, world
<1>2. /\ i \in Slots /\ Used(i) /\ s \in SlotType /\ s.state = "PROCESSHTML" /\ turn' = "serial" /\ next' \in Slots
      /\ s.c \in Clients
      /\ Owned(i).conn = "open" /\ BufferInv(i) /\ HeaderInv(i) /\ BodyInv(i) /\ (post.mutex = i <=> Holds(i))
      /\ TypeOK /\ RestInv
  BY <1>1, AtPage DEF Inv
<1>3. s.page = "post" /\ s.buf # <<>> /\ Gone(i) \in 0 .. 1 /\ Reply(i) = <<>> /\ Len(Reply(i)) = 0
  BY <1>1, <1>2 DEF HeaderInv, HeaderAt, Exchange, SlotType
<1>4. post.mutex = i /\ Holds(i)
  BY <1>1, <1>2, <1>3 DEF Holds
<1>5. post = [NewPost EXCEPT !.mutex = i] /\ ~Talks(i)
  BY <1>1, <1>2, <1>4, InHeader DEF HeaderAt
<1>6. ASSUME NEW cmd \in {"CONTINUE", "GETLINE"}, NEW html \in HeaderAt \cup {"JMPFILENOTFOUND"},
             ReturnsPast(i, cmd, html),
             Line(i) = Wire(s.c)[Gone(i) + 1].n /\ Gone(i)' = Gone(i) + 1 =>
               CASE html = "CONTLEN" -> cmd = "GETLINE" /\ Gone(i)' \in 0 .. 1
                 [] html = "ENDHDR"  -> cmd = "GETLINE" /\ Gone(i)' = 2 /\ Owned(i).kind # "headless"
                 [] OTHER            -> cmd = "CONTINUE" /\ Owned(i).kind = "headless"
      PROVE  Inv'
  <2>1. cmd \in {"CONTINUE", "READ", "GETLINE", "WRITE", "DONE"} /\ html \in Pages
    BY <1>6 DEF Pages, HeaderAt
  <2>2. /\ slots' = [slots EXCEPT ![i] = slots'[i]] /\ slots'[i] \in SlotType /\ slots'[i].c = s.c
        /\ slots'[i].page = "post" /\ slots'[i].html = html /\ slots'[i].state = Obey[cmd]
        /\ BufferInv(i)' /\ Gone(i)' = Gone(i) + 1 /\ Owned(i)' = Owned(i) /\ Reply(i)' = Reply(i)
        /\ Line(i) = Wire(s.c)[Gone(i) + 1].n
        /\ \A j \in Slots : j # i => slots'[j] = slots[j]
    BY <1>1, <1>2, <1>3, <1>6, <2>1, PagePast
  <2>3. slots'[i].state \in {"PROCESSHTML", "PARSENEXTLINE"}
        /\ (cmd = "GETLINE" => slots'[i].state = "PARSENEXTLINE")
        /\ (cmd = "CONTINUE" => slots'[i].state = "PROCESSHTML")
    BY <1>6, <2>2, Obeyed
  <2>4. /\ html = "CONTLEN" => cmd = "GETLINE" /\ Gone(i)' \in 0 .. 1
        /\ html = "ENDHDR"  => cmd = "GETLINE" /\ Gone(i)' = 2 /\ Owned(i).kind # "headless"
        /\ html = "JMPFILENOTFOUND" => cmd = "CONTINUE" /\ Owned(i).kind = "headless"
    BY <1>6, <2>2
  <2>5. HeaderInv(i)'
    BY <1>3, <1>6, <2>2, <2>3, <2>4 DEF HeaderInv, HeaderAt, Exchange
  <2>6. BodyInv(i)'
    BY <1>6, <2>2, <2>3, <2>4 DEF BodyInv, HeaderAt, Exchange
  <2>7. Holds(i)' /\ ~Talks(i)' /\ html # "HTTPDISCONNECT"
    BY <1>6, <2>2, <2>3 DEF Holds, Talks, HeaderAt, Exchange
  <2>8. RestInv'
    <3>1. \A j \in Slots : post'.mutex = j => j = i
      BY <1>1, <1>4
    <3>2. post' = [NewPost EXCEPT !.mutex = post'.mutex]
      BY <1>1, <1>4, <1>5
    <3> QED BY <2>2, <2>7, <3>1, <3>2 DEF RestInv
  <2>9. trap' \in BOOLEAN /\ post' \in PostType
    BY <1>1, <1>2 DEF TypeOK
  <2> QED BY <1>1, <1>2, <1>4, <1>5, <2>2, <2>5, <2>6, <2>7, <2>8, <2>9, PageMoves
<1>7. /\ Wire(s.c)[1].n = Url /\ Url # Blank /\ Url # ContentLength /\ Blank # ContentLength
      /\ Owned(i).kind # "headless" => Wire(s.c)[2].n = ContentLength
      /\ Owned(i).kind = "headless" => Wire(s.c)[2].n = Blank
  BY <1>2, WireIs, Fields DEF Owned, Url, Blank, ContentLength
<1>b. /\ Gone(i) = 0 \/ Gone(i) = 1
      /\ Gone(i) = 0 => Wire(s.c)[Gone(i) + 1].n = Url
      /\ Gone(i) = 1 /\ Owned(i).kind # "headless" => Wire(s.c)[Gone(i) + 1].n = ContentLength
      /\ Gone(i) = 1 /\ Owned(i).kind = "headless" => Wire(s.c)[Gone(i) + 1].n = Blank
  <2>1. Gone(i) = 0 \/ Gone(i) = 1
    BY <1>3
  <2>2. Gone(i) = 0 => Gone(i) + 1 = 1
    OBVIOUS
  <2>3. Gone(i) = 1 => Gone(i) + 1 = 2
    OBVIOUS
  <2> QED BY <1>7, <2>1, <2>2, <2>3, Zenon
<1>8. CASE Line(i) = Blank
  <2>1. ReturnsPast(i, "CONTINUE", "JMPFILENOTFOUND")
    BY <1>7, <1>8 DEF ContLen
  <2>2. ASSUME Line(i) = Wire(s.c)[Gone(i) + 1].n PROVE Owned(i).kind = "headless"
    BY <2>2, <1>7, <1>8, <1>b
  <2> QED BY <2>1, <2>2, <1>6 DEF HeaderAt
<1>9. CASE Line(i) = ContentLength
  <2>1. ReturnsPast(i, "GETLINE", "ENDHDR")
    BY <1>7, <1>9 DEF ContLen
  <2>2. ASSUME Line(i) = Wire(s.c)[Gone(i) + 1].n /\ Gone(i)' = Gone(i) + 1
        PROVE  Gone(i)' = 2 /\ Owned(i).kind # "headless"
    BY <2>2, <1>7, <1>9, <1>b
  <2> QED BY <2>1, <2>2, <1>6 DEF HeaderAt
<1>a. CASE Line(i) \notin {Blank, ContentLength}
  <2>1. ReturnsPast(i, "GETLINE", "CONTLEN")
    BY <1>a DEF ContLen
  <2>2. ASSUME Line(i) = Wire(s.c)[Gone(i) + 1].n /\ Gone(i)' = Gone(i) + 1
        PROVE  Gone(i)' \in 0 .. 1
    BY <2>2, <1>7, <1>a, <1>b
  <2> QED BY <2>1, <2>2, <1>6 DEF HeaderAt
<1> QED BY <1>8, <1>9, <1>a

LEMMA EndHdrInv ==
  ASSUME Inv, NEW i, EndHdr(i)
  PROVE  Inv'
<1> DEFINE s == slots[i]
           cmd == IF Len(s.buf) = 1 THEN "READ" ELSE "CONTINUE"
<1>1. /\ At(i, "PROCESSHTML") /\ s.html = "ENDHDR"
      /\ UNCHANGED <<client, port, answer, io, lex, locked, tx, print, trap>>
  BY DEF EndHdr, InPage, Local, world
<1>2. /\ i \in Slots /\ Used(i) /\ s \in SlotType /\ s.state = "PROCESSHTML" /\ turn' = "serial" /\ next' \in Slots
      /\ s.c \in Clients
      /\ Owned(i).conn = "open" /\ BufferInv(i) /\ HeaderInv(i) /\ BodyInv(i) /\ (post.mutex = i <=> Holds(i))
      /\ TypeOK /\ RestInv
  BY <1>1, AtPage DEF Inv
<1>3. s.page = "post" /\ s.buf # <<>> /\ Gone(i) = 2 /\ Reply(i) = <<>> /\ Len(Reply(i)) = 0
      /\ Owned(i).kind # "headless"
  BY <1>1, <1>2 DEF HeaderInv, HeaderAt, Exchange, SlotType
<1>4. post.mutex = i /\ Holds(i)
  BY <1>1, <1>2, <1>3 DEF Holds
<1>5. /\ post = [NewPost EXCEPT !.mutex = i] /\ ~Talks(i) /\ ~Running("post")
      /\ post.avail = 0 /\ post.lexState = "LEXNONE" /\ post.nextState = "LEXNONE"
      /\ post.nextCMD = "CONTINUE" /\ ~post.first /\ ~post.writing /\ post \in PostType
  BY <1>1, <1>2, <1>4, InHeader DEF HeaderAt, TypeOK
<1>6. cmd \in {"CONTINUE", "READ", "GETLINE", "WRITE", "DONE"} /\ cmd \in {"CONTINUE", "READ"}
  OBVIOUS
<1> HIDE DEF cmd
<1>7. ASSUME NEW html \in {"HTTPDISCONNECT", "JSONLEX"}, ReturnsPast(i, cmd, html)
      PROVE  /\ slots' = [slots EXCEPT ![i] = slots'[i]] /\ slots'[i] \in SlotType /\ slots'[i].c = s.c
             /\ slots'[i].page = "post" /\ slots'[i].html = html
             /\ slots'[i].state \in {"PROCESSHTML", "READINPUT"}
             /\ slots'[i].state = "READINPUT" => slots'[i].next = "PROCESSHTML"
             /\ BufferInv(i)' /\ Gone(i)' = 3 /\ Owned(i)' = Owned(i) /\ Reply(i)' = Reply(i)
             /\ \A j \in Slots : j # i => slots'[j] = slots[j]
  <2>1. html \in Pages
    BY <1>7 DEF Pages
  <2>2. /\ slots' = [slots EXCEPT ![i] = slots'[i]] /\ slots'[i] \in SlotType /\ slots'[i].c = s.c
        /\ slots'[i].page = "post" /\ slots'[i].html = html
        /\ slots'[i].state = Obey[cmd] /\ (cmd = "READ" => slots'[i].next = "PROCESSHTML")
        /\ BufferInv(i)' /\ Gone(i)' = Gone(i) + 1 /\ Owned(i)' = Owned(i) /\ Reply(i)' = Reply(i)
        /\ \A j \in Slots : j # i => slots'[j] = slots[j]
    BY <1>1, <1>2, <1>3, <1>6, <1>7, <2>1, PagePast
  <2>3. Obey[cmd] \in {"PROCESSHTML", "READINPUT"} /\ (Obey[cmd] = "READINPUT" => cmd = "READ")
    BY <1>6, Obeyed
  <2>4. Gone(i)' = 3
    BY <2>2, <1>3
  <2> QED BY <2>2, <2>3, <2>4
<1>8. CASE Owned(i).kind = "empty"
  <2>1. ReturnsPast(i, cmd, "HTTPDISCONNECT") /\ post' = post
    BY <1>8 DEF EndHdr, Owned, cmd
  <2>2. /\ slots' = [slots EXCEPT ![i] = slots'[i]] /\ slots'[i] \in SlotType /\ slots'[i].c = s.c
        /\ slots'[i].page = "post" /\ slots'[i].html = "HTTPDISCONNECT"
        /\ slots'[i].state \in {"PROCESSHTML", "READINPUT"}
        /\ slots'[i].state = "READINPUT" => slots'[i].next = "PROCESSHTML"
        /\ BufferInv(i)' /\ Gone(i)' = 3 /\ Owned(i)' = Owned(i) /\ Reply(i)' = Reply(i)
        /\ \A j \in Slots : j # i => slots'[j] = slots[j]
    BY <1>7, <2>1
  <2>3. HeaderInv(i)'
    BY <2>2 DEF HeaderInv, HeaderAt, Exchange
  <2>4. BodyInv(i)'
    BY <2>2 DEF BodyInv, HeaderAt, Exchange
  <2>5. Holds(i)' /\ ~Talks(i)' /\ post'.mutex = i
    BY <1>4, <2>1, <2>2 DEF Holds, Talks, Exchange
  <2>6. RestInv'
    <3>1. ~Unstarted'
      BY <1>2, <2>2, <2>5 DEF Unstarted, HeaderAt
    <3> QED BY <1>5, <2>1, <3>1 DEF RestInv
  <2>7. trap' \in BOOLEAN /\ post' \in PostType /\ (post' = post \/ post.mutex \in {i, NoSlot})
    BY <1>1, <1>2, <2>1 DEF TypeOK
  <2>8. Len(Reply(i)) + One(slots'[i].state = "WRITEBUFFER") <= 3
    BY <1>3, <2>2 DEF One
  <2> QED BY <1>1, <1>2, <1>4, <1>5, <2>1, <2>2, <2>3, <2>4, <2>5, <2>6, <2>7, <2>8, PageMoves
<1>9. CASE Owned(i).kind # "empty"
  <2>1. /\ ReturnsPast(i, cmd, "JSONLEX")
        /\ post' = [post EXCEPT !.avail = 0, !.lexState = "LEXAVAILABLE", !.first = TRUE]
    BY <1>9 DEF EndHdr, Owned, cmd
  <2>2. /\ slots' = [slots EXCEPT ![i] = slots'[i]] /\ slots'[i] \in SlotType /\ slots'[i].c = s.c
        /\ slots'[i].page = "post" /\ slots'[i].html = "JSONLEX"
        /\ slots'[i].state \in {"PROCESSHTML", "READINPUT"}
        /\ slots'[i].state = "READINPUT" => slots'[i].next = "PROCESSHTML"
        /\ BufferInv(i)' /\ Gone(i)' = 3 /\ Owned(i)' = Owned(i) /\ Reply(i)' = Reply(i)
        /\ \A j \in Slots : j # i => slots'[j] = slots[j]
    BY <1>7, <2>1
  <2>3. Owned(i).kind = "json"
    BY <1>2, <1>3, <1>9, Fields
  <2>4. HeaderInv(i)'
    BY <2>2 DEF HeaderInv, HeaderAt, Exchange
  <2>5. BodyInv(i)'
    BY <1>2, <2>2, <2>3 DEF BodyInv, HeaderAt, Exchange
  <2>6. /\ post'.mutex = i /\ post'.avail = 0 /\ post'.lexState = "LEXAVAILABLE" /\ post'.nextState = "LEXNONE"
        /\ post'.nextCMD = "CONTINUE" /\ post'.first /\ ~post'.writing /\ post' \in PostType
    BY <2>1, <1>4, <1>5 DEF PostType
  <2>7. Holds(i)' /\ Talks(i)'
    BY <2>2, <2>6 DEF Holds, Talks, Exchange
  <2>8. RestInv'
    <3>1. ~Unstarted'
      BY <1>2, <2>2, <2>6 DEF Unstarted, HeaderAt
    <3> QED BY <2>6, <3>1 DEF RestInv
  <2>9. Whole(i)'
    <3>1. Asked(i)'
      BY <2>2, <2>6 DEF Asked
    <3>2. Taken' = 0 /\ Out' = 2
      BY <1>1, <1>5 DEF Taken, Out, Running
    <3>3. Owned(i)'.read - Len(slots'[i].buf) = 3 /\ Len(slots'[i].buf) \in Nat /\ Owned(i)'.read \in Nat
      <4>1. Len(slots'[i].buf) \in Nat
        <5>1. slots'[i].buf \in Seq(Piece)
          BY <2>2 DEF SlotType
        <5> QED BY <5>1
      <4> QED BY <1>2, <2>2, <4>1, Fields DEF Gone
    <3>4. /\ Len(Reply(i)') = 0 /\ One(slots'[i].state = "WRITEBUFFER") = 0
          /\ One(post'.lexState = "LEXWAIT" /\ post'.nextCMD = "WRITE") = 0
          /\ One(post'.first) = 1 /\ One(post'.writing) = 0
      BY <1>3, <2>2, <2>6 DEF One
    <3>5. AllThere(i)'
      BY <3>2, <3>3, <2>6 DEF AllThere
    <3>6. AllToCome(i)'
      BY <3>2, <3>4 DEF AllToCome
    <3>7. post'.avail <= Len(slots'[i].buf)
      BY <3>3, <2>6
    <3> QED BY <2>2, <2>6, <3>1, <3>5, <3>6, <3>7, Zenon DEF Whole
  <2>a. trap' \in BOOLEAN
    BY <1>1, <1>2 DEF TypeOK
  <2> QED BY <1>1, <1>2, <1>4, <1>5, <2>1, <2>2, <2>4, <2>5, <2>6, <2>7, <2>8, <2>9, <2>a, PageMoves
<1> QED BY <1>8, <1>9

LEMMA DisconnectInv ==
  ASSUME Inv, NEW i, Disconnect(i)
  PROVE  Inv'
<1> DEFINE s == slots[i]
<1>1. /\ At(i, "PROCESSHTML") /\ s.html = "HTTPDISCONNECT"
      /\ UNCHANGED <<client, port, answer, io, lex, locked, tx, print, trap>>
      /\ post' = Disconnected(i) /\ Returns(i, "DONE", "HTTPDISCONNECT")
  BY DEF Disconnect, InPage, Local, world
<1>2. /\ i \in Slots /\ Used(i) /\ s \in SlotType /\ s.state = "PROCESSHTML" /\ turn' = "serial" /\ next' \in Slots
      /\ Owned(i).conn = "open" /\ BufferInv(i) /\ HeaderInv(i) /\ BodyInv(i) /\ (post.mutex = i <=> Holds(i))
      /\ TypeOK /\ RestInv /\ Len(Reply(i)) <= 3 /\ Len(Reply(i)) \in Nat
  BY <1>1, AtPage, Fields DEF Inv
<1>3. s.page = "post" /\ post.mutex = i /\ ~Talks(i)
  BY <1>1, <1>2 DEF HeaderInv, SlotType, Holds, Talks, Exchange
<1>4. /\ slots' = [slots EXCEPT ![i] = slots'[i]] /\ slots'[i] \in SlotType /\ slots'[i].c = s.c
      /\ slots'[i].page = "post" /\ slots'[i].html = "HTTPDISCONNECT" /\ slots'[i].state = "STOPCLIENT"
      /\ BufferInv(i)' /\ Gone(i)' = Gone(i) /\ Owned(i)' = Owned(i) /\ Reply(i)' = Reply(i)
      /\ \A j \in Slots : j # i => slots'[j] = slots[j]
  BY <1>1, <1>2, <1>3, PageReturns, Obeyed DEF Pages
<1>5. HeaderInv(i)' /\ BodyInv(i)'
  BY <1>4 DEF HeaderInv, BodyInv, HeaderAt, Exchange
<1>6. post' = NewPost /\ post' \in PostType /\ post'.mutex = NoSlot
  BY <1>1, <1>3 DEF Disconnected, NewPost, PostType
<1>7. ~Holds(i)' /\ ~Talks(i)' /\ post'.mutex # i
  BY <1>2, <1>4, <1>6, Consts DEF Holds, Talks, Exchange
<1>8. RestInv'
  <2>1. NewPost = [NewPost EXCEPT !.mutex = NewPost.mutex]
    BY DEF NewPost
  <2> QED BY <1>6, <2>1, Consts DEF RestInv
<1>9. trap' \in BOOLEAN
  BY <1>1, <1>2 DEF TypeOK
<1>a. Len(Reply(i)) + One(slots'[i].state = "WRITEBUFFER") <= 3
  BY <1>2, <1>4 DEF One
<1> QED BY <1>1, <1>2, <1>3, <1>4, <1>5, <1>6, <1>7, <1>8, <1>9, <1>a, PageMoves

-----------------------------------------------------------------------------
(* The page and the stream.                                                *)

\* A page that talks to the stream goes on doing so.
LEMMA TalkStep ==
  ASSUME Inv, NEW i \in Slots, Used(i), Talks(i), UNCHANGED <<client, port, answer, io, lex, locked, tx, print>>,
         trap' \in BOOLEAN, turn' = "serial", next' \in Slots,
         slots' = [slots EXCEPT ![i] = slots'[i]], slots'[i] \in SlotType, slots'[i].c = slots[i].c,
         slots'[i].buf = slots[i].buf, slots'[i].page = slots[i].page, slots'[i].html \in Exchange,
         slots'[i].state # "STOPCLIENT", slots'[i].state # "PARSENEXTLINE",
         slots'[i].state = "READINPUT" => slots'[i].html = "JSONLEX" /\ slots'[i].next = "PROCESSHTML",
         slots'[i].state = "WRITEBUFFER" => slots'[i].out = slots[i].c /\ slots'[i].html \in {"JSONLEX", "WRITEJSON"},
         post' \in PostType, post'.mutex = i, (Broken(i) \/ Whole(i))'
  PROVE  Inv'
<1> DEFINE s == slots[i]
<1>1. /\ Owned(i).conn \in {"open", "gone"} /\ BufferInv(i) /\ HeaderInv(i) /\ BodyInv(i)
      /\ post.mutex = i /\ s.html \in Exchange /\ TypeOK
  BY DEF Inv, SlotInv, Talks
<1>2. s.page = "post" /\ Owned(i).kind = "json" /\ Owned(i).conn = "open" /\ Gone(i) >= 3
  BY <1>1 DEF BodyInv
<1>3. BufferInv(i)' /\ Gone(i)' = Gone(i) /\ Owned(i)' = Owned(i)
  BY <1>1, BufferKept
<1>4. Reply(i)' = Reply(i)
  BY DEF Reply
<1>5. HeaderInv(i)'
  BY <1>2 DEF HeaderInv, HeaderAt, Exchange
<1>6. BodyInv(i)'
  BY <1>2, <1>3 DEF BodyInv, HeaderAt, Exchange
<1>7. Holds(i)' /\ Talks(i)' /\ slots'[i].html # "HTTPDISCONNECT"
  BY <1>2 DEF Holds, Talks, Exchange
<1>8. RestInv'
  <2>1. ~Unstarted'
    BY DEF Unstarted, HeaderAt, Exchange
  <2> QED BY <2>1, <1>7 DEF RestInv
<1> QED BY <1>1, <1>3, <1>4, <1>5, <1>6, <1>7, <1>8, PageMoves

LEMMA JsonLexInv ==
  ASSUME Inv, NEW i, JsonLex(i)
  PROVE  Inv'
<1> DEFINE s == slots[i]
<1>1. /\ At(i, "PROCESSHTML") /\ s.html = "JSONLEX"
      /\ UNCHANGED <<client, port, answer, io, lex, locked, tx, print>>
  BY DEF JsonLex, InPage, world
<1>2. /\ i \in Slots /\ Used(i) /\ s \in SlotType /\ s.state = "PROCESSHTML" /\ turn' = "serial" /\ next' \in Slots
      /\ HeaderInv(i) /\ BodyInv(i) /\ (post.mutex = i <=> Holds(i)) /\ TypeOK /\ BufferInv(i)
      /\ (Talks(i) => Broken(i) \/ Whole(i)) /\ trap \in BOOLEAN
  BY <1>1, AtPage DEF Inv, TypeOK
<1>3. post.mutex = i /\ Talks(i) /\ (Broken(i) \/ Whole(i))
  BY <1>1, <1>2 DEF BodyInv, Holds, Talks, Exchange
<1>4. ASSUME NEW cmd \in {"CONTINUE", "READ", "WRITE"}, Returns(i, cmd, "JSONLEX"), trap' \in BOOLEAN,
             post' \in PostType, post'.mutex = i,
             cmd = "WRITE" => s.out = s.c,
             slots'[i].html = "JSONLEX" /\ slots'[i].buf = s.buf /\ slots'[i].state = Obey[cmd]
               /\ slots'[i].c = s.c /\ Owned(i)' = Owned(i) /\ Reply(i)' = Reply(i) => Whole(i)'
      PROVE  Inv'
  <2>1. cmd \in {"CONTINUE", "READ", "GETLINE", "WRITE", "DONE"} /\ "JSONLEX" \in Pages
    BY <1>4 DEF Pages
  <2>2. /\ slots' = [slots EXCEPT ![i] = slots'[i]] /\ slots'[i] \in SlotType /\ slots'[i].c = s.c
        /\ slots'[i].buf = s.buf /\ slots'[i].page = s.page /\ slots'[i].out = s.out
        /\ slots'[i].html = "JSONLEX" /\ slots'[i].state = Obey[cmd]
        /\ cmd = "READ" => slots'[i].next = "PROCESSHTML"
        /\ Owned(i)' = Owned(i) /\ Reply(i)' = Reply(i)
    BY <1>1, <1>2, <1>4, <2>1, PageReturns
  <2>3. /\ Obey[cmd] \in {"PROCESSHTML", "READINPUT", "WRITEBUFFER"}
        /\ (Obey[cmd] = "READINPUT" => cmd = "READ") /\ (Obey[cmd] = "WRITEBUFFER" => cmd = "WRITE")
    BY <1>4, Obeyed
  <2>4. Whole(i)'
    BY <1>4, <2>2
  <2> QED BY <1>1, <1>2, <1>3, <1>4, <2>2, <2>3, <2>4, TalkStep DEF Exchange
<1>5. Taken' = Taken /\ Out' = Out
  BY <1>1 DEF Taken, Out, Count, Running
<1>6. post \in PostType
  BY <1>2 DEF TypeOK
<1>7. CASE post.lexState \in {"LEXAVAILABLE", "LEXLISTEN"}
  <2> DEFINE more == IF post.lexState = "LEXAVAILABLE" THEN post.avail + Len(s.buf) ELSE post.avail
  <2>1. /\ Returns(i, "CONTINUE", "JSONLEX") /\ trap' = trap
        /\ post' = [post EXCEPT !.avail = more, !.nextState = "LEXWAIT", !.nextCMD = "CONTINUE",
                                 !.lexState = "LEXWAIT"]
    BY <1>7 DEF JsonLex
  <2>2. Whole(i)
    BY <1>3, <1>7 DEF Broken
  <2>3. post.avail \in Nat /\ Len(s.buf) \in Nat
    BY <1>2, <1>6, Fields DEF PostType
  <2>4. more \in Nat
    BY <2>3
  <2>5. more <= Len(s.buf)
    <3>1. post.avail <= Len(s.buf)
      BY <2>2 DEF Whole
    <3>2. post.lexState = "LEXAVAILABLE" => post.avail = 0
      BY <2>2 DEF Whole, Asked, Waits, Writes
    <3> QED BY <2>3, <3>1, <3>2
  <2>6. Taken + more = Owned(i).read - 3
    <3>1. AllThere(i) /\ (post.lexState = "LEXAVAILABLE" => post.avail = 0)
      BY <2>2 DEF Whole, Asked, Waits, Writes
    <3>2. post.lexState = "LEXAVAILABLE" => Taken + 0 + Len(s.buf) = Owned(i).read - 3
      BY <3>1 DEF AllThere
    <3>3. post.lexState # "LEXAVAILABLE" => Taken + post.avail + 0 = Owned(i).read - 3
      BY <3>1 DEF AllThere
    <3>4. Taken \in Nat
      BY <1>2 DEF Taken, Count, TypeOK, LexType
    <3> QED BY <2>3, <3>1, <3>2, <3>3, <3>4
  <2> HIDE DEF more
  <2>7. /\ post' \in PostType /\ post'.mutex = i /\ post'.avail = more /\ post'.nextState = "LEXWAIT"
        /\ post'.nextCMD = "CONTINUE" /\ post'.lexState = "LEXWAIT" /\ post'.writing = post.writing
        /\ post'.first = post.first
    BY <1>3, <1>6, <2>1, <2>4 DEF PostType
  <2>8. ASSUME slots'[i].html = "JSONLEX", slots'[i].buf = s.buf, slots'[i].state = Obey["CONTINUE"],
               slots'[i].c = s.c, Owned(i)' = Owned(i), Reply(i)' = Reply(i)
        PROVE  Whole(i)'
    <3>1. slots'[i].state = "PROCESSHTML"
      BY <2>8, Obeyed
    <3>2. Waits(i)'
      BY <2>7, <2>8, <3>1 DEF Waits
    <3>3. AllThere(i)'
      <4>1. Taken + more + 0 = Owned(i).read - 3
        BY <2>4, <2>6, <1>2 DEF Taken, Count, TypeOK, LexType
      <4> QED BY <1>5, <2>7, <2>8, <4>1 DEF AllThere
    <3>4. AllToCome(i)'
      <4>1. AllToCome(i)
        BY <2>2 DEF Whole
      <4>2. One(post.lexState = "LEXWAIT" /\ post.nextCMD = "WRITE") = 0
            /\ One(post'.lexState = "LEXWAIT" /\ post'.nextCMD = "WRITE") = 0
        BY <1>7, <2>7 DEF One
      <4> QED BY <1>2, <1>5, <2>7, <2>8, <3>1, <4>1, <4>2 DEF AllToCome
    <3>5. (post.writing => io["post"] = "WRITE")'
      BY <1>1, <2>2, <2>7 DEF Whole
    <3>6. post'.avail <= Len(slots'[i].buf) /\ slots'[i].html # "WRITEHTTP"
      BY <2>5, <2>7, <2>8
    <3> QED BY <3>2, <3>3, <3>4, <3>5, <3>6 DEF Whole
  <2> QED BY <1>2, <1>4, <2>1, <2>7, <2>8
<1>8. CASE post.lexState = "LEXWAIT"
  <2>1. /\ Returns(i, post.nextCMD, "JSONLEX") /\ trap' = trap
        /\ post' = [post EXCEPT !.lexState = post.nextState]
    BY <1>8 DEF JsonLex
  <2>2. Whole(i)
    BY <1>3, <1>8 DEF Broken
  <2>3. /\ post' \in PostType /\ post'.mutex = i /\ post'.avail = post.avail /\ post'.nextState = post.nextState
        /\ post'.nextCMD = post.nextCMD /\ post'.lexState = post.nextState /\ post'.writing = post.writing
        /\ post'.first = post.first /\ post.nextCMD \in {"CONTINUE", "READ", "WRITE"}
    BY <1>3, <1>6, <2>1 DEF PostType
  <2>4. \/ post.nextState = "LEXWAIT" /\ post.nextCMD = "CONTINUE"
        \/ post.nextState = "LEXAVAILABLE" /\ post.nextCMD = "READ" /\ post.avail = 0 /\ s.buf = <<>>
        \/ post.nextState = "LEXLISTEN" /\ io["post"] = "WRITE" /\ post.nextCMD = "CONTINUE"
        \/ post.nextState = "LEXLISTEN" /\ io["post"] = "WRITE" /\ post.nextCMD = "WRITE" /\ s.out = s.c
    BY <1>1, <1>8, <2>2 DEF Whole, Asked, Waits, Writes
  <2>5. ASSUME slots'[i].html = "JSONLEX", slots'[i].buf = s.buf, slots'[i].state = Obey[post.nextCMD],
               slots'[i].c = s.c, Owned(i)' = Owned(i), Reply(i)' = Reply(i)
        PROVE  Whole(i)'
    <3>1. /\ post.nextCMD = "CONTINUE" => slots'[i].state = "PROCESSHTML"
          /\ post.nextCMD = "READ" => slots'[i].state = "READINPUT"
          /\ post.nextCMD = "WRITE" => slots'[i].state = "WRITEBUFFER"
      BY <2>5, Obeyed
    <3>2. (Asked(i) \/ Waits(i) \/ Writes(i))'
      BY <1>1, <2>3, <2>4, <2>5, <3>1 DEF Asked, Waits, Writes
    <3>3. AllThere(i)'
      <4>1. AllThere(i) /\ (post.nextState = "LEXAVAILABLE" => Len(s.buf) = 0)
        BY <2>2, <2>4 DEF Whole
      <4> QED BY <1>5, <1>8, <2>3, <2>5, <4>1 DEF AllThere
    <3>4. AllToCome(i)'
      <4>1. AllToCome(i)
        BY <2>2 DEF Whole
      <4>2. One(slots'[i].state = "WRITEBUFFER") + One(post'.lexState = "LEXWAIT" /\ post'.nextCMD = "WRITE")
              = One(s.state = "WRITEBUFFER") + One(post.lexState = "LEXWAIT" /\ post.nextCMD = "WRITE")
        <5>1. CASE post.nextCMD = "WRITE"
          BY <1>2, <1>8, <2>3, <2>4, <3>1, <5>1 DEF One
        <5>2. CASE post.nextCMD # "WRITE"
          BY <1>2, <1>8, <2>3, <2>4, <3>1, <5>2 DEF One
        <5> QED BY <5>1, <5>2
      <4>3. /\ One(s.state = "WRITEBUFFER") \in Nat /\ One(slots'[i].state = "WRITEBUFFER") \in Nat
            /\ One(post.lexState = "LEXWAIT" /\ post.nextCMD = "WRITE") \in Nat
            /\ One(post'.lexState = "LEXWAIT" /\ post'.nextCMD = "WRITE") \in Nat
            /\ One(post.first) \in Nat /\ One(post.writing) \in Nat
        BY DEF One
      <4>4. Len(Reply(i)) \in Nat /\ Out \in Nat
        BY <1>2, Fields DEF Out, TypeOK, LexType
      <4> DEFINE a == One(s.state = "WRITEBUFFER")
                 b == One(post.lexState = "LEXWAIT" /\ post.nextCMD = "WRITE")
                 x == One(slots'[i].state = "WRITEBUFFER")
                 y == One(post'.lexState = "LEXWAIT" /\ post'.nextCMD = "WRITE")
                 f == One(post.first)
                 w == One(post.writing)
      <4>5. Len(Reply(i)) + a + b + f + Out = 3 + w
        BY <4>1 DEF AllToCome
      <4>6. Len(Reply(i)') = Len(Reply(i)) /\ One(post'.first) = f /\ One(post'.writing) = w /\ Out' = Out
        BY <1>5, <2>3, <2>5
      <4>7. AllToCome(i)' <=> Len(Reply(i)') + x + y + One(post'.first) + Out' = 3 + One(post'.writing)
        BY DEF AllToCome
      <4>8. a \in Nat /\ b \in Nat /\ x \in Nat /\ y \in Nat /\ f \in Nat /\ w \in Nat /\ x + y = a + b
        BY <4>2, <4>3
      <4> HIDE DEF a, b, x, y, f, w
      <4>9. Len(Reply(i)) + x + y + f + Out = 3 + w
        BY <4>4, <4>5, <4>8
      <4> QED BY <4>6, <4>7, <4>9
    <3>5. (post.writing => io["post"] = "WRITE")'
      BY <1>1, <2>2, <2>3 DEF Whole
    <3>6. post'.avail <= Len(slots'[i].buf) /\ slots'[i].html # "WRITEHTTP"
      BY <2>2, <2>3, <2>5 DEF Whole
    <3> QED BY <3>2, <3>3, <3>4, <3>5, <3>6 DEF Whole
  <2>6. post.nextCMD = "WRITE" => s.out = s.c
    BY <2>4
  <2>7. trap' \in BOOLEAN
    BY <1>2, <2>1
  <2> QED BY <1>4, <2>1, <2>3, <2>5, <2>6, <2>7
<1>9. CASE post.lexState \notin {"LEXAVAILABLE", "LEXLISTEN", "LEXWAIT"}
  <2>1. trap' = TRUE /\ slots' = slots /\ post' = post
    BY <1>9 DEF JsonLex
  <2>2. slots' = [slots EXCEPT ![i] = slots'[i]]
    BY <1>2, <2>1 DEF TypeOK
  <2>3. Broken(i) /\ Broken(i)'
    BY <1>1, <1>3, <1>9, <2>1 DEF Whole, Broken, Asked, Waits, Writes, Reply
  <2> QED BY <1>1, <1>2, <1>3, <1>6, <2>1, <2>2, <2>3, TalkStep DEF Exchange
<1> QED BY <1>7, <1>8, <1>9

\* The answer goes to whoever the lexer took the command from.
LEMMA OwnerIs ==
  ASSUME Inv, NEW s \in Streams, io[s] = "WRITE"
  PROVE  /\ Owner = Sender(s) /\ InTurn(s) /\ Running(s) /\ lex.output /\ lex.out > 0
<1>1. Running(s) /\ InTurn(s)
  BY DEF Running, Inv, LexInv
<1>2. lex.output /\ Len(lex.got) = Pieces /\ lex.out > 0
  BY <1>1 DEF InTurn
<1>3. 1 \in 1 .. Len(lex.got)
  BY <1>2, Consts
<1>4. lex.got[1] = [of |-> Sender(s), n |-> 1]
  BY <1>1, <1>3 DEF InTurn
<1>5. lex.got # <<>>
  BY <1>2, Consts
<1> QED BY <1>1, <1>2, <1>4, <1>5 DEF Owner

LEMMA WriteHttpInv ==
  ASSUME Inv, NEW i, WriteHttp(i)
  PROVE  Inv'
<1> DEFINE s == slots[i]
           e1 == [s EXCEPT !.html = "WRITEJSON"]
           e2 == [e1 EXCEPT !.state = "WRITEBUFFER"]
           e3 == [e2 EXCEPT !.out = Owner]
<1>1. /\ At(i, "PROCESSHTML") /\ s.html = "WRITEHTTP"
      /\ UNCHANGED <<client, port, answer, io, lex, locked, tx, print, trap>>
      /\ post' = [post EXCEPT !.first = FALSE] /\ slots' = [slots EXCEPT ![i] = e3]
  BY DEF WriteHttp, InPage, Local, world, HeaderWritten
<1>2. /\ i \in Slots /\ Used(i) /\ s \in SlotType /\ s.state = "PROCESSHTML" /\ turn' = "serial" /\ next' \in Slots
      /\ HeaderInv(i) /\ BodyInv(i) /\ (post.mutex = i <=> Holds(i)) /\ TypeOK /\ BufferInv(i)
      /\ (Talks(i) => Broken(i) \/ Whole(i)) /\ trap \in BOOLEAN /\ s.c \in Senders
  BY <1>1, AtPage, Fields DEF Inv, TypeOK
<1>3. post.mutex = i /\ Talks(i) /\ (Broken(i) \/ Whole(i))
  BY <1>1, <1>2 DEF BodyInv, Holds, Talks, Exchange
<1>4. io["post"] = "WRITE"
  BY <1>1, <1>3 DEF Broken, Whole, Asked, Waits, Writes
<1>5. Owner = s.c
  BY <1>3, <1>4, OwnerIs DEF Sender, Streams
<1>6. /\ e1 \in SlotType /\ e1.html = "WRITEJSON" /\ e1.c = s.c /\ e1.buf = s.buf /\ e1.page = s.page
  BY <1>2 DEF SlotType
<1> HIDE DEF e1
<1>7. /\ e2 \in SlotType /\ e2.html = e1.html /\ e2.c = e1.c /\ e2.buf = e1.buf /\ e2.page = e1.page
      /\ e2.state = "WRITEBUFFER"
  BY <1>6 DEF SlotType
<1> HIDE DEF e2
<1>8. /\ e3 \in SlotType /\ e3.html = e2.html /\ e3.c = e2.c /\ e3.buf = e2.buf /\ e3.page = e2.page
      /\ e3.state = e2.state /\ e3.out = s.c
  BY <1>2, <1>5, <1>7 DEF SlotType
<1> HIDE DEF e3
<1>9. i \in DOMAIN slots
  BY <1>2, Fields
<1>a. /\ slots'[i] = e3 /\ e3.html = "WRITEJSON" /\ e3.c = s.c /\ e3.buf = s.buf /\ e3.page = s.page
      /\ e3.state = "WRITEBUFFER" /\ e3.out = s.c
  BY <1>1, <1>6, <1>7, <1>8, <1>9
<1>b. /\ post' \in PostType /\ post'.mutex = i /\ post'.avail = post.avail /\ post'.nextState = post.nextState
      /\ post'.nextCMD = post.nextCMD /\ post'.lexState = post.lexState /\ post'.writing = post.writing
      /\ ~post'.first /\ post'.first \in BOOLEAN
  BY <1>1, <1>2, <1>3 DEF PostType, TypeOK
<1>c. Taken' = Taken /\ Out' = Out /\ Reply(i)' = Reply(i) /\ Owned(i)' = Owned(i)
  BY <1>1, <1>a DEF Taken, Out, Count, Running, Reply, Owned
<1>d. Len(Reply(i)) \in Nat /\ Out \in Nat
  BY <1>2, Fields DEF Out, TypeOK, LexType
<1>e. /\ One(s.state = "WRITEBUFFER") = 0 /\ One(slots'[i].state = "WRITEBUFFER") = 1
      /\ One(s.html = "WRITEHTTP") = 1 /\ One(slots'[i].html = "WRITEHTTP") = 0
  BY <1>1, <1>2, <1>a DEF One
<1>f. CASE Broken(i)
  <2>1. Len(Reply(i)) + 0 + 1 <= 3
    BY <1>e, <1>f DEF Broken
  <2>2. Len(Reply(i)') + One(slots'[i].state = "WRITEBUFFER") + One(slots'[i].html = "WRITEHTTP") <= 3
    BY <2>1, <1>c, <1>d, <1>e
  <2>3. Broken(i)'
    BY <2>2, <1>1, <1>4, <1>b, <1>f DEF Broken
  <2> QED BY <2>3, <1>1, <1>2, <1>3, <1>8, <1>a, <1>b, TalkStep DEF Exchange
<1>g. CASE Whole(i)
  <2>1. post.nextState = "LEXLISTEN" /\ post.lexState = "LEXWAIT" /\ post.nextCMD = "CONTINUE" /\ post.first
    BY <1>1, <1>g DEF Whole, Asked, Waits, Writes
  <2>2. Writes(i)'
    BY <2>1, <1>1, <1>4, <1>a, <1>b DEF Writes
  <2>3. AllThere(i)'
    BY <1>a, <1>b, <1>c, <1>g DEF Whole, AllThere
  <2>4. AllToCome(i)'
    <3>1. AllToCome(i)
      BY <1>g DEF Whole
    <3>2. /\ One(post.lexState = "LEXWAIT" /\ post.nextCMD = "WRITE") = 0
          /\ One(post'.lexState = "LEXWAIT" /\ post'.nextCMD = "WRITE") = 0
          /\ One(post.first) = 1 /\ One(post'.first) = 0
      BY <2>1, <1>b DEF One
    <3> QED BY <3>1, <3>2, <1>b, <1>c, <1>d, <1>e DEF AllToCome
  <2>5. Whole(i)'
    BY <1>1, <1>4, <1>a, <1>b, <1>g, <2>2, <2>3, <2>4 DEF Whole
  <2> QED BY <2>5, <1>1, <1>2, <1>3, <1>8, <1>a, <1>b, TalkStep DEF Exchange
<1> QED BY <1>3, <1>f, <1>g

LEMMA WriteJsonInv ==
  ASSUME Inv, NEW i, WriteJson(i)
  PROVE  Inv'
<1> DEFINE s == slots[i]
<1>1. /\ At(i, "PROCESSHTML") /\ s.html = "WRITEJSON" /\ Returns(i, "CONTINUE", "JSONLEX")
      /\ UNCHANGED <<client, port, answer, io, lex, locked, tx, print, trap>>
      /\ post' = [post EXCEPT !.nextState = "LEXLISTEN", !.nextCMD = "CONTINUE"]
  BY DEF WriteJson, InPage, Local, world
<1>2. /\ i \in Slots /\ Used(i) /\ s \in SlotType /\ s.state = "PROCESSHTML" /\ turn' = "serial" /\ next' \in Slots
      /\ HeaderInv(i) /\ BodyInv(i) /\ (post.mutex = i <=> Holds(i)) /\ TypeOK /\ BufferInv(i)
      /\ (Talks(i) => Broken(i) \/ Whole(i)) /\ trap \in BOOLEAN
  <2>1. /\ i \in Slots /\ Used(i) /\ s \in SlotType /\ s.state = "PROCESSHTML" /\ turn' = "serial" /\ next' \in Slots
        /\ HeaderInv(i) /\ BodyInv(i) /\ (post.mutex = i <=> Holds(i)) /\ BufferInv(i)
        /\ (Talks(i) => Broken(i) \/ Whole(i))
    BY <1>1, AtPage
  <2>2. TypeOK /\ trap \in BOOLEAN
    BY DEF Inv, TypeOK
  <2> QED BY <2>1, <2>2
<1>3. post.mutex = i /\ Talks(i) /\ (Broken(i) \/ Whole(i))
  BY <1>1, <1>2 DEF BodyInv, Holds, Talks, Exchange
<1>4. io["post"] = "WRITE"
  BY <1>1, <1>3 DEF Broken, Whole, Asked, Waits, Writes
<1>5. /\ slots' = [slots EXCEPT ![i] = slots'[i]] /\ slots'[i] \in SlotType /\ slots'[i].c = s.c
      /\ slots'[i].buf = s.buf /\ slots'[i].page = s.page
      /\ slots'[i].html = "JSONLEX" /\ slots'[i].state = "PROCESSHTML"
      /\ Owned(i)' = Owned(i) /\ Reply(i)' = Reply(i)
  BY <1>1, <1>2, PageReturns, Obeyed DEF Pages
<1>6. /\ post' \in PostType /\ post'.mutex = i /\ post'.avail = post.avail /\ post'.nextState = "LEXLISTEN"
      /\ post'.nextCMD = "CONTINUE" /\ post'.lexState = post.lexState /\ post'.writing = post.writing
      /\ post'.first = post.first
  BY <1>1, <1>2, <1>3 DEF PostType, TypeOK
<1>7. Taken' = Taken /\ Out' = Out
  BY <1>1 DEF Taken, Out, Count, Running
<1>8. /\ One(slots'[i].state = "WRITEBUFFER") = One(s.state = "WRITEBUFFER")
      /\ One(slots'[i].html = "WRITEHTTP") = 0 /\ One(s.html = "WRITEHTTP") = 0
  BY <1>1, <1>2, <1>5 DEF One
<1>9. CASE Broken(i)
  <2>1. Broken(i)'
    BY <1>1, <1>4, <1>5, <1>6, <1>8, <1>9 DEF Broken
  <2> QED BY <2>1, <1>1, <1>2, <1>3, <1>5, <1>6, TalkStep DEF Exchange
<1>a. CASE Whole(i)
  <2>1. post.lexState = "LEXWAIT" /\ post.nextCMD = "CONTINUE"
    BY <1>1, <1>a DEF Whole, Asked, Waits, Writes
  <2>2. Writes(i)'
    BY <2>1, <1>1, <1>4, <1>5, <1>6 DEF Writes
  <2>3. AllThere(i)'
    BY <1>5, <1>6, <1>7, <1>a DEF Whole, AllThere
  <2>4. AllToCome(i)'
    BY <1>5, <1>6, <1>7, <1>8, <1>a, <2>1 DEF Whole, AllToCome
  <2>5. Whole(i)'
    BY <1>1, <1>4, <1>5, <1>6, <1>a, <2>2, <2>3, <2>4 DEF Whole
  <2> QED BY <2>5, <1>1, <1>2, <1>3, <1>5, <1>6, TalkStep DEF Exchange
<1> QED BY <1>3, <1>9, <1>a

LEMMA WriteBufferInv ==
  ASSUME Inv, NEW i, WriteBuffer(i)
  PROVE  Inv'
<1> DEFINE s == slots[i]
           e1 == [s EXCEPT !.state = "PROCESSHTML"]
           e2 == [e1 EXCEPT !.out = Nobody]
<1>1. /\ At(i, "WRITEBUFFER") /\ UNCHANGED <<client, port, post, io, lex, locked, tx, print, trap>>
      /\ answer' = [answer EXCEPT ![s.c] = Append(@, s.out)] /\ slots' = [slots EXCEPT ![i] = e2]
  BY DEF WriteBuffer, world
<1>2. /\ i \in Slots /\ Used(i) /\ s \in SlotType /\ s.state = "WRITEBUFFER" /\ turn' = "serial" /\ next' \in Slots
      /\ HeaderInv(i) /\ BodyInv(i) /\ (post.mutex = i <=> Holds(i)) /\ TypeOK /\ BufferInv(i)
      /\ (Talks(i) => Broken(i) \/ Whole(i)) /\ s.c \in Senders /\ i \in DOMAIN slots /\ Owned(i).conn = "open"
      /\ Reply(i) \in Seq(Senders \cup {Nobody}) /\ RestInv
      /\ (\A k \in 1 .. Len(Reply(i)) : Reply(i)[k] = s.c)
      /\ (s.html = "HTTPDISCONNECT" => Len(Reply(i)) + One(s.state = "WRITEBUFFER") <= 3)
  BY <1>1, AtPage, Fields DEF Inv
<1>3. Len(Reply(i)) \in Nat
  BY <1>2
<1>4. s.out = s.c /\ s.html \in {"JSONLEX", "WRITEJSON", "HTTPDISCONNECT"} /\ s.page = "post"
  BY <1>2 DEF BodyInv, HeaderInv, SlotType
<1>5. /\ e1 \in SlotType /\ e1.html = s.html /\ e1.c = s.c /\ e1.buf = s.buf /\ e1.page = s.page
      /\ e1.state = "PROCESSHTML"
  BY <1>2 DEF SlotType
<1> HIDE DEF e1
<1>6. /\ e2 \in SlotType /\ e2.html = e1.html /\ e2.c = e1.c /\ e2.buf = e1.buf /\ e2.page = e1.page
      /\ e2.state = e1.state
  BY <1>5 DEF SlotType
<1> HIDE DEF e2
<1>7. /\ slots'[i] = e2 /\ e2.html = s.html /\ e2.c = s.c /\ e2.buf = s.buf /\ e2.page = s.page
      /\ e2.state = "PROCESSHTML" /\ \A j \in Slots : j # i => slots'[j] = slots[j]
  BY <1>1, <1>2, <1>5, <1>6, Fields
<1>8. /\ Reply(i)' = Append(Reply(i), s.c) /\ Owned(i)' = Owned(i)
      /\ answer' \in [Senders -> Seq(Senders \cup {Nobody})]
      /\ \A a \in Senders : a # s.c => answer'[a] = answer[a]
  <2>1. answer \in [Senders -> Seq(Senders \cup {Nobody})]
    BY <1>2 DEF TypeOK
  <2>2. answer' = [answer EXCEPT ![s.c] = Append(Reply(i), s.c)]
    BY <1>1, <1>4 DEF Reply
  <2>3. Append(Reply(i), s.c) \in Seq(Senders \cup {Nobody})
    BY <1>2
  <2>4. Reply(i)' = answer'[s.c] /\ Owned(i)' = Owned(i)
    BY <1>1, <1>7 DEF Reply, Owned
  <2> QED BY <1>2, <2>1, <2>2, <2>3, <2>4
<1>9. /\ Len(Reply(i)') = Len(Reply(i)) + 1
      /\ \A k \in 1 .. Len(Reply(i)') : Reply(i)'[k] = s.c
  <2>1. Len(Reply(i)') = Len(Reply(i)) + 1
    BY <1>2, <1>8
  <2>2. \A k \in 1 .. Len(Reply(i)) : Reply(i)'[k] = Reply(i)[k]
    BY <1>2, <1>8
  <2>3. Reply(i)'[Len(Reply(i)) + 1] = s.c
    BY <1>2, <1>8
  <2>4. \A k \in 1 .. Len(Reply(i)) + 1 : k \in 1 .. Len(Reply(i)) \/ k = Len(Reply(i)) + 1
    BY <1>3
  <2>5. \A k \in 1 .. Len(Reply(i)) : Reply(i)'[k] = s.c
    BY <1>2, <2>2
  <2> QED BY <2>1, <2>3, <2>4, <2>5
<1>a. TypeOK'
  BY <1>1, <1>2, <1>6, <1>8, PageTypes DEF TypeOK
<1>b. PageFrame(i)
  BY <1>1, <1>7, <1>8 DEF PageFrame, Owned
<1>c. BufferInv(i)' /\ Gone(i)' = Gone(i)
  BY <1>1, <1>2, <1>7, BufferKept
<1>d. HeaderInv(i)'
  BY <1>4, <1>7 DEF HeaderInv, HeaderAt, Exchange
<1>e. BodyInv(i)'
  BY <1>2, <1>4, <1>7, <1>8, <1>c DEF BodyInv, HeaderAt, Exchange
<1>f. SlotInv(i)' /\ Used(i)'
  BY <1>2, <1>7, <1>8, <1>c, <1>d, <1>e DEF SlotInv, Used
<1>g. (post'.mutex = i <=> Holds(i)') /\ Talks(i)' = Talks(i)
  BY <1>1, <1>2, <1>7 DEF Holds, Talks
<1>h. RestInv'
  <2>1. \A j \in Slots : slots'[j].html = slots[j].html
    BY <1>7
  <2> QED BY <1>1, <1>2, <2>1 DEF RestInv, Unstarted
<1>i. /\ One(s.state = "WRITEBUFFER") = 1 /\ One(slots'[i].state = "WRITEBUFFER") = 0
      /\ One(s.html = "WRITEHTTP") = 0 /\ One(slots'[i].html = "WRITEHTTP") = 0
  BY <1>2, <1>4, <1>7 DEF One
<1>j. Taken' = Taken /\ Out' = Out
  BY <1>1 DEF Taken, Out, Count, Running
<1>k. ASSUME Talks(i) PROVE (Broken(i) \/ Whole(i))' /\ Len(Reply(i)') <= 3
  <2>1. CASE Broken(i)
    <3>1. Len(Reply(i)) + 1 + 0 <= 3
      BY <2>1, <1>i DEF Broken
    <3>2. Len(Reply(i)') <= 3
          /\ Len(Reply(i)') + One(slots'[i].state = "WRITEBUFFER") + One(slots'[i].html = "WRITEHTTP") <= 3
      BY <3>1, <1>3, <1>9, <1>i
    <3>3. Broken(i)'
      BY <3>2, <2>1, <1>1, <1>7 DEF Broken
    <3> QED BY <3>2, <3>3
  <2>2. CASE Whole(i)
    <3>1. Writes(i)'
      BY <2>2, <1>1, <1>2, <1>7 DEF Whole, Asked, Waits, Writes
    <3>2. AllThere(i)'
      BY <2>2, <1>1, <1>7, <1>8, <1>j DEF Whole, AllThere
    <3>3. Out \in Nat /\ (post.writing => Out >= 1)
      <4>1. Out \in Nat
        BY <1>2 DEF Out, TypeOK, LexType
      <4>2. ASSUME post.writing PROVE Out >= 1
        <5>1. io["post"] = "WRITE"
          BY <2>2, <4>2 DEF Whole
        <5>2. Running("post") /\ lex.output /\ lex.out > 0
          BY <5>1, OwnerIs DEF Streams
        <5> QED BY <5>2, <1>2 DEF Out, TypeOK, LexType
      <4> QED BY <4>1, <4>2
    <3>4. Len(Reply(i)) + 1 + One(post.lexState = "LEXWAIT" /\ post.nextCMD = "WRITE") + One(post.first) + Out
            = 3 + One(post.writing)
      BY <2>2, <1>i DEF Whole, AllToCome
    <3>5. /\ One(post.lexState = "LEXWAIT" /\ post.nextCMD = "WRITE") \in Nat /\ One(post.first) \in Nat
          /\ One(post.writing) \in Nat /\ (One(post.writing) = 0 \/ (One(post.writing) = 1 /\ Out >= 1))
      BY <3>3 DEF One
    <3>6. Len(Reply(i)') <= 3
      BY <3>3, <3>4, <3>5, <1>3, <1>9
    <3>7. AllToCome(i)'
      BY <3>3, <3>4, <3>5, <1>1, <1>3, <1>9, <1>i, <1>j DEF AllToCome
    <3>8. Whole(i)'
      BY <2>2, <3>1, <3>2, <3>7, <1>1, <1>4, <1>7 DEF Whole
    <3> QED BY <3>6, <3>8
  <2> QED BY <2>1, <2>2, <1>k, <1>2
<1>l. s.html = "HTTPDISCONNECT" => Len(Reply(i)') + One(slots'[i].state = "WRITEBUFFER") <= 3 /\ Len(Reply(i)') <= 3
  <2>1. s.html = "HTTPDISCONNECT" => Len(Reply(i)) + 1 <= 3
    BY <1>2, <1>i
  <2> QED BY <2>1, <1>3, <1>9, <1>i
<1>m. Talks(i) \/ s.html = "HTTPDISCONNECT"
  BY <1>2, <1>4 DEF Talks, Holds, Exchange
<1>n. Len(Reply(i)') <= 3 /\ (Talks(i)' => (Broken(i) \/ Whole(i))')
      /\ (slots'[i].html = "HTTPDISCONNECT" => Len(Reply(i)') + One(slots'[i].state = "WRITEBUFFER") <= 3)
  BY <1>g, <1>k, <1>l, <1>m, <1>7
<1> QED BY <1>2, <1>9, <1>a, <1>b, <1>f, <1>g, <1>h, <1>n, PageStep

\* The invariant does not look at turn, next, tx and trap.
LEMMA Aside ==
  ASSUME Inv, TypeOK', UNCHANGED <<client, port, answer, slots, post, io, lex>>, LockInv', LoneInv'
  PROVE  Inv'
<1>1. \A i \in Slots : /\ SlotInv(i)' /\ (Used(i)' <=> Used(i)) /\ (Holds(i)' <=> Holds(i))
                       /\ (Talks(i)' <=> Talks(i)) /\ Owned(i)' = Owned(i) /\ Reply(i)' = Reply(i)
  <2>1. ASSUME NEW i \in Slots PROVE SlotInv(i)'
    BY SlotKept DEF Inv
  <2> QED BY <2>1 DEF Used, Holds, Talks, Owned, Reply
<1>2. Apart' /\ NewInv' /\ MutexInv' /\ EndInv'
  BY <1>1 DEF Inv, Apart, NewInv, MutexInv, EndInv
<1>3. RestInv'
  BY DEF Inv, RestInv, Unstarted
<1>4. TalkInv'
  <2>1. ASSUME NEW i \in Slots PROVE Talks(i)' => (Broken(i) \/ Whole(i))'
    BY TalkKept DEF Inv, TalkInv
  <2> QED BY <2>1 DEF TalkInv
<1>5. LexInv'
  BY LexKept DEF Inv
<1>6. PostRuns' /\ SerialInv' /\ OwnInv'
  BY <1>1 DEF Inv, PostRuns, SerialInv, OwnInv, Running, Count
<1> QED BY <1>1, <1>2, <1>3, <1>4, <1>5, <1>6 DEF Inv

LEMMA Elsewhere ==
  ASSUME Inv, TypeOK', UNCHANGED <<client, port, answer, slots, post, io, lex, locked, print>>
  PROVE  Inv'
<1>1. LockInv'
  BY DEF Inv, LockInv, Running
<1>2. LoneInv'
  BY DEF Inv, LoneInv, PortBusy, Running, Used, Owned
<1> QED BY <1>1, <1>2, Aside

LEMMA NoClientInv ==
  ASSUME Inv, NoClient
  PROVE  Inv'
<1>1. /\ UNCHANGED <<client, port, answer, slots, next, post, io, lex, locked, tx, print, trap>> /\ turn' = "serial"
  BY DEF NoClient, world, http, Turn, Following
<1>2. TypeOK'
  BY <1>1 DEF Inv, TypeOK
<1> QED BY <1>1, <1>2, Elsewhere

LEMMA ReadInputInv ==
  ASSUME Inv, NEW i, ReadInput(i)
  PROVE  Inv'
<1> DEFINE s == slots[i]
           c == s.c
           more == Unread(i)
           e1 == [s EXCEPT !.buf = @ \o more]
           e2 == [e1 EXCEPT !.page = "post"]
           e3 == [e2 EXCEPT !.state = s.next]
           e4 == [e3 EXCEPT !.next = ""]
<1>1. At(i, "READINPUT") /\ UNCHANGED <<port, answer, post, io, lex, locked, tx, print, trap>>
  BY DEF ReadInput
<1>2. /\ i \in Slots /\ Used(i) /\ s \in SlotType /\ s.state = "READINPUT" /\ turn' = "serial" /\ next' \in Slots
      /\ HeaderInv(i) /\ BodyInv(i) /\ (post.mutex = i <=> Holds(i)) /\ TypeOK /\ BufferInv(i) /\ trap \in BOOLEAN
      /\ (Talks(i) => Broken(i) \/ Whole(i)) /\ c \in Senders /\ i \in DOMAIN slots /\ Owned(i).conn = "open"
      /\ RestInv /\ Len(Reply(i)) <= 3 /\ (\A k \in 1 .. Len(Reply(i)) : Reply(i)[k] = s.c) /\ c \in Clients
      /\ (s.html = "HTTPDISCONNECT" => Len(Reply(i)) + One(s.state = "WRITEBUFFER") <= 3)
      /\ Owned(i) \in ClientType /\ Owned(i).read \in Nat /\ Owned(i).sent \in Nat
      /\ s.buf \in Seq(Piece) /\ Len(s.buf) \in Nat /\ Owned(i).kind \in {"json", "empty", "headless"}
  BY <1>1, AtPage, Fields DEF Inv, TypeOK
<1>3. CASE more = <<>>
  <2>1. slots' = slots /\ client' = client
    BY <1>3 DEF ReadInput
  <2>2. TypeOK'
    BY <1>1, <1>2, <2>1 DEF TypeOK, Slots
  <2> QED BY <1>1, <2>1, <2>2, Elsewhere
<1>4. CASE more # <<>>
  <2>1. slots' = [slots EXCEPT ![i] = e4] /\ client' = [client EXCEPT ![c].read = Owned(i).sent]
    BY <1>2, <1>4 DEF ReadInput, Owned
  <2>2. /\ Wire(c) \in Seq(Piece) /\ Owned(i).sent <= Len(Wire(c)) /\ Owned(i).read <= Owned(i).sent
    BY <1>2, WireIs DEF Owned, BufferInv
  <2>3. /\ more \in Seq(Piece) /\ Len(more) = Owned(i).sent - Owned(i).read
        /\ \A k \in 1 .. Len(more) : more[k] = Wire(c)[Owned(i).read + k]
    <3>1. more = SubSeq(Wire(c), Owned(i).read + 1, Owned(i).sent)
      BY DEF Unread, Owned
    <3> HIDE DEF more
    <3>2. /\ Wire(c) \in Seq(Piece) /\ Owned(i).read \in Nat /\ Owned(i).sent \in Nat
          /\ Owned(i).read <= Owned(i).sent /\ Owned(i).sent <= Len(Wire(c))
      BY <1>2, <2>2
    <3> DEFINE w == Wire(c)
               rd == Owned(i).read
               st == Owned(i).sent
               part == SubSeq(w, rd + 1, st)
    <3>3. w \in Seq(Piece) /\ rd \in Nat /\ st \in Nat /\ rd <= st /\ st <= Len(w) /\ more = part
      BY <3>1, <3>2
    <3> HIDE DEF w, rd, st
    <3>4. /\ part \in Seq(Piece) /\ Len(part) = st - rd
          /\ \A k \in 1 .. st - rd : part[k] = w[rd + k]
      BY <3>3, PartIs
    <3> HIDE DEF part
    <3>5. more \in Seq(Piece) /\ Len(more) = st - rd /\ \A k \in 1 .. Len(more) : more[k] = w[rd + k]
      BY <3>3, <3>4
    <3> QED BY <3>5 DEF w, rd, st
  <2> HIDE DEF more
  <2>4. /\ s.buf \o more \in Seq(Piece) /\ Len(s.buf \o more) = Len(s.buf) + Len(more)
        /\ \A k \in 1 .. Len(s.buf) : (s.buf \o more)[k] = s.buf[k]
        /\ \A k \in 1 .. Len(more) : (s.buf \o more)[Len(s.buf) + k] = more[k]
    <3> DEFINE b == s.buf
    <3>1. b \in Seq(Piece) /\ more \in Seq(Piece)
      BY <1>2, <2>3
    <3> HIDE DEF b
    <3>2. /\ b \o more \in Seq(Piece) /\ Len(b \o more) = Len(b) + Len(more)
          /\ \A k \in 1 .. Len(b) : (b \o more)[k] = b[k]
          /\ \A k \in 1 .. Len(more) : (b \o more)[Len(b) + k] = more[k]
      BY <3>1, JoinIs
    <3> QED BY <3>2 DEF b
  <2>5. s.next \in {"PROCESSHTML", "PARSENEXTLINE"} /\ (s.html \in HeaderAt <=> s.next = "PARSENEXTLINE")
        /\ (s.page = "none" => s.html = "HTTPSTART") /\ (s.html = "HTTPSTART" => s.page = "none")
        /\ s.page # "404" /\ s.html \notin {"JMPFILENOTFOUND", "WRITEHTTP", "WRITEJSON"}
    BY <1>2 DEF HeaderInv, BodyInv, HeaderAt
  <2>6. e1 \in SlotType /\ e1.buf = s.buf \o more /\ e1.c = c /\ e1.html = s.html
    BY <1>2, <2>4 DEF SlotType
  <2> HIDE DEF e1
  <2>7. e2 \in SlotType /\ e2.buf = e1.buf /\ e2.c = e1.c /\ e2.html = e1.html /\ e2.page = "post"
    BY <2>6 DEF SlotType
  <2> HIDE DEF e2
  <2>8. /\ e3 \in SlotType /\ e3.buf = e2.buf /\ e3.c = e2.c /\ e3.html = e2.html /\ e3.page = e2.page
        /\ e3.state = s.next
    BY <2>5, <2>7 DEF SlotType
  <2> HIDE DEF e3
  <2>9. /\ e4 \in SlotType /\ e4.buf = e3.buf /\ e4.c = e3.c /\ e4.html = e3.html /\ e4.page = e3.page
        /\ e4.state = e3.state
    BY <2>8 DEF SlotType
  <2> HIDE DEF e4
  <2>a. /\ slots'[i] = e4 /\ e4.buf = s.buf \o more /\ e4.c = c /\ e4.html = s.html /\ e4.page = "post"
        /\ e4.state = s.next /\ \A j \in Slots : j # i => slots'[j] = slots[j]
    BY <1>2, <2>1, <2>6, <2>7, <2>8, <2>9, Fields
  <2>b. /\ client' \in [Clients -> ClientType] /\ Owned(i)'.read = Owned(i).sent /\ Owned(i)'.sent = Owned(i).sent
        /\ Owned(i)'.kind = Owned(i).kind /\ Owned(i)'.conn = Owned(i).conn
        /\ \A d \in Clients : d # c => client'[d] = client[d]
    <3> DEFINE r == [Owned(i) EXCEPT !.read = Owned(i).sent]
    <3>1. /\ r \in ClientType /\ r.read = Owned(i).sent /\ r.sent = Owned(i).sent /\ r.kind = Owned(i).kind
          /\ r.conn = Owned(i).conn
      BY <1>2 DEF ClientType
    <3>2. client \in [Clients -> ClientType] /\ client' = [client EXCEPT ![c] = r]
      BY <1>2, <2>1 DEF TypeOK, Owned
    <3> HIDE DEF r
    <3>3. client' \in [Clients -> ClientType] /\ client'[c] = r /\ \A d \in Clients : d # c => client'[d] = client[d]
      BY <1>2, <3>1, <3>2
    <3>4. Owned(i)' = r
      BY <2>a, <3>3 DEF Owned
    <3> QED BY <3>1, <3>3, <3>4
  <2>c. Reply(i)' = Reply(i) /\ answer' \in [Senders -> Seq(Senders \cup {Nobody})]
    BY <1>1, <1>2, <2>a DEF Reply, TypeOK
  <2>d. TypeOK'
    BY <1>1, <1>2, <2>1, <2>9, <2>b, <2>c, PageTypes DEF TypeOK
  <2>e. PageFrame(i)
    BY <1>1, <2>a, <2>b, <2>c DEF PageFrame, Owned
  <2>f. Wire(c)' = Wire(c)
    BY <2>a, <2>b, WireKept DEF Owned
  <2>g. Len(slots'[i].buf) = Len(s.buf) + (Owned(i).sent - Owned(i).read) /\ Gone(i)' = Gone(i)
        /\ Gone(i) = Owned(i).read - Len(s.buf)
    <3>1. Len(slots'[i].buf) = Len(s.buf) + (Owned(i).sent - Owned(i).read)
      BY <2>3, <2>4, <2>a
    <3> QED BY <1>2, <2>b, <3>1 DEF Gone
  <2>h. BufferInv(i)'
    <3>1. \A k \in 1 .. Len(slots'[i].buf) : slots'[i].buf[k] = Wire(c)[Gone(i) + k]
      <4>1. TAKE k \in 1 .. Len(slots'[i].buf)
      <4>0. Len(s.buf) \in Nat /\ k \in Int
        BY <1>2
      <4>2. CASE k <= Len(s.buf)
        <5>1. k \in 1 .. Len(s.buf)
          BY <4>0, <4>2
        <5>2. \A l \in 1 .. Len(s.buf) : s.buf[l] = Wire(c)[Gone(i) + l]
          BY <1>2 DEF BufferInv
        <5>3. slots'[i].buf[k] = s.buf[k]
          BY <2>4, <2>a, <5>1
        <5> QED BY <5>1, <5>2, <5>3
      <4>3. CASE k > Len(s.buf)
        <5> DEFINE m == k - Len(s.buf)
        <5>1. m \in 1 .. Len(more) /\ k = Len(s.buf) + m /\ Gone(i) + k = Owned(i).read + m
          <6> DEFINE bl == Len(s.buf)
                     ml == Len(more)
                     rd == Owned(i).read
                     st == Owned(i).sent
          <6>1. bl \in Nat /\ rd \in Nat /\ st \in Nat /\ rd <= st /\ ml = st - rd /\ Gone(i) = rd - bl
            BY <1>2, <2>2, <2>3, <2>g
          <6>2. k \in 1 .. bl + (st - rd) /\ k > bl /\ m = k - bl
            BY <2>g, <4>1, <4>3
          <6> HIDE DEF m, bl, ml, rd, st
          <6>3. m \in 1 .. ml /\ k = bl + m /\ Gone(i) + k = rd + m
            BY <6>1, <6>2
          <6> QED BY <6>3 DEF bl, ml, rd
        <5> HIDE DEF m
        <5>2. slots'[i].buf[k] = more[m]
          BY <5>1, <2>4, <2>a
        <5> QED BY <5>1, <5>2, <2>3
      <4> QED BY <4>0, <4>2, <4>3
    <3>2. Len(slots'[i].buf) <= Owned(i)'.read
      BY <1>2, <2>b, <2>g DEF BufferInv
    <3>3. Owned(i).sent <= Len(Wire(c)) /\ Owned(i).sent \in Nat
      BY <1>2 DEF BufferInv
    <3>4. slots'[i].c = c /\ Wire(c)' = Wire(c) /\ Gone(i)' = Gone(i)
      BY <2>a, <2>f, <2>g
    <3>5. Owned(i)'.read <= Owned(i)'.sent /\ Owned(i)'.sent <= Len(Wire(c))
      BY <2>b, <3>3
    <3> QED BY <3>1, <3>2, <3>4, <3>5 DEF BufferInv
  <2>i. HeaderInv(i)'
    BY <1>2, <2>5, <2>a, <2>b, <2>c, <2>g DEF HeaderInv, HeaderAt, Exchange
  <2>j. BodyInv(i)'
    BY <1>2, <2>5, <2>a, <2>b, <2>c, <2>g DEF BodyInv, HeaderAt, Exchange
  <2>k. SlotInv(i)' /\ Used(i)'
    BY <1>2, <2>a, <2>b, <2>h, <2>i, <2>j DEF SlotInv, Used
  <2>l. (post'.mutex = i <=> Holds(i)') /\ Talks(i)' = Talks(i)
    BY <1>1, <1>2, <2>5, <2>a DEF Holds, Talks, SlotType
  <2>m. RestInv'
    <3>1. \A j \in Slots : slots'[j].html = slots[j].html
      BY <2>a
    <3> QED BY <1>1, <1>2, <3>1 DEF RestInv, Unstarted
  <2>n. /\ One(s.state = "WRITEBUFFER") = 0 /\ One(slots'[i].state = "WRITEBUFFER") = 0
        /\ One(s.html = "WRITEHTTP") = One(slots'[i].html = "WRITEHTTP")
    BY <1>2, <2>5, <2>a DEF One
  <2>o. Taken' = Taken /\ Out' = Out
    BY <1>1 DEF Taken, Out, Count, Running
  <2>p. ASSUME Talks(i) PROVE (Broken(i) \/ Whole(i))'
    <3>1. ASSUME Broken(i) PROVE Broken(i)'
      BY <3>1, <1>1, <2>a, <2>c, <2>n DEF Broken
    <3>2. ASSUME Whole(i) PROVE Whole(i)'
      <4>0. s.html = "JSONLEX"
        BY <2>p, <2>5 DEF Talks, Exchange
      <4>1. Asked(i)
        BY <3>2, <4>0, <1>2 DEF Whole, Asked, Waits, Writes
      <4>2. Asked(i)' /\ post.avail = 0 /\ post.lexState = "LEXAVAILABLE"
        BY <4>1, <4>0, <1>1, <2>5, <2>a DEF Asked, HeaderAt
      <4>3. AllThere(i)'
        <5>1. Taken + 0 + Len(s.buf) = Owned(i).read - 3
          BY <3>2, <4>2 DEF Whole, AllThere
        <5>2. Taken \in Nat
          BY <1>2 DEF Taken, Count, TypeOK, LexType
        <5>3. Taken' + post'.avail + Len(slots'[i].buf) = Owned(i)'.read - 3
          <6>1. Taken' = Taken /\ post'.avail = 0 /\ Owned(i)'.read = Owned(i).sent
            BY <1>1, <2>b, <2>o, <4>2
          <6>2. Owned(i).read \in Nat /\ Owned(i).sent \in Nat /\ Len(s.buf) \in Nat
            BY <1>2
          <6>3. Len(slots'[i].buf) = Len(s.buf) + (Owned(i).sent - Owned(i).read)
            BY <2>g
          <6> DEFINE tk == Taken
                     bl == Len(s.buf)
                     rd == Owned(i).read
                     st == Owned(i).sent
          <6>4. tk \in Nat /\ bl \in Nat /\ rd \in Nat /\ st \in Nat /\ tk + 0 + bl = rd - 3
            BY <5>1, <5>2, <6>2
          <6>5. Taken' = tk /\ Len(slots'[i].buf) = bl + (st - rd) /\ Owned(i)'.read = st /\ post'.avail = 0
            BY <6>1, <6>3
          <6> HIDE DEF tk, bl, rd, st
          <6>6. tk + 0 + (bl + (st - rd)) = st - 3
            BY <6>4
          <6> QED BY <6>5, <6>6
        <5> QED BY <1>1, <4>2, <5>3 DEF AllThere
      <4>4. AllToCome(i)'
        BY <3>2, <1>1, <2>c, <2>n, <2>o DEF Whole, AllToCome
      <4>5. post'.avail <= Len(slots'[i].buf)
        BY <1>1, <1>2, <2>2, <2>g, <4>2
      <4> QED BY <1>1, <2>a, <3>2, <4>0, <4>2, <4>3, <4>4, <4>5 DEF Whole
    <3> QED BY <1>2, <2>p, <3>1, <3>2
  <2> QED BY <1>2, <2>a, <2>c, <2>d, <2>e, <2>k, <2>l, <2>m, <2>n, <2>p, PageStep
<1> QED BY <1>3, <1>4

-----------------------------------------------------------------------------
(* The end of a connection.                                                *)

\* A stream that is put back does not find its page again.
LEMMA PutBack ==
  ASSUME Inv, NEW j \in Slots, Talks(j), Used(j), post' = [NewPost EXCEPT !.mutex = j],
         slots'[j] = slots[j], answer' = answer, io' = io
  PROVE  Broken(j)'
<1>1. Broken(j) \/ Whole(j)
  BY DEF Inv, TalkInv
<1>2. post'.lexState = "LEXNONE" /\ post'.nextState = "LEXNONE" /\ post'.avail = 0
  BY DEF NewPost
<1>3. slots[j].html # "JSONLEX" => io["post"] = "WRITE"
  BY <1>1 DEF Broken, Whole, Asked, Waits, Writes
<1>4. Len(Reply(j)) + One(slots[j].state = "WRITEBUFFER") + One(slots[j].html = "WRITEHTTP") <= 3
  <2>1. CASE Broken(j)
    BY <2>1 DEF Broken
  <2>2. CASE Whole(j)
    <3>1. Len(Reply(j)) + One(slots[j].state = "WRITEBUFFER")
            + One(post.lexState = "LEXWAIT" /\ post.nextCMD = "WRITE") + One(post.first) + Out
            = 3 + One(post.writing)
      BY <2>2 DEF Whole, AllToCome
    <3>2. Out \in Nat /\ (post.writing => Out >= 1)
      <4>1. Out \in Nat
        BY DEF Inv, Out, TypeOK, LexType
      <4>2. ASSUME post.writing PROVE Out >= 1
        <5>1. io["post"] = "WRITE"
          BY <2>2, <4>2 DEF Whole
        <5>2. Running("post") /\ lex.output /\ lex.out > 0
          BY <5>1, OwnerIs DEF Streams
        <5> QED BY <5>2 DEF Inv, Out, TypeOK, LexType
      <4> QED BY <4>1, <4>2
    <3>3. One(post.writing) <= Out /\ One(post.writing) \in Nat
      BY <3>2 DEF One
    <3>4. One(slots[j].html = "WRITEHTTP") <= One(post.first)
      BY <2>2 DEF Whole, One
    <3>5. /\ One(slots[j].state = "WRITEBUFFER") \in Nat /\ One(post.first) \in Nat
          /\ One(slots[j].html = "WRITEHTTP") \in Nat
          /\ One(post.lexState = "LEXWAIT" /\ post.nextCMD = "WRITE") \in Nat
      BY DEF One
    <3>6. Len(Reply(j)) \in Nat
      BY Fields DEF Inv
    <3> QED BY <3>1, <3>2, <3>3, <3>4, <3>5, <3>6
  <2> QED BY <1>1, <2>1, <2>2
<1>5. Reply(j)' = Reply(j)
  BY DEF Reply
<1> QED BY <1>2, <1>3, <1>4, <1>5 DEF Broken

LEMMA ClosesInv ==
  ASSUME Inv, NEW i \in Slots, Used(i), ~Talks(i), NEW how \in {"closed", "gone"}, Closes(i, how),
         turn' = "serial", next' \in Slots
  PROVE  Inv'
<1> DEFINE c == slots[i].c
           old == client[c]
           r == [conn |-> IF old.conn = "open" THEN how ELSE old.conn, kind |-> old.kind, sent |-> 0, read |-> 0]
<1>1. /\ slots' = [slots EXCEPT ![i] = EmptySlot] /\ UNCHANGED <<port, answer, io, lex, locked, tx, print, trap>>
      /\ post' = (IF slots[i].page = "post" THEN Disconnected(i) ELSE post)
      /\ client' = [client EXCEPT ![c] = r]
  BY DEF Closes
<1>2. /\ TypeOK /\ DOMAIN slots = Slots /\ c \in Clients /\ client[c] \in ClientType
      /\ client \in [Clients -> ClientType] /\ client[c].conn \in {"open", "gone"}
  BY Fields DEF Inv, TypeOK, SlotInv, Owned
<1>3. r \in ClientType /\ r.kind = client[c].kind /\ r.conn \in {"closed", "gone"}
  BY <1>2 DEF ClientType
<1> HIDE DEF r
<1>6. /\ client'[c].conn # "new" /\ client'[c].kind = client[c].kind
      /\ \A d \in Clients : d # c => client'[d] = client[d]
  BY <1>1, <1>2, <1>3
<1>7. slots'[i] = EmptySlot /\ ~Used(i)' /\ \A j \in Slots : j # i => slots'[j] = slots[j]
  BY <1>1, <1>2 DEF Used, EmptySlot, Nobody
<1>8. \A j \in Slots : j # i /\ Used(j) => slots[j].c # c /\ slots[j].c \in Clients
  BY Fields DEF Inv, Apart
<1>9. post.mutex = i => slots[i].page = "post"
  BY DEF Inv, MutexInv, Holds
<1>a. post'.mutex # i /\ \A j \in Slots : j # i => (post'.mutex = j <=> post.mutex = j)
  BY <1>1, <1>9, Consts DEF Disconnected, NewPost
<1>b. post' = post \/ post' = [NewPost EXCEPT !.mutex = post'.mutex]
  <2>1. Disconnected(i) = [NewPost EXCEPT !.mutex = Disconnected(i).mutex]
    BY DEF Disconnected, NewPost
  <2> QED BY <1>1, <2>1
<1>c. TypeOK'
  <2>1. slots' \in [0 .. NSlots - 1 -> SlotType]
    <3>1. EmptySlot \in SlotType
      BY DEF EmptySlot, SlotType
    <3> QED BY <1>1, <1>2, <3>1 DEF TypeOK, Slots
  <2>2. post' \in PostType
    BY <1>1, <1>2 DEF TypeOK, Disconnected, NewPost, PostType
  <2>3. client' \in [Clients -> ClientType]
    BY <1>1, <1>2, <1>3
  <2> QED BY <1>1, <1>2, <2>1, <2>2, <2>3 DEF TypeOK, Slots
<1>d. \A j \in Slots : SlotInv(j)'
  <2>1. ASSUME NEW j \in Slots, j # i PROVE SlotInv(j)'
    <3>1. SlotInv(j)
      BY DEF Inv
    <3> QED BY <1>1, <1>6, <1>7, <1>8, <2>1, <3>1, SlotKept
  <2>2. SlotInv(i)'
    BY <1>7 DEF SlotInv
  <2> QED BY <2>1, <2>2
<1>e. \A j \in Slots : Used(j)' => j # i /\ Used(j) /\ slots'[j] = slots[j]
  BY <1>7 DEF Used
<1>f. Apart' /\ NewInv'
  <2>1. Apart'
    BY <1>e DEF Inv, Apart, Used
  <2>2. NewInv'
    BY <1>1, <1>6 DEF Inv, NewInv
  <2> QED BY <2>1, <2>2
<1>g. MutexInv'
  <2>1. ~Holds(i)'
    BY <1>7 DEF Holds, EmptySlot
  <2>2. \A j \in Slots : j # i => Holds(j)' = Holds(j)
    BY <1>7 DEF Holds
  <2> QED BY <1>a, <2>1, <2>2 DEF Inv, MutexInv
<1>h. RestInv'
  <2>1. CASE post' = post
    <3>1. \A j \in Slots : post.mutex = j => slots'[j] = slots[j]
      BY <1>7, <1>a, <2>1
    <3> QED BY <2>1, <3>1 DEF Inv, RestInv, Unstarted
  <2>2. CASE post' = [NewPost EXCEPT !.mutex = post'.mutex]
    <3>1. post'.avail = 0
      BY <2>2 DEF NewPost
    <3> QED BY <2>2, <3>1 DEF RestInv
  <2> QED BY <1>b, <2>1, <2>2
<1>i. TalkInv'
  <2>1. ASSUME NEW j \in Slots, Talks(j)' PROVE (Broken(j) \/ Whole(j))'
    <3>1. j # i
      BY <2>1, <1>a DEF Talks
    <3>2. Talks(j) /\ post'.mutex = j /\ slots'[j] = slots[j]
      BY <2>1, <3>1, <1>7, <1>a DEF Talks
    <3>3. Used(j)
      BY <3>2 DEF Inv, SlotInv, Talks, EmptySlot, Exchange
    <3>4. CASE post' = post
      <4>1. Talks(j) => Broken(j) \/ Whole(j)
        BY DEF Inv, TalkInv
      <4> QED BY <1>1, <1>6, <1>8, <2>1, <3>1, <3>2, <3>3, <3>4, <4>1, TalkKept
    <3>5. CASE post' = [NewPost EXCEPT !.mutex = post'.mutex]
      BY <1>1, <3>2, <3>3, <3>5, PutBack
    <3> QED BY <1>b, <3>4, <3>5
  <2> QED BY <2>1 DEF TalkInv
<1>j. ASSUME Running("post") PROVE \E j \in Slots : j # i /\ Talks(j) /\ Talks(j)' /\ slots'[j] = slots[j]
  <2>1. PICK j \in Slots : Talks(j)
    BY <1>j DEF Inv, PostRuns
  <2> QED BY <2>1, <1>7, <1>a DEF Talks
<1>k. PostRuns'
  BY <1>1, <1>j DEF PostRuns, Running
<1>l. LexInv'
  <2>1. Running("post") => slots'[post'.mutex].c = slots[post.mutex].c
    BY <1>j DEF Talks
  <2> QED BY <1>1, <2>1, LexKept DEF Inv
<1>m. SerialInv' /\ LockInv' /\ OwnInv'
  BY <1>1 DEF Inv, SerialInv, LockInv, OwnInv, Running, Count
<1>n. LoneInv'
  <2>1. \A j \in Slots : Used(j)' => Owned(j)' = Owned(j)
    BY <1>6, <1>8, <1>e DEF Owned
  <2> QED BY <1>1, <1>e, <2>1 DEF Inv, LoneInv, PortBusy, Running
<1>o. EndInv'
  <2>1. \A j \in Slots : Used(j)' => Reply(j)' = Reply(j)
    BY <1>1, <1>e DEF Reply
  <2> QED BY <1>e, <2>1 DEF Inv, EndInv
<1> QED BY <1>c, <1>d, <1>f, <1>g, <1>h, <1>i, <1>k, <1>l, <1>m, <1>n, <1>o DEF Inv

LEMMA StopClientInv ==
  ASSUME Inv, NEW i, StopClient(i)
  PROVE  Inv'
<1>1. Serve(i) /\ (Lost(i) \/ slots[i].state = "STOPCLIENT") /\ Closes(i, "closed")
  BY DEF StopClient
<1>2. i \in Slots /\ Used(i) /\ turn' = "serial" /\ next' \in Slots
  BY <1>1, ServeUsed DEF Inv
<1>3. ~Talks(i)
  BY <1>1, <1>2 DEF Inv, SlotInv, BodyInv, Talks, Lost, Owned
<1> QED BY <1>1, <1>2, <1>3, ClosesInv

LEMMA TimeOutInv ==
  ASSUME Handled, Inv, NEW i, TimeOut(i)
  PROVE  Inv'
<1> DEFINE s == slots[i]
           c == s.c
<1>1. At(i, "READINPUT") /\ (InCommand(c) => "drop" \in Mishaps)
  BY DEF TimeOut
<1>2. /\ i \in Slots /\ Used(i) /\ s \in SlotType /\ s.state = "READINPUT" /\ turn' = "serial" /\ next' \in Slots
      /\ HeaderInv(i) /\ BodyInv(i) /\ (post.mutex = i <=> Holds(i)) /\ TypeOK /\ BufferInv(i) /\ trap \in BOOLEAN
      /\ c \in Senders /\ i \in DOMAIN slots /\ Owned(i).conn = "open"
      /\ Len(Reply(i)) <= 3 /\ (\A k \in 1 .. Len(Reply(i)) : Reply(i)[k] = s.c) /\ c \in Clients
      /\ Owned(i) \in ClientType
  <2>1. /\ i \in Slots /\ Used(i) /\ c \in Clients /\ s.state = "READINPUT" /\ s \in SlotType
        /\ turn' = "serial" /\ next' \in Slots
        /\ Owned(i).conn = "open" /\ BufferInv(i) /\ HeaderInv(i) /\ BodyInv(i)
        /\ (post.mutex = i <=> Holds(i))
        /\ Len(Reply(i)) <= 3 /\ (\A k \in 1 .. Len(Reply(i)) : Reply(i)[k] = s.c)
    BY <1>1, AtPage
  <2>2. TypeOK /\ trap \in BOOLEAN
    BY DEF Inv, TypeOK
  <2>3. c \in Senders /\ i \in DOMAIN slots /\ Owned(i) \in ClientType
    BY <2>1, <2>2, Fields
  <2> QED BY <2>1, <2>2, <2>3
<1>3. CASE Closes(i, "gone")
  <2>1. ~InCommand(c)
    BY <1>1 DEF Handled
  <2>2. ~Talks(i)
    BY <1>2, <2>1 DEF InCommand, SlotOf, Talks, Exchange
  <2> QED BY <1>2, <1>3, <2>2, ClosesInv
<1>4. CASE /\ s.next = "PARSENEXTLINE" /\ post' = Disconnected(i) /\ Goto(i, "STOPCLIENT")
           /\ client' = [client EXCEPT ![c].conn = "gone"]
           /\ UNCHANGED <<port, answer, io, lex, locked, tx, print, trap>>
  <2> DEFINE e == [s EXCEPT !.state = "STOPCLIENT"]
             r == [client[c] EXCEPT !.conn = "gone"]
  <2>1. s.html \in HeaderAt /\ s.page = "post" /\ post.mutex = i /\ Reply(i) = <<>>
    BY <1>2, <1>4 DEF HeaderInv, BodyInv, HeaderAt, Exchange, Holds, SlotType
  <2>2. slots' = [slots EXCEPT ![i] = e] /\ client' = [client EXCEPT ![c] = r]
    BY <1>2, <1>4 DEF Goto
  <2>3. e \in SlotType /\ e.c = c /\ e.html = s.html /\ e.buf = s.buf /\ e.page = s.page /\ e.state = "STOPCLIENT"
    BY <1>2 DEF SlotType
  <2> HIDE DEF e
  <2>4. /\ r \in ClientType /\ r.kind = Owned(i).kind /\ r.conn = "gone"
        /\ r.read = Owned(i).read /\ r.sent = Owned(i).sent
    BY <1>2 DEF ClientType, Owned
  <2> HIDE DEF r
  <2>5. slots'[i] = e /\ \A j \in Slots : j # i => slots'[j] = slots[j]
    BY <1>2, <2>2, Fields
  <2>6. client' \in [Clients -> ClientType] /\ client'[c] = r /\ \A d \in Clients : d # c => client'[d] = client[d]
    BY <1>2, <2>2, <2>4 DEF TypeOK
  <2>7. Owned(i)' = r /\ Reply(i)' = Reply(i)
    BY <1>4, <2>3, <2>5, <2>6 DEF Owned, Reply
  <2>8. post' = NewPost /\ post'.mutex = NoSlot /\ post' \in PostType
    BY <1>4, <2>1 DEF Disconnected, NewPost, PostType
  <2>9. TypeOK'
    BY <1>2, <1>4, <2>2, <2>3, <2>6, <2>8, PageTypes DEF TypeOK
  <2>a. PageFrame(i)
    BY <1>4, <2>1, <2>3, <2>4, <2>5, <2>6, <2>8 DEF PageFrame
  <2>b. BufferInv(i)' /\ Gone(i)' = Gone(i)
    <3>1. Wire(c)' = Wire(c)
      <4>1. client'[c].kind = client[c].kind
        BY <2>4, <2>6 DEF Owned
      <4>2. slots'[i].c = c
        BY <2>3, <2>5
      <4> QED BY <4>1, <4>2, WireKept
    <3>2. Gone(i)' = Gone(i)
      BY <2>3, <2>4, <2>5, <2>7 DEF Gone
    <3> QED BY <1>2, <2>3, <2>4, <2>5, <2>7, <3>1, <3>2 DEF BufferInv
  <2>c. HeaderInv(i)'
    BY <1>2, <2>1, <2>3, <2>4, <2>5, <2>7, <2>b DEF HeaderInv, HeaderAt, Exchange
  <2>d. BodyInv(i)'
    BY <2>1, <2>3, <2>5 DEF BodyInv, HeaderAt, Exchange
  <2>e. SlotInv(i)'
    BY <1>2, <2>3, <2>4, <2>5, <2>7, <2>b, <2>c, <2>d DEF SlotInv, Used
  <2>f. ~Holds(i)' /\ ~Talks(i)' /\ ~Talks(i) /\ post'.mutex # i
    BY <1>2, <2>1, <2>3, <2>5, <2>8, Consts DEF Holds, Talks, HeaderAt, Exchange
  <2>g. RestInv'
    <3>1. NewPost = [NewPost EXCEPT !.mutex = NewPost.mutex]
      BY DEF NewPost
    <3> QED BY <2>8, <3>1, Consts DEF RestInv
  <2>h. slots'[i].html # "HTTPDISCONNECT"
    BY <2>1, <2>3, <2>5 DEF HeaderAt
  <2> QED BY <1>2, <2>7, <2>9, <2>a, <2>e, <2>f, <2>g, <2>h, PageStep
<1> QED BY <1>3, <1>4 DEF TimeOut

\* A POST without a Content-Length comes alone: nobody uses the lexer.
LEMMA FileNotFoundInv ==
  ASSUME Inv, NEW i, FileNotFound(i)
  PROVE  Inv'
<1> DEFINE s == slots[i]
           e1 == [s EXCEPT !.page = "404"]
           e2 == [e1 EXCEPT !.state = "STOPCLIENT"]
<1>1. /\ At(i, "PROCESSHTML") /\ s.html = "JMPFILENOTFOUND"
      /\ UNCHANGED <<client, port, answer, io, tx, print, trap>> /\ lex' = NewLexer /\ locked' = FALSE
      /\ slots' = [slots EXCEPT ![i] = e2] /\ post' = [post EXCEPT !.mutex = NoSlot]
  BY DEF FileNotFound, InPage, world
<1>2. /\ i \in Slots /\ Used(i) /\ s \in SlotType /\ s.state = "PROCESSHTML" /\ turn' = "serial" /\ next' \in Slots
      /\ HeaderInv(i) /\ BodyInv(i) /\ (post.mutex = i <=> Holds(i)) /\ TypeOK /\ BufferInv(i)
      /\ i \in DOMAIN slots /\ Owned(i).conn = "open" /\ trap \in BOOLEAN
  <2>1. TypeOK /\ trap \in BOOLEAN
    BY DEF Inv, TypeOK
  <2> QED BY <1>1, <2>1, AtPage, Fields
<1>3. Owned(i).kind = "headless" /\ s.page = "post" /\ Reply(i) = <<>> /\ post.mutex = i
  BY <1>1, <1>2 DEF HeaderInv, HeaderAt, Exchange, SlotType, Holds
<1>4. post = [NewPost EXCEPT !.mutex = i] /\ ~Running("post") /\ ~Talks(i)
  BY <1>1, <1>2, <1>3, InHeader
<1>5. ~PortBusy /\ ~print.dma
  BY <1>2, <1>3 DEF Inv, LoneInv
<1>6. ~Running("serial")
  <2>1. ASSUME Running("serial") PROVE FALSE
    <3>1. port.read > 0 /\ port.read <= port.sent
      BY <2>1 DEF Inv, SerialInv
    <3>2. port.sent > 0
      BY <1>2, <3>1 DEF TypeOK
    <3> QED BY <1>5, <2>1, <3>2 DEF PortBusy
  <2> QED BY <2>1
<1>7. locked' = locked /\ lex' = lex
  <2>1. ~locked /\ locked \in BOOLEAN
    BY <1>2, <1>4, <1>5, <1>6 DEF Inv, LockInv, TypeOK
  <2>2. lex = NewLexer
    BY <1>4, <1>6 DEF Inv, LexInv, Streams
  <2> QED BY <1>1, <2>1, <2>2
<1>8. e1 \in SlotType /\ e1.c = s.c /\ e1.html = s.html /\ e1.buf = s.buf /\ e1.page = "404"
  BY <1>2 DEF SlotType
<1> HIDE DEF e1
<1>9. /\ e2 \in SlotType /\ e2.c = e1.c /\ e2.html = e1.html /\ e2.buf = e1.buf /\ e2.page = e1.page
      /\ e2.state = "STOPCLIENT"
  BY <1>8 DEF SlotType
<1> HIDE DEF e2
<1>a. /\ slots'[i] = e2 /\ e2.c = s.c /\ e2.html = "JMPFILENOTFOUND" /\ e2.buf = s.buf /\ e2.page = "404"
      /\ e2.state = "STOPCLIENT"
  BY <1>1, <1>2, <1>8, <1>9
<1>b. BufferInv(i)' /\ Gone(i)' = Gone(i) /\ Owned(i)' = Owned(i)
  BY <1>1, <1>2, <1>a, BufferKept
<1>c. HeaderInv(i)' /\ BodyInv(i)'
  BY <1>1, <1>3, <1>a, <1>b DEF HeaderInv, BodyInv, HeaderAt, Exchange, Reply
<1>d. post' = NewPost /\ post' \in PostType /\ post'.mutex = NoSlot
  BY <1>1, <1>4 DEF NewPost, PostType
<1>e. ~Holds(i)' /\ ~Talks(i)' /\ post'.mutex # i
  BY <1>2, <1>a, <1>d, Consts DEF Holds, Talks, Exchange
<1>f. RestInv'
  <2>1. NewPost = [NewPost EXCEPT !.mutex = NewPost.mutex]
    BY DEF NewPost
  <2> QED BY <1>d, <2>1, Consts DEF RestInv
<1>g. e2.html # "HTTPDISCONNECT"
  BY <1>a
<1> QED BY <1>1, <1>2, <1>3, <1>4, <1>7, <1>9, <1>a, <1>b, <1>c, <1>d, <1>e, <1>f, <1>g, PageMoves

-----------------------------------------------------------------------------
(* The streams.                                                            *)

\* A stream does something, and to the page that has the mutex only what that page allows.
LEMMA StreamStep ==
  ASSUME Inv, TypeOK', UNCHANGED <<client, print>>, \A c \in Clients : answer'[c] = answer[c],
         post'.mutex = post.mutex,
         \A j \in Slots : j # post.mutex => slots'[j] = slots[j],
         \A j \in Slots : j = post.mutex =>
           /\ SlotInv(j)' /\ slots'[j].c = slots[j].c /\ (Holds(j)' <=> Holds(j))
           /\ slots'[j].html = "HTTPDISCONNECT" =>
                slots'[j].state = slots[j].state
                  /\ (slots[j].html # "HTTPDISCONNECT" =>
                        Len(Reply(j)) + One(slots[j].state = "WRITEBUFFER") <= 3),
         RestInv', \A j \in Slots : Talks(j)' => (Broken(j) \/ Whole(j))',
         LexInv', PostRuns', SerialInv', LockInv', PortBusy' => PortBusy,
         Len(answer'["serial"]) <= 3, \A k \in 1 .. Len(answer'["serial"]) : answer'["serial"][k] = "serial"
  PROVE  Inv'
<1>1. \A j \in Slots : /\ slots'[j].c = slots[j].c /\ (Used(j)' <=> Used(j)) /\ (Holds(j)' <=> Holds(j))
                       /\ Owned(j)' = Owned(j)
  BY DEF Used, Holds, Owned
<1>2. \A j \in Slots : Used(j) => slots[j].c \in Clients /\ Reply(j)' = Reply(j)
  BY Fields DEF Inv, Reply
<1>3. \A j \in Slots : SlotInv(j)'
  <2>1. ASSUME NEW j \in Slots, j # post.mutex PROVE SlotInv(j)'
    <3>1. SlotInv(j) /\ slots'[j] = slots[j]
      BY <2>1 DEF Inv
    <3>2. Used(j) => client'[slots[j].c] = client[slots[j].c] /\ answer'[slots[j].c] = answer[slots[j].c]
      BY <1>2
    <3> QED BY <3>1, <3>2, SlotKept
  <2> QED BY <2>1
<1>4. Apart' /\ MutexInv'
  BY <1>1 DEF Inv, Apart, MutexInv
<1>5. NewInv'
  BY DEF Inv, NewInv
<1>6. TalkInv'
  BY DEF TalkInv
<1>7. LoneInv'
  BY <1>1 DEF Inv, LoneInv
<1>8. OwnInv'
  BY DEF Inv, OwnInv, Senders
<1>9. EndInv'
  <2>1. ASSUME NEW j \in Slots, Used(j), slots'[j].html = "HTTPDISCONNECT"
        PROVE  Len(Reply(j)) + One(slots'[j].state = "WRITEBUFFER") <= 3
    <3>1. CASE slots[j].html = "HTTPDISCONNECT"
      <4>1. slots'[j].state = slots[j].state
        BY <2>1
      <4> QED BY <2>1, <3>1, <4>1 DEF Inv, EndInv
    <3>2. CASE slots[j].html # "HTTPDISCONNECT"
      <4>1. j = post.mutex
        BY <2>1, <3>2
      <4> QED BY <2>1, <3>2, <4>1
    <3> QED BY <3>1, <3>2
  <2> QED BY <2>1, <1>1, <1>2 DEF EndInv
<1> QED BY <1>3, <1>4, <1>5, <1>6, <1>7, <1>8, <1>9 DEF Inv

\* What the page shows of a stream that writes nothing at the moment.
LEMMA Quiet ==
  ASSUME Inv, NEW i \in Slots, Talks(i), io["post"] # "WRITE"
  PROVE  /\ post.mutex = i /\ slots[i].html = "JSONLEX" /\ Used(i) /\ (Broken(i) \/ Whole(i))
         /\ Whole(i) => ~post.writing /\ (Asked(i) \/ Waits(i)) /\ ~Writes(i)
<1>1. post.mutex = i /\ (Broken(i) \/ Whole(i))
  BY DEF Inv, TalkInv, Talks
<1>2. slots[i].html = "JSONLEX"
  BY <1>1 DEF Broken, Whole, Asked, Waits, Writes
<1>3. Used(i)
  BY DEF Inv, SlotInv, Talks, EmptySlot, Exchange
<1>4. Whole(i) => ~post.writing /\ (Asked(i) \/ Waits(i)) /\ ~Writes(i)
  BY DEF Whole, Writes
<1> QED BY <1>1, <1>2, <1>3, <1>4

\* A stream that comes to another state, with what it has taken and what it has to write as they were.
LEMMA TalkGoesOn ==
  ASSUME Inv, NEW i \in Slots, Talks(i)', UNCHANGED <<client, post>>, slots'[i] = slots[i],
         \A c \in Clients : answer'[c] = answer[c], Taken' = Taken, Out' = Out,
         io'["post"] = io["post"] \/ io["post"] # "WRITE"
  PROVE  (Broken(i) \/ Whole(i))'
<1>1. Talks(i) /\ (Broken(i) \/ Whole(i))
  BY DEF Inv, TalkInv, Talks
<1>2. Used(i)
  BY <1>1 DEF Inv, SlotInv, Talks, EmptySlot, Exchange
<1>3. slots[i].c \in Clients /\ Owned(i)' = Owned(i) /\ Reply(i)' = Reply(i)
  BY <1>2, Fields DEF Inv, Owned, Reply
<1>4. CASE io'["post"] = io["post"]
  <2>1. Broken(i)' = Broken(i)
    BY <1>3, <1>4 DEF Broken
  <2>2. Whole(i)' = Whole(i)
    BY <1>3, <1>4 DEF Whole, Asked, Waits, Writes, AllThere, AllToCome
  <2> QED BY <1>1, <2>1, <2>2
<1>5. CASE io["post"] # "WRITE"
  <2>1. slots[i].html = "JSONLEX" /\ (Whole(i) => ~post.writing /\ (Asked(i) \/ Waits(i)))
    BY <1>1, <1>5, Quiet
  <2>2. ASSUME Broken(i) PROVE Broken(i)'
    BY <1>3, <2>1, <2>2 DEF Broken
  <2>3. ASSUME Whole(i) PROVE Whole(i)'
    <3>1. (Asked(i) \/ Waits(i))' /\ ~post'.writing /\ slots'[i].html # "WRITEHTTP"
      BY <2>1, <2>3 DEF Asked, Waits
    <3>2. AllThere(i)' /\ AllToCome(i)' /\ post'.avail <= Len(slots'[i].buf)
      BY <1>3, <2>3 DEF Whole, AllThere, AllToCome
    <3> QED BY <3>1, <3>2 DEF Whole
  <2> QED BY <1>1, <2>2, <2>3
<1> QED BY <1>4, <1>5

\* Input of the POST stream is the next part of the body of whoever has the mutex.
LEMMA PostInput ==
  ASSUME Inv, NEW s \in Streams, s = "post", Input(s) # <<>>, io["post"] # "WRITE"
  PROVE  \E m \in Slots :
           /\ post.mutex = m /\ Talks(m) /\ Whole(m) /\ Waits(m) /\ ~post.writing /\ slots[m].html = "JSONLEX"
           /\ post.nextState = "LEXWAIT" /\ post.nextCMD = "CONTINUE" /\ Used(m)
           /\ post.avail \in Nat /\ Len(Input(s)) = post.avail /\ post.avail >= 1
           /\ Input(s) \in Seq(Piece)
           /\ \A k \in 1 .. post.avail : Input(s)[k] = [of |-> slots[m].c, n |-> Taken + k]
<1> DEFINE m == post.mutex
           b == slots[m].buf
           c == slots[m].c
<1>1. TypeOK /\ post.avail \in Nat /\ m \in Slots \cup {NoSlot} /\ Taken \in Nat
  BY DEF Inv, TypeOK, PostType, Slots, Taken, Count, LexType
<1>2. m \in Slots /\ m # NoSlot
  <2>1. m # NoSlot
    BY DEF Input, Streams
  <2> QED BY <1>1, <2>1
<1>3. b \in Seq(Piece) /\ Len(b) \in Nat
  BY <1>1, <1>2, Fields
<1>h. post.avail <= Len(b) => Input(s) = SubSeq(b, Len(b) - post.avail + 1, Len(b))
  BY <1>2, Consts DEF Input
<1>4. post.avail > 0
  <2>1. ASSUME post.avail = 0 PROVE FALSE
    <3> HIDE DEF b
    <3>1. post.avail <= Len(b) /\ Len(b) - post.avail + 1 = Len(b) + 1
      BY <1>3, <2>1
    <3>2. Input(s) = SubSeq(b, Len(b) + 1, Len(b))
      BY <1>h, <3>1
    <3>3. SubSeq(b, Len(b) + 1, Len(b)) = <<>>
      BY <1>3, SubSeqEmpty
    <3> QED BY <3>2, <3>3
  <2> QED BY <1>1, <2>1
<1>5. Talks(m)
  <2>1. Holds(m)
    BY <1>2 DEF Inv, MutexInv
  <2>2. ~Unstarted
    BY <1>4 DEF Inv, RestInv, NewPost
  <2>3. slots[m].html # "HTTPDISCONNECT"
    BY <1>2, <1>4 DEF Inv, RestInv
  <2>4. slots[m] \in SlotType
    BY <1>1, <1>2, Fields
  <2> QED BY <1>2, <2>1, <2>2, <2>3, <2>4 DEF Talks, Exchange, Holds, Unstarted, HeaderAt, SlotType
<1>6. /\ slots[m].html = "JSONLEX" /\ Used(m) /\ Whole(m) /\ ~post.writing /\ Waits(m)
      /\ post.lexState # "LEXAVAILABLE" /\ post.nextState = "LEXWAIT" /\ post.nextCMD = "CONTINUE"
  <2>1. slots[m].html = "JSONLEX" /\ Used(m) /\ (Broken(m) \/ Whole(m))
        /\ (Whole(m) => ~post.writing /\ (Asked(m) \/ Waits(m)))
    BY <1>2, <1>5, Quiet
  <2>2. ~Broken(m) /\ ~Asked(m)
    BY <1>4 DEF Broken, Asked
  <2>3. Whole(m) /\ Waits(m) /\ ~post.writing
    BY <2>1, <2>2
  <2> QED BY <1>4, <2>1, <2>3 DEF Waits
<1>7. post.avail <= Len(b) /\ Taken + post.avail = Owned(m).read - 3
  <2>1. AllThere(m) /\ post.avail <= Len(b)
    BY <1>6 DEF Whole
  <2> QED BY <1>1, <1>6, <2>1 DEF AllThere
<1>8. /\ Owned(m).read \in Nat /\ Owned(m).sent \in Nat /\ c \in Clients /\ Owned(m).kind = "json" /\ BufferInv(m)
      /\ Owned(m).kind \in {"json", "empty", "headless"}
  <2>1. Owned(m).read \in Nat /\ Owned(m).sent \in Nat /\ c \in Clients
    BY <1>1, <1>2, <1>6, Fields
  <2>2. SlotInv(m)
    BY <1>2 DEF Inv
  <2> QED BY <1>5, <1>6, <2>1, <2>2 DEF SlotInv, BodyInv, Talks
<1>9. Len(Wire(c)) = 3 + Pieces /\ \A k \in 1 .. Pieces : Wire(c)[3 + k] = [of |-> c, n |-> k]
  BY <1>8, WireIs DEF Owned
<1>a. \A k \in 1 .. Len(b) : b[k] = Wire(c)[Gone(m) + k]
  BY <1>8 DEF BufferInv
<1> DEFINE read == Owned(m).read
           skip == Len(b) - post.avail
<1>b. read \in Nat /\ read <= 3 + Pieces /\ Gone(m) = read - Len(b) /\ Taken + post.avail = read - 3
  <2>1. Owned(m).read <= Owned(m).sent /\ Owned(m).sent <= Len(Wire(c))
    BY <1>8 DEF BufferInv
  <2>2. Gone(m) = Owned(m).read - Len(b)
    BY DEF Gone
  <2> QED BY <1>7, <1>8, <1>9, <2>1, <2>2, Consts
<1>c. Input(s) = SubSeq(b, skip + 1, Len(b)) /\ skip = Len(b) - post.avail
  BY <1>7, <1>h
<1> HIDE DEF read, skip, b, c, m
<1>f. skip \in Nat /\ skip <= Len(b) /\ Len(b) - skip = post.avail
  <2>1. skip = Len(b) - post.avail
    BY <1>c
  <2>2. post.avail \in Nat /\ Len(b) \in Nat /\ post.avail <= Len(b)
    BY <1>1, <1>3, <1>7
  <2> QED BY <2>1, <2>2
<1>g. Gone(m) + skip = 3 + Taken
  <2>1. Gone(m) = read - Len(b) /\ skip = Len(b) - post.avail /\ Taken + post.avail = read - 3
    BY <1>b, <1>c
  <2>2. read \in Nat /\ Len(b) \in Nat /\ post.avail \in Nat /\ Taken \in Nat
    BY <1>1, <1>3, <1>b
  <2> QED BY <2>1, <2>2
<1>d. /\ Input(s) \in Seq(Piece) /\ Len(Input(s)) = post.avail
      /\ \A k \in 1 .. post.avail : Input(s)[k] = b[skip + k]
  <2> DEFINE part == SubSeq(b, skip + 1, Len(b))
  <2>1. /\ part \in Seq(Piece) /\ Len(part) = Len(b) - skip
        /\ \A k \in 1 .. Len(b) - skip : part[k] = b[skip + k]
    BY <1>3, <1>f, PartIs
  <2> HIDE DEF part
  <2> QED BY <1>c, <1>f, <2>1 DEF part
<1>e. ASSUME NEW k \in 1 .. post.avail PROVE Input(s)[k] = [of |-> c, n |-> Taken + k]
  <2>1. skip + k \in 1 .. Len(b)
    BY <1>1, <1>3, <1>f
  <2>2. Gone(m) + (skip + k) = 3 + (Taken + k) /\ Taken + k \in 1 .. Pieces
    <3>1. Gone(m) \in Int /\ skip \in Int /\ k \in Int /\ Taken \in Nat /\ k >= 1 /\ k <= post.avail
      BY <1>1, <1>3, <1>b, <1>f
    <3>2. Taken + post.avail <= Pieces
      BY <1>1, <1>b, Consts
    <3>3. Gone(m) + (skip + k) = 3 + (Taken + k)
      BY <1>g, <3>1
    <3>4. Taken + k \in 1 .. Pieces
      BY <1>1, <3>1, <3>2, Consts
    <3> QED BY <3>3, <3>4
  <2>3. Input(s)[k] = b[skip + k] /\ b[skip + k] = Wire(c)[Gone(m) + (skip + k)]
    BY <1>a, <1>d, <2>1
  <2> QED BY <1>9, <2>2, <2>3
<1>z. /\ post.mutex = m /\ Talks(m) /\ Whole(m) /\ Waits(m) /\ ~post.writing /\ slots[m].html = "JSONLEX"
      /\ post.nextState = "LEXWAIT" /\ post.nextCMD = "CONTINUE" /\ Used(m)
      /\ post.avail \in Nat /\ Len(Input(s)) = post.avail /\ post.avail >= 1
      /\ Input(s) \in Seq(Piece)
  BY <1>1, <1>4, <1>5, <1>6, <1>d DEF m
<1>y. \A k \in 1 .. post.avail : Input(s)[k] = [of |-> slots[m].c, n |-> Taken + k]
  BY <1>e DEF c
<1> QED BY <1>2, <1>y, <1>z

\* Input of the serial port, from where it was read to.
LEMMA SerialInput ==
  ASSUME TypeOK, SerialInv, NEW s \in Streams, s = "serial"
  PROVE  /\ Input(s) \in Seq(Piece) /\ Len(Input(s)) = port.sent - port.read /\ port.sent - port.read \in Nat
         /\ port.sent \in Nat /\ port.read \in Nat
         /\ \A k \in 1 .. Len(Input(s)) : Input(s)[k] = [of |-> "serial", n |-> port.read + k]
<1>1. port.sent \in Nat /\ port.read \in Nat /\ port.read <= port.sent
  BY DEF TypeOK, SerialInv
<1> DEFINE n == port.sent - port.read
<1>2. n \in Nat
  BY <1>1
<1>3. Input(s) = [k \in 1 .. n |-> [of |-> "serial", n |-> port.read + k]]
  BY DEF Input
<1>4. \A k \in 1 .. n : [of |-> "serial", n |-> port.read + k] \in Piece
  BY <1>1, <1>2 DEF Piece, Senders
<1> HIDE DEF n
<1>5. Input(s) \in Seq(Piece) /\ Len(Input(s)) = n
  BY <1>2, <1>3, <1>4
<1>6. \A k \in 1 .. n : Input(s)[k] = [of |-> "serial", n |-> port.read + k]
  BY <1>3
<1> QED BY <1>1, <1>2, <1>5, <1>6 DEF n

\* Available() of the POST stream: an empty buffer makes the page read.
LEMMA AskInv ==
  ASSUME Inv, AskForMore("post"), io["post"] # "WRITE", turn' \in {"client", "serial", "post", "print"},
         UNCHANGED <<client, port, answer, next, io, lex, locked, tx, print, trap>>
  PROVE  Inv'
<1>1. CASE post' = post /\ slots' = slots
  <2>1. TypeOK'
    BY <1>1 DEF Inv, TypeOK
  <2> QED BY <1>1, <2>1, Elsewhere
<1>2. CASE /\ post.mutex # NoSlot /\ post.avail = 0 /\ post.nextState = "LEXWAIT"
           /\ post' = [post EXCEPT !.nextState = "LEXAVAILABLE", !.nextCMD = "READ"]
           /\ slots' = [slots EXCEPT ![post.mutex].buf = <<>>]
  <2>0. PICK m \in Slots : m = post.mutex
    BY <1>2 DEF Inv, TypeOK, PostType, Slots
  <2> DEFINE s == slots[m]
             e == [s EXCEPT !.buf = <<>>]
  <2>1. m \in Slots /\ TypeOK /\ post \in PostType /\ slots' = [slots EXCEPT ![m] = e]
    BY <1>2, <2>0 DEF Inv, TypeOK
  <2>2. DOMAIN slots = Slots /\ s \in SlotType /\ Holds(m) /\ SlotInv(m)
    BY <2>0, <2>1, Fields DEF Inv, MutexInv
  <2>3. Used(m)
    BY <2>2 DEF SlotInv, Holds, EmptySlot
  <2>4. Owned(m).read \in Nat /\ s.c \in Clients
    BY <2>1, <2>3, Fields
  <2>5. /\ e \in SlotType /\ e.c = s.c /\ e.html = s.html /\ e.page = s.page /\ e.state = s.state /\ e.next = s.next
        /\ e.out = s.out /\ e.buf = <<>>
    <3>1. <<>> \in Seq(Piece)
      OBVIOUS
    <3> QED BY <2>2, <3>1 DEF SlotType
  <2> HIDE DEF e
  <2>6. slots'[m] = e /\ \A j \in Slots : j # m => slots'[j] = slots[j]
    BY <2>1, <2>2
  <2>7. /\ post' \in PostType /\ post'.mutex = m /\ post'.avail = 0 /\ post'.nextState = "LEXAVAILABLE"
        /\ post'.nextCMD = "READ" /\ post'.lexState = post.lexState /\ post'.writing = post.writing
        /\ post'.first = post.first
    BY <1>2, <2>0, <2>1 DEF PostType
  <2>8. s.html \in Exchange \cup {"HTTPDISCONNECT"} /\ ~Unstarted
    <3>1. ~Unstarted
      BY <1>2 DEF Inv, RestInv, NewPost
    <3> QED BY <2>0, <2>2, <3>1 DEF Unstarted, Holds, HeaderAt, Exchange, SlotType
  <2>9. Owned(m)' = Owned(m) /\ Reply(m)' = Reply(m) /\ Wire(s.c)' = Wire(s.c)
    <3>1. slots'[m].c = s.c
      BY <2>5, <2>6
    <3> QED BY <3>1 DEF Owned, Reply, Wire, Header
  <2>a. SlotInv(m)'
    <3>1. /\ Owned(m).conn \in {"open", "gone"} /\ BufferInv(m) /\ HeaderInv(m) /\ BodyInv(m)
      BY <2>2, <2>3 DEF SlotInv
    <3>2. Len(slots'[m].buf) = 0 /\ slots'[m].c = s.c
      BY <2>5, <2>6
    <3>3. BufferInv(m)'
      <4>1. \A k \in 1 .. 0 : FALSE
        OBVIOUS
      <4>2. /\ Owned(m)'.read <= Owned(m)'.sent /\ Owned(m)'.sent <= Len(Wire(slots[m].c)')
        BY <3>1, <2>9 DEF BufferInv
      <4> QED BY <2>4, <2>5, <2>6, <2>9, <3>2, <4>1, <4>2 DEF BufferInv
    <3>4. Gone(m)' >= Gone(m) /\ Gone(m)' \in Nat /\ Gone(m) \in Int
      <4>1. Len(s.buf) \in Nat
        BY <2>1, Fields
      <4> QED BY <2>4, <2>9, <3>2, <4>1 DEF Gone
    <3>5. HeaderInv(m)'
      BY <2>5, <2>6, <2>8, <2>9, <3>1 DEF HeaderInv, HeaderAt, Exchange
    <3>6. BodyInv(m)'
      <4>1. s.html \in Exchange => Gone(m)' >= 3
        BY <3>1, <3>4 DEF BodyInv
      <4> QED BY <2>5, <2>6, <2>9, <3>1, <4>1 DEF BodyInv
    <3> QED BY <2>3, <2>5, <2>6, <2>9, <3>1, <3>3, <3>5, <3>6 DEF SlotInv, Used
  <2>b. (Holds(m)' <=> Holds(m)) /\ slots'[m].c = s.c /\ slots'[m].state = s.state /\ slots'[m].html = s.html
    BY <2>5, <2>6 DEF Holds
  <2>c. TypeOK'
    <3>1. slots' \in [0 .. NSlots - 1 -> SlotType]
      BY <2>1, <2>5 DEF TypeOK, Slots
    <3> QED BY <2>1, <2>7, <3>1 DEF TypeOK
  <2>d. RestInv'
    <3>1. ~Unstarted'
      BY <2>1, <2>7, <2>8, <2>b DEF Unstarted, Exchange, HeaderAt
    <3> QED BY <2>7, <3>1 DEF RestInv
  <2>e. ASSUME NEW j \in Slots, Talks(j)' PROVE (Broken(j) \/ Whole(j))'
    <3>1. j = m
      BY <2>7, <2>e DEF Talks
    <3>2. Talks(m)
      BY <2>0, <2>b, <2>e, <3>1 DEF Talks
    <3>3. s.html = "JSONLEX" /\ Whole(m) /\ ~post.writing /\ Waits(m)
      <4>1. s.html = "JSONLEX" /\ (Broken(m) \/ Whole(m))
            /\ (Whole(m) => ~post.writing /\ (Asked(m) \/ Waits(m)))
        BY <2>1, <3>2, Quiet
      <4>2. ~Broken(m) /\ ~Asked(m)
        BY <1>2 DEF Broken, Asked
      <4> QED BY <4>1, <4>2
    <3>4. post.lexState = "LEXWAIT" /\ s.state = "PROCESSHTML" /\ post.nextCMD = "CONTINUE"
      BY <1>2, <3>3 DEF Waits
    <3>5. Waits(m)'
      BY <2>5, <2>6, <2>7, <3>3, <3>4 DEF Waits
    <3>6. Taken' = Taken /\ Out' = Out
      BY DEF Taken, Out, Count, Running
    <3>7. AllThere(m)'
      BY <1>2, <2>7, <2>9, <3>3, <3>4, <3>6 DEF Whole, AllThere
    <3>8. AllToCome(m)'
      BY <2>7, <2>9, <2>b, <3>3, <3>4, <3>6 DEF Whole, AllToCome
    <3>9. post'.avail <= Len(slots'[m].buf)
      BY <2>5, <2>6, <2>7
    <3>a. Whole(m)'
      BY <2>7, <2>b, <3>3, <3>5, <3>7, <3>8, <3>9 DEF Whole
    <3> QED BY <3>1, <3>a
  <2>f. LexInv'
    BY <2>0, <2>7, <2>b, LexKept DEF Inv
  <2>g. PostRuns'
    <3>1. Running("post")' = Running("post")
      BY DEF Running
    <3>2. \A j \in Slots : Talks(j) => Talks(j)'
      BY <2>0, <2>6, <2>7, <2>b DEF Talks
    <3> QED BY <3>1, <3>2 DEF Inv, PostRuns
  <2>h. SerialInv' /\ LockInv' /\ PortBusy' = PortBusy
    BY DEF Inv, SerialInv, LockInv, PortBusy, Running, Count
  <2>i. Len(answer["serial"]) <= 3 /\ \A k \in 1 .. Len(answer["serial"]) : answer["serial"][k] = "serial"
    BY DEF Inv, OwnInv, Senders
  <2> QED BY <2>0, <2>6, <2>7, <2>8, <2>a, <2>b, <2>c, <2>d, <2>e, <2>f, <2>g, <2>h, <2>i, StreamStep
<1> QED BY <1>1, <1>2 DEF AskForMore

\* A stream takes n pieces more, and what it took is the next part of the command.
LEMMA TakesInv ==
  ASSUME Inv, NEW s \in Streams, NEW n \in 1 .. Len(Input(s)), Take(s, n), io[s] \in {"JSONListening", "READ"},
         io' = [io EXCEPT ![s] = "CONTINUE"], lex' \in LexType, lex'.got = lex.got, lex'.output = FALSE, lex'.out = 0,
         lex'.in \in Seq(Piece), Len(lex'.in) = n, \A k \in 1 .. n : lex'.in[k] = Input(s)[k],
         io[s] = "JSONListening" => ~locked /\ n = 1, locked' = TRUE,
         UNCHANGED <<client, answer, slots, next, tx, print, trap>>, turn' \in {"client", "serial", "post", "print"}
  PROVE  Inv'
<1>1. TypeOK /\ s \in {"serial", "post"} /\ Input(s) # <<>>
  <2>1. Input(s) = <<>> => Len(Input(s)) = 0
    OBVIOUS
  <2> QED BY <2>1 DEF Inv, Streams
<1>2. /\ io[s] = "READ" => Running(s) /\ lex.in = <<>> /\ ~lex.output /\ lex.out = 0 /\ InTurn(s) /\ locked
      /\ io[s] = "JSONListening" => lex = NewLexer /\ ~locked
      /\ \A r \in Streams : r # s => ~Running(r)
      /\ ~print.dma
  BY <1>1 DEF Inv, LexInv, InTurn, LockInv, Running, Streams
<1>3. /\ lex.in = <<>> /\ Len(lex.in) = 0 /\ ~lex.output /\ Len(lex.got) \in Nat /\ lex.got \in Seq(Piece)
      /\ io[s] = "JSONListening" => lex.got = <<>> /\ Len(lex.got) = 0
  <2>1. lex.in = <<>> /\ ~lex.output /\ lex.got \in Seq(Piece)
    BY <1>1, <1>2 DEF NewLexer, TypeOK, LexType
  <2>2. io[s] = "JSONListening" => lex.got = <<>>
    BY <1>2 DEF NewLexer
  <2> QED BY <2>1, <2>2
<1>4. /\ io' \in [Streams -> {"JSONListening", "CONTINUE", "READ", "WRITE", "ERROR", "DONE"}] /\ io'[s] = "CONTINUE"
      /\ \A r \in Streams : r # s => io'[r] = io[r]
  BY <1>1 DEF TypeOK, Streams
<1>5. /\ Running(s)' /\ \A r \in Streams : r # s => ~Running(r)'
  BY <1>2, <1>4 DEF Running
<1>6. n \in Nat /\ n >= 1 /\ n <= Len(Input(s)) /\ Count' = Len(lex.got) + n /\ Count = Len(lex.got)
  BY <1>3 DEF Count
<1>7. LockInv'
  BY <1>1, <1>2, <1>5 DEF LockInv, Streams
<1>8. /\ Len(answer["serial"]) <= 3 /\ \A k \in 1 .. Len(answer["serial"]) : answer["serial"][k] = "serial"
  BY DEF Inv, OwnInv, Senders
<1>9. ASSUME \A k \in 1 .. n : Input(s)[k] = [of |-> Sender(s)', n |-> Len(lex.got) + k],
             \A k \in 1 .. Len(lex.got) : lex.got[k] = [of |-> Sender(s)', n |-> k]
      PROVE  LexInv'
  <2>1. InTurn(s)'
    BY <1>3, <1>4, <1>6, <1>9 DEF InTurn
  <2> QED BY <1>5, <2>1 DEF LexInv
<1>a. CASE s = "serial"
  <2>1. port' = [port EXCEPT !.read = @ + n] /\ post' = post
    BY <1>a DEF Take
  <2>2. /\ port.sent \in Nat /\ port.read \in Nat /\ Len(Input(s)) = port.sent - port.read
        /\ port.sent - port.read \in Nat /\ SerialInv
        /\ \A k \in 1 .. n : Input(s)[k] = [of |-> "serial", n |-> port.read + k]
    BY <1>1, <1>6, <1>a, SerialInput DEF Inv
  <2>3. port'.sent = port.sent /\ port'.read = port.read + n /\ port' \in [sent : Nat, read : Nat, writing : BOOLEAN]
    <3>1. port \in [sent : Nat, read : Nat, writing : BOOLEAN] /\ port.read + n \in Nat
      BY <1>1, <1>6, <2>2 DEF TypeOK
    <3> QED BY <2>1, <3>1
  <2>4. /\ port.read = Len(lex.got) /\ Len(answer["serial"]) = 0 /\ port.sent <= Pieces
    <3>1. CASE io[s] = "JSONListening"
      <4>1. port.sent <= Pieces /\ port.read < port.sent
        BY <1>6, <2>2 DEF SerialInv
      <4>2. port.read = 0 /\ answer["serial"] = <<>>
        BY <1>a, <2>2, <3>1, <4>1, Consts DEF SerialInv, Running
      <4> QED BY <1>3, <3>1, <4>1, <4>2
    <3>2. CASE io[s] = "READ"
      BY <1>2, <1>3, <1>6, <1>a, <2>2, <3>2 DEF SerialInv
    <3> QED BY <3>1, <3>2
  <2>5. \A k \in 1 .. Len(lex.got) : lex.got[k] = [of |-> "serial", n |-> k]
    <3>1. CASE io[s] = "JSONListening"
      BY <1>3, <3>1
    <3>2. CASE io[s] = "READ"
      BY <1>2, <1>a, <3>2 DEF InTurn, Sender
    <3> QED BY <3>1, <3>2
  <2>6. LexInv'
    BY <1>9, <1>a, <2>2, <2>4, <2>5 DEF Sender
  <2>7. SerialInv'
    <3>1. port'.read <= port'.sent /\ port'.sent <= Pieces /\ port'.read = Count' /\ port'.read > 0
      BY <1>6, <2>2, <2>3, <2>4, Consts
    <3> QED BY <1>5, <1>a, <2>4, <3>1 DEF SerialInv
  <2>8. PortBusy' => PortBusy
    BY <1>6, <2>2, <2>3, <2>4 DEF PortBusy
  <2>9. io'["post"] = io["post"] /\ ~Running("post") /\ ~Running("post")'
    BY <1>2, <1>4, <1>5, <1>a DEF Streams
  <2>a. TypeOK'
    BY <1>1, <1>4, <2>1, <2>3 DEF TypeOK
  <2>b. RestInv'
    BY <2>1 DEF Inv, RestInv, Unstarted
  <2>c. ASSUME NEW j \in Slots, Talks(j)' PROVE (Broken(j) \/ Whole(j))'
    <3>1. Taken' = Taken /\ Out' = Out
      BY <2>9 DEF Taken, Out
    <3> QED BY <2>1, <2>9, <2>c, <3>1, TalkGoesOn
  <2>d. PostRuns'
    BY <2>9 DEF PostRuns
  <2>e. \A j \in Slots : SlotInv(j)' /\ (Holds(j)' <=> Holds(j))
    <3>1. \A j \in Slots : SlotInv(j)'
      BY SlotKept DEF Inv
    <3> QED BY <3>1 DEF Holds
  <2> QED BY <1>7, <1>8, <2>1, <2>6, <2>7, <2>8, <2>a, <2>b, <2>c, <2>d, <2>e, StreamStep
<1>b. CASE s = "post"
  <2>1. post' = [post EXCEPT !.avail = @ - n] /\ port' = port
    BY <1>b DEF Take
  <2>2. PICK m \in Slots :
           /\ post.mutex = m /\ Talks(m) /\ Whole(m) /\ Waits(m) /\ ~post.writing /\ slots[m].html = "JSONLEX"
           /\ post.nextState = "LEXWAIT" /\ post.nextCMD = "CONTINUE" /\ Used(m)
           /\ post.avail \in Nat /\ Len(Input(s)) = post.avail /\ post.avail >= 1
           /\ \A k \in 1 .. post.avail : Input(s)[k] = [of |-> slots[m].c, n |-> Taken + k]
    BY <1>1, <1>b, PostInput
  <2>3. Taken = Len(lex.got) /\ Out = 2
    <3>1. CASE io[s] = "JSONListening"
      BY <1>3, <1>b, <3>1 DEF Taken, Out, Running
    <3>2. CASE io[s] = "READ"
      BY <1>2, <1>3, <1>6, <1>b, <3>2 DEF Taken, Out
    <3> QED BY <3>1, <3>2
  <2>4. Taken' = Len(lex.got) + n /\ Out' = 2
    BY <1>5, <1>6, <1>b DEF Taken, Out
  <2>5. /\ post' \in PostType /\ post'.mutex = m /\ post'.avail = post.avail - n /\ post'.avail \in Nat
        /\ post'.nextState = "LEXWAIT" /\ post'.nextCMD = "CONTINUE" /\ post'.lexState = post.lexState
        /\ ~post'.writing /\ post'.first = post.first
    <3>1. post.avail - n \in Nat
      BY <1>6, <2>2
    <3> QED BY <1>1, <2>1, <2>2, <3>1 DEF TypeOK, PostType
  <2>6. Sender(s)' = slots[m].c
    BY <1>b, <2>5 DEF Sender
  <2>7. \A k \in 1 .. Len(lex.got) : lex.got[k] = [of |-> slots[m].c, n |-> k]
    <3>1. CASE io[s] = "JSONListening"
      BY <1>3, <3>1
    <3>2. CASE io[s] = "READ"
      BY <1>2, <1>b, <2>2, <3>2 DEF InTurn, Sender
    <3> QED BY <3>1, <3>2
  <2>8. LexInv'
    <3>1. \A k \in 1 .. n : k \in 1 .. post.avail
      BY <1>6, <2>2
    <3> QED BY <1>9, <2>2, <2>3, <2>6, <2>7, <3>1
  <2>9. ~Running("serial") /\ ~Running("serial")' /\ io'["serial"] = io["serial"]
    BY <1>2, <1>4, <1>5, <1>b DEF Streams
  <2>a. SerialInv' /\ PortBusy' = PortBusy
    BY <2>1, <2>9 DEF Inv, SerialInv, PortBusy
  <2>b. TypeOK'
    BY <1>1, <1>4, <2>1, <2>5 DEF TypeOK
  <2>c. ~Unstarted' /\ RestInv'
    <3>1. ~Unstarted'
      BY <2>2, <2>5 DEF Unstarted, HeaderAt
    <3> QED BY <2>2, <2>5, <3>1 DEF RestInv
  <2>d. Talks(m)' /\ \A j \in Slots : Talks(j)' => j = m
    BY <2>2, <2>5 DEF Talks
  <2>e. Owned(m)' = Owned(m) /\ Reply(m)' = Reply(m)
    BY DEF Owned, Reply
  <2>f. Whole(m)'
    <3>1. Waits(m)'
      BY <2>2, <2>5 DEF Waits
    <3>2. AllThere(m)'
      <4>1. post.lexState = "LEXWAIT"
        BY <2>2 DEF Waits
      <4>2. Taken + post.avail + 0 = Owned(m).read - 3
        BY <2>2, <4>1 DEF Whole, AllThere
      <4>3. (Len(lex.got) + n) + (post.avail - n) + 0 = Owned(m).read - 3
        BY <1>3, <1>6, <2>2, <2>3, <4>2
      <4> QED BY <2>4, <2>5, <2>e, <4>1, <4>3 DEF AllThere
    <3>3. AllToCome(m)'
      <4>1. AllToCome(m)
        BY <2>2 DEF Whole
      <4>2. One(post.writing) = 0 /\ One(post'.writing) = 0
        BY <2>2, <2>5 DEF One
      <4> QED BY <2>2, <2>3, <2>4, <2>5, <2>e, <4>1, <4>2 DEF AllToCome
    <3>4. post'.avail <= Len(slots'[m].buf)
      <4>1. post.avail <= Len(slots[m].buf) /\ Len(slots[m].buf) \in Nat
        BY <1>1, <2>2, Fields DEF Whole
      <4> QED BY <1>6, <2>2, <2>5, <4>1
    <3> QED BY <2>2, <2>5, <3>1, <3>2, <3>3, <3>4 DEF Whole
  <2>g. PostRuns'
    BY <2>d DEF PostRuns
  <2>h. \A j \in Slots : SlotInv(j)' /\ (Holds(j)' <=> Holds(j))
    <3>1. \A j \in Slots : SlotInv(j)'
      BY SlotKept DEF Inv
    <3> QED BY <3>1 DEF Holds
  <2> QED BY <1>7, <1>8, <2>2, <2>5, <2>8, <2>a, <2>b, <2>c, <2>d, <2>f, <2>g, <2>h, StreamStep
<1> QED BY <1>1, <1>a, <1>b

LEMMA ListenInv ==
  ASSUME Inv, NEW s \in Streams, Listen(s)
  PROVE  Inv'
<1>1. /\ io[s] = "JSONListening" /\ turn' \in {"client", "serial", "post", "print"}
      /\ UNCHANGED <<client, answer, next, tx, print, trap>> /\ TypeOK
  BY DEF Listen, Turn, Following, Inv, Streams
<1>2. CASE ~(MayTakeLock /\ Input(s) # <<>>)
  <2>1. /\ IF MayTakeLock THEN AskForMore(s) ELSE UNCHANGED <<post, slots>>
        /\ UNCHANGED <<port, lex, locked, io>>
    BY <1>2 DEF Listen
  <2>2. CASE MayTakeLock /\ s = "post"
    BY <1>1, <2>1, <2>2, AskInv
  <2>3. CASE ~(MayTakeLock /\ s = "post")
    <3>1. post' = post /\ slots' = slots
      BY <2>1, <2>3 DEF AskForMore
    <3>2. TypeOK'
      BY <1>1, <2>1, <3>1 DEF TypeOK
    <3> QED BY <1>1, <2>1, <3>1, <3>2, Elsewhere
  <2> QED BY <2>2, <2>3
<1>3. CASE MayTakeLock /\ Input(s) # <<>>
  <2> DEFINE first == Head(Input(s))
  <2>1. /\ Take(s, 1) /\ UNCHANGED slots
        /\ \E starts \in IF first.n = 1 THEN {TRUE} ELSE BOOLEAN :
             IF starts
             THEN /\ lex' = [NewLexer EXCEPT !.in = <<first>>]
                  /\ locked' = TRUE /\ io' = [io EXCEPT ![s] = "CONTINUE"]
             ELSE UNCHANGED <<lex, locked, io>>
    BY <1>3 DEF Listen
  <2>2. /\ ~locked /\ \A r \in Streams : ~Running(r)
    BY <1>3 DEF MayTakeLock, Inv, LockInv, Streams
  <2>3. lex = NewLexer
    BY <2>2 DEF Inv, LexInv
  <2>4. Input(s) \in Seq(Piece) /\ Len(Input(s)) >= 1 /\ Len(Input(s)) \in Nat /\ Input(s)[1].n = 1
    <3>1. CASE s = "serial"
      <4>1. /\ Input(s) \in Seq(Piece) /\ Len(Input(s)) = port.sent - port.read /\ SerialInv
            /\ port.sent \in Nat /\ port.read \in Nat /\ port.sent - port.read \in Nat
            /\ \A k \in 1 .. Len(Input(s)) : Input(s)[k] = [of |-> "serial", n |-> port.read + k]
        BY <1>1, <3>1, SerialInput DEF Inv
      <4>2. Len(Input(s)) # 0
        BY <1>3, <4>1
      <4>3. Len(Input(s)) >= 1 /\ port.read < port.sent /\ port.sent <= Pieces
        BY <4>1, <4>2 DEF SerialInv
      <4>4. port.read = 0
        BY <2>2, <3>1, <4>1, <4>3, Consts DEF SerialInv
      <4>5. 1 \in 1 .. Len(Input(s))
        BY <4>1, <4>3
      <4>6. Input(s)[1] = [of |-> "serial", n |-> port.read + 1]
        BY <4>1, <4>5
      <4> QED BY <4>1, <4>3, <4>4, <4>6
    <3>2. CASE s = "post"
      <4>1. PICK m \in Slots :
              /\ post.avail \in Nat /\ Len(Input(s)) = post.avail /\ post.avail >= 1 /\ Input(s) \in Seq(Piece)
              /\ \A k \in 1 .. post.avail : Input(s)[k] = [of |-> slots[m].c, n |-> Taken + k]
        BY <1>1, <1>3, <3>2, PostInput
      <4>2. Taken = 0
        BY <1>1, <3>2 DEF Taken, Running
      <4>3. Input(s)[1] = [of |-> slots[m].c, n |-> 0 + 1]
        BY <4>1, <4>2
      <4> QED BY <4>1, <4>3
    <3> QED BY <3>1, <3>2 DEF Streams
  <2>5. first = Input(s)[1] /\ first \in Piece
    <3>1. Head(Input(s)) = Input(s)[1]
      BY <2>4
    <3>2. 1 \in 1 .. Len(Input(s))
      BY <2>4
    <3>3. Input(s)[1] \in Piece
      BY <2>4, <3>2, ElementOfSeq
    <3> QED BY <3>1, <3>3
  <2> HIDE DEF first
  <2>6. lex' = [NewLexer EXCEPT !.in = <<first>>] /\ locked' = TRUE /\ io' = [io EXCEPT ![s] = "CONTINUE"]
    BY <2>1, <2>4, <2>5
  <2>7. <<first>> \in Seq(Piece) /\ Len(<<first>>) = 1 /\ <<first>>[1] = first
    BY <2>5
  <2>8. /\ lex'.in = <<first>> /\ lex'.got = lex.got /\ lex'.output = FALSE /\ lex'.out = 0 /\ lex' \in LexType
    <3> DEFINE one == <<first>>
    <3>1. <<>> \in Seq(Piece) /\ one \in Seq(Piece)
      BY <2>7
    <3> HIDE DEF one
    <3>2. lex' = [in |-> one, got |-> <<>>, out |-> 0, output |-> FALSE]
      BY <2>6 DEF NewLexer, one
    <3>3. lex' \in LexType
      BY <3>1, <3>2 DEF LexType
    <3>4. lex'.in = one /\ lex'.got = <<>> /\ lex'.output = FALSE /\ lex'.out = 0
      BY <3>2
    <3>5. lex.got = <<>>
      BY <2>3 DEF NewLexer
    <3> QED BY <3>3, <3>4, <3>5 DEF one
  <2>9. 1 \in 1 .. Len(Input(s))
    BY <2>4
  <2>a. Len(lex'.in) = 1 /\ lex'.in \in Seq(Piece) /\ \A k \in 1 .. 1 : lex'.in[k] = Input(s)[k]
    BY <2>5, <2>7, <2>8
  <2> QED BY <1>1, <2>1, <2>2, <2>6, <2>8, <2>9, <2>a, TakesInv
<1> QED BY <1>2, <1>3

LEMMA ReadMoreInv ==
  ASSUME Inv, NEW s \in Streams, ReadMore(s)
  PROVE  Inv'
<1>1. /\ io[s] = "READ" /\ turn' \in {"client", "serial", "post", "print"}
      /\ UNCHANGED <<client, answer, next, locked, tx, print, trap>> /\ TypeOK
  BY DEF ReadMore, Turn, Following, Inv, Streams
<1>2. CASE Input(s) = <<>>
  <2>1. AskForMore(s) /\ UNCHANGED <<port, lex, io>>
    BY <1>2 DEF ReadMore
  <2>2. CASE s = "post"
    BY <1>1, <2>1, <2>2, AskInv
  <2>3. CASE s # "post"
    <3>1. post' = post /\ slots' = slots
      BY <2>1, <2>3 DEF AskForMore
    <3>2. TypeOK'
      BY <1>1, <2>1, <3>1 DEF TypeOK
    <3> QED BY <1>1, <2>1, <3>1, <3>2, Elsewhere
  <2> QED BY <2>2, <2>3
<1>3. CASE Input(s) # <<>>
  <2>1. PICK n \in 1 .. Len(Input(s)) :
          /\ Take(s, n) /\ lex' = [lex EXCEPT !.in = SubSeq(Input(s), 1, n)]
          /\ io' = [io EXCEPT ![s] = "CONTINUE"] /\ UNCHANGED slots
    BY <1>3 DEF ReadMore
  <2>2. Input(s) \in Seq(Piece)
    <3>1. CASE s = "serial"
      BY <1>1, <3>1, SerialInput DEF Inv
    <3>2. CASE s = "post"
      BY <1>1, <1>3, <3>2, PostInput
    <3> QED BY <3>1, <3>2 DEF Streams
  <2>3. n \in Nat /\ n >= 1 /\ n <= Len(Input(s)) /\ Len(Input(s)) \in Nat
    BY <2>2
  <2> DEFINE part == SubSeq(Input(s), 0 + 1, n)
  <2>4. part \in Seq(Piece) /\ Len(part) = n - 0 /\ \A k \in 1 .. n - 0 : part[k] = Input(s)[0 + k]
    BY <2>2, <2>3, PartIs
  <2>5. part = SubSeq(Input(s), 1, n)
    OBVIOUS
  <2> HIDE DEF part
  <2>6. Len(part) = n /\ \A k \in 1 .. n : part[k] = Input(s)[k]
    BY <2>3, <2>4
  <2>7. lex' = [lex EXCEPT !.in = part] /\ lex \in LexType
    BY <1>1, <2>1, <2>5 DEF TypeOK
  <2>8. InTurn(s) /\ locked /\ locked \in BOOLEAN
    BY <1>1 DEF Inv, LexInv, LockInv, Running, Streams, TypeOK
  <2>9. lex.output = FALSE /\ lex.out = 0
    BY <1>1, <2>7, <2>8 DEF InTurn, LexType
  <2>a. /\ lex'.in = part /\ lex'.got = lex.got /\ lex'.output = FALSE /\ lex'.out = 0 /\ lex' \in LexType
    BY <2>4, <2>7, <2>9 DEF LexType
  <2>b. locked' = TRUE
    BY <1>1, <2>8
  <2> QED BY <1>1, <2>1, <2>4, <2>6, <2>a, <2>b, TakesInv
<1> QED BY <1>2, <1>3

\* A stream comes to another state: what it took and what it has to write stay the same.
LEMMA GoesOn ==
  ASSUME Inv, NEW s \in Streams, NEW x \in {"CONTINUE", "READ", "WRITE", "DONE"}, io[s] = "CONTINUE",
         io' = [io EXCEPT ![s] = x], lex' \in LexType, InTurn(s)', Count' = Count,
         (IF lex'.output THEN lex'.out ELSE 2) = (IF lex.output THEN lex.out ELSE 2),
         UNCHANGED <<client, port, answer, slots, next, post, locked, tx, print, trap>>,
         turn' \in {"client", "serial", "post", "print"}
  PROVE  Inv'
<1>1. /\ TypeOK /\ Running(s) /\ \A r \in Streams : r # s => ~Running(r)
  BY DEF Inv, LockInv, Running, Streams
<1>2. /\ io' \in [Streams -> {"JSONListening", "CONTINUE", "READ", "WRITE", "ERROR", "DONE"}] /\ io'[s] = x
      /\ \A r \in Streams : r # s => io'[r] = io[r]
  BY <1>1 DEF TypeOK, Streams
<1>3. \A r \in Streams : Running(r)' <=> Running(r)
  BY <1>1, <1>2 DEF Running
<1>4. LexInv'
  BY <1>1, <1>3 DEF LexInv
<1>5. LockInv' /\ PostRuns'
  BY <1>3 DEF Inv, LockInv, PostRuns, Talks, Streams
<1>6. lex.output \in BOOLEAN /\ lex.out \in Nat /\ lex'.output \in BOOLEAN /\ lex'.out \in Nat
  BY <1>1 DEF TypeOK, LexType
<1>7. SerialInv' /\ PortBusy' = PortBusy
  <2>1. (IF lex'.output THEN 2 - lex'.out ELSE 0) = (IF lex.output THEN 2 - lex.out ELSE 0)
    BY <1>6
  <2> QED BY <1>3, <2>1 DEF Inv, SerialInv, PortBusy, Streams
<1>8. Taken' = Taken /\ Out' = Out
  <2>1. Running("post")' <=> Running("post")
    BY <1>3 DEF Streams
  <2>2. Taken' = Taken
    BY <2>1 DEF Taken
  <2>3. CASE Running("post")
    BY <2>1, <2>2, <2>3 DEF Out
  <2>4. CASE ~Running("post")
    BY <2>1, <2>2, <2>4 DEF Out
  <2> QED BY <2>2, <2>3, <2>4
<1>9. TypeOK'
  BY <1>1, <1>2 DEF TypeOK
<1>a. RestInv'
  BY DEF Inv, RestInv, Unstarted
<1>b. ASSUME NEW j \in Slots, Talks(j)' PROVE (Broken(j) \/ Whole(j))'
  <2>1. io'["post"] = io["post"] \/ io["post"] # "WRITE"
    BY <1>2 DEF Streams
  <2> QED BY <1>8, <1>b, <2>1, TalkGoesOn
<1>c. \A j \in Slots : SlotInv(j)' /\ (Holds(j)' <=> Holds(j))
  <2>1. \A j \in Slots : SlotInv(j)'
    BY SlotKept DEF Inv
  <2> QED BY <2>1 DEF Holds
<1>d. Len(answer["serial"]) <= 3 /\ \A k \in 1 .. Len(answer["serial"]) : answer["serial"][k] = "serial"
  BY DEF Inv, OwnInv, Senders
<1> QED BY <1>4, <1>5, <1>7, <1>9, <1>a, <1>b, <1>c, <1>d, StreamStep

LEMMA ContinueInv ==
  ASSUME Inv, Handled, NEW s \in Streams, Continue(s)
  PROVE  Inv'
<1>1. /\ io[s] = "CONTINUE" /\ turn' \in {"client", "serial", "post", "print"} /\ TypeOK
      /\ UNCHANGED <<client, port, answer, slots, next, post, locked, tx, print, trap>>
  BY DEF Continue, Turn, Following, Inv, Streams, world, http
<1>2. InTurn(s) /\ lex \in LexType
  BY <1>1 DEF Inv, LexInv, Running, TypeOK
<1>3. lex.got \in Seq(Piece) /\ lex.in \in Seq(Piece) /\ lex.out \in 0 .. 2 /\ lex.output \in BOOLEAN
  BY <1>2 DEF LexType
<1>4. Sender(s)' = Sender(s)
  BY <1>1 DEF Sender
<1>5. CASE lex.output
  <2> DEFINE x == IF lex.out > 0 THEN "WRITE" ELSE "DONE"
  <2>1. io' = [io EXCEPT ![s] = x] /\ lex' = lex
    BY <1>5 DEF Continue
  <2>2. x \in {"CONTINUE", "READ", "WRITE", "DONE"} /\ (x = "WRITE" => lex.out > 0) /\ (x = "DONE" => lex.out = 0)
        /\ x \in {"WRITE", "DONE"}
    BY <1>3
  <2> HIDE DEF x
  <2>3. io'[s] = x
    BY <1>1, <2>1 DEF TypeOK
  <2>4. InTurn(s)'
    BY <1>2, <1>4, <1>5, <2>1, <2>2, <2>3 DEF InTurn
  <2>5. Count' = Count
    BY <2>1 DEF Count
  <2> QED BY <1>1, <1>2, <2>1, <2>2, <2>4, <2>5, GoesOn
<1>6. CASE ~lex.output
  <2> DEFINE got == lex.got
             in == lex.in
             taken == got \o in
  <2>1. PICK ends \in IF in = <<>> THEN {FALSE} ELSE EndsWith(s, in[Len(in)]) :
            /\ lex' = [in |-> <<>>, got |-> taken, output |-> ends, out |-> IF ends THEN 2 ELSE 0]
            /\ io' = [io EXCEPT ![s] = IF ends THEN "CONTINUE" ELSE "READ"]
    BY <1>6 DEF Continue
  <2>2. ends \in BOOLEAN /\ (ends => in # <<>> /\ in[Len(in)].n = Pieces)
    <3>1. ASSUME in # <<>> PROVE in[Len(in)].of # Nobody
      <4>1. in \in Seq(Piece)
        BY <1>3
      <4> HIDE DEF in
      <4>2. in[Len(in)] \in Piece
        BY <3>1, <4>1
      <4> QED BY <4>2, Consts DEF Piece, Senders
    <3> HIDE DEF in
    <3> QED BY <2>1, <3>1 DEF EndsWith, Handled
  <2>3. /\ \A k \in 1 .. Len(got) : got[k] = [of |-> Sender(s), n |-> k]
        /\ \A k \in 1 .. Len(in) : in[k] = [of |-> Sender(s), n |-> Len(got) + k]
    BY <1>2 DEF InTurn
  <2>4. got \in Seq(Piece) /\ in \in Seq(Piece)
    BY <1>3
  <2>5. Count = Len(got) + Len(in)
    BY DEF Count
  <2> HIDE DEF got, in
  <2>6. Len(got) \in Nat /\ Len(in) \in Nat
    BY <2>4
  <2>7. /\ taken \in Seq(Piece) /\ Len(taken) = Len(got) + Len(in)
        /\ \A k \in 1 .. Len(got) : taken[k] = got[k]
        /\ \A k \in 1 .. Len(in) : taken[Len(got) + k] = in[k]
    BY <2>4, JoinIs
  <2> HIDE DEF taken
  <2>8. ASSUME NEW k \in 1 .. Len(taken) PROVE taken[k] = [of |-> Sender(s), n |-> k]
    <3>1. CASE k <= Len(got)
      <4>1. k \in 1 .. Len(got)
        BY <2>6, <2>7, <2>8, <3>1
      <4> QED BY <2>3, <2>7, <4>1
    <3>2. CASE k > Len(got)
      <4>1. PICK d \in 1 .. Len(in) : k = Len(got) + d
        <5>1. k - Len(got) \in 1 .. Len(in) /\ k = Len(got) + (k - Len(got))
          BY <2>6, <2>7, <2>8, <3>2
        <5> QED BY <5>1
      <4> QED BY <2>3, <2>7, <4>1
    <3> QED BY <2>6, <2>7, <3>1, <3>2
  <2>9. ends => Len(taken) = Pieces
    <3>1. ASSUME ends PROVE Len(taken) = Pieces
      <4>1. in # <<>> /\ in[Len(in)].n = Pieces
        BY <2>2, <3>1
      <4>2. Len(in) \in 1 .. Len(in)
        BY <2>4, <2>6, <4>1
      <4>3. in[Len(in)] = [of |-> Sender(s), n |-> Len(got) + Len(in)]
        BY <2>3, <4>2
      <4>4. in[Len(in)].n = Len(got) + Len(in)
        BY <4>3
      <4> QED BY <2>7, <4>1, <4>4
    <3> QED BY <3>1
  <2> DEFINE x == IF ends THEN "CONTINUE" ELSE "READ"
  <2>a. io'[s] = x
    BY <1>1, <2>1 DEF TypeOK
  <2>b. lex'.in = <<>> /\ lex'.got = taken /\ lex'.output = ends /\ lex'.out = IF ends THEN 2 ELSE 0
    BY <2>1
  <2>c. lex' \in LexType
    <3>1. <<>> \in Seq(Piece)
      OBVIOUS
    <3>2. (IF ends THEN 2 ELSE 0) \in 0 .. 2
      OBVIOUS
    <3> QED BY <2>1, <2>2, <2>7, <3>1, <3>2 DEF LexType
  <2>d. InTurn(s)'
    <3>1. \A k \in 1 .. Len(lex'.in) : lex'.in[k] = [of |-> Sender(s)', n |-> Len(lex'.got) + k]
      <4>1. Len(lex'.in) = 0
        BY <2>b
      <4> QED BY <4>1
    <3>2. \A k \in 1 .. Len(lex'.got) : lex'.got[k] = [of |-> Sender(s)', n |-> k]
      BY <1>4, <2>8, <2>b
    <3> QED BY <2>2, <2>9, <2>a, <2>b, <3>1, <3>2 DEF InTurn
  <2>e. Count' = Count
    <3>1. Len(lex'.in) = 0 /\ Len(lex'.got) = Len(taken)
      BY <2>b
    <3>2. Count' = Len(lex'.got) + Len(lex'.in)
      BY DEF Count
    <3> QED BY <2>5, <2>6, <2>7, <3>1, <3>2
  <2>f. (IF lex'.output THEN lex'.out ELSE 2) = (IF lex.output THEN lex.out ELSE 2)
    BY <1>6, <2>2, <2>b
  <2> QED BY <1>1, <2>1, <2>c, <2>d, <2>e, <2>f, GoesOn
<1> QED BY <1>3, <1>5, <1>6

\* ERROR, DONE: the command is over, and the page is told to disconnect.
LEMMA FinishInv ==
  ASSUME Inv, NEW s \in Streams, Finish(s)
  PROVE  Inv'
<1>1. /\ io[s] \in {"ERROR", "DONE"} /\ turn' \in {"client", "serial", "post", "print"} /\ TypeOK
      /\ io' = [io EXCEPT ![s] = "JSONListening"] /\ lex' = NewLexer /\ locked' = FALSE
      /\ UNCHANGED <<client, port, answer, next, post, tx, print, trap>>
  BY DEF Finish, Turn, Following, Inv, Streams, world
<1>2. Running(s) /\ InTurn(s) /\ (\A r \in Streams : r # s => ~Running(r)) /\ ~print.dma
  BY <1>1 DEF Inv, LexInv, LockInv, Running, Streams
<1>3. /\ io[s] = "DONE" /\ lex.output /\ lex.out = 0 /\ Len(lex.got) = Pieces /\ Len(lex.in) = 0
  <2>1. lex.output /\ io[s] = "DONE"
    BY <1>1, <1>2 DEF InTurn
  <2>2. lex.in = <<>> /\ lex.out = 0 /\ Len(lex.got) = Pieces
    BY <1>2, <2>1 DEF InTurn
  <2> QED BY <2>1, <2>2
<1>4. Count = Pieces
  BY <1>3, Consts DEF Count
<1>5. /\ io' \in [Streams -> {"JSONListening", "CONTINUE", "READ", "WRITE", "ERROR", "DONE"}]
      /\ \A r \in Streams : ~Running(r)' /\ (r # s => io'[r] = io[r])
  BY <1>1, <1>2 DEF TypeOK, Streams, Running
<1>6. NewLexer \in LexType
  <2>1. <<>> \in Seq(Piece)
    OBVIOUS
  <2> QED BY <2>1 DEF NewLexer, LexType
<1>7. LexInv' /\ PostRuns' /\ LockInv'
  <2>1. ~Running("serial")' /\ ~Running("post")'
    BY <1>5 DEF Streams
  <2> QED BY <1>1, <1>2, <1>5, <2>1 DEF LexInv, PostRuns, LockInv
<1>8. Len(answer["serial"]) <= 3 /\ \A k \in 1 .. Len(answer["serial"]) : answer["serial"][k] = "serial"
  BY DEF Inv, OwnInv, Senders
<1>9. CASE s = "serial"
  <2>1. slots' = slots
    BY <1>9 DEF Finish, Tells
  <2>2. ~Running("post") /\ ~Running("post")' /\ ~Running("serial")'
    BY <1>2, <1>5, <1>9 DEF Streams
  <2>3. SerialInv' /\ (PortBusy' => PortBusy)
    <3>1. port.read = Pieces /\ Len(answer["serial"]) = 2 /\ port.read <= port.sent /\ port.sent <= Pieces
      BY <1>2, <1>3, <1>4, <1>9 DEF Inv, SerialInv
    <3> QED BY <1>1, <2>2, <3>1 DEF SerialInv, PortBusy
  <2>4. TypeOK'
    BY <1>1, <1>5, <1>6, <2>1 DEF TypeOK
  <2>5. RestInv'
    BY <1>1, <2>1 DEF Inv, RestInv, Unstarted
  <2>6. ASSUME NEW j \in Slots, Talks(j)' PROVE (Broken(j) \/ Whole(j))'
    <3>1. Taken' = Taken /\ Out' = Out
      BY <2>2 DEF Taken, Out
    <3>2. io'["post"] = io["post"]
      BY <1>5, <1>9 DEF Streams
    <3> QED BY <1>1, <2>1, <2>6, <3>1, <3>2, TalkGoesOn
  <2>7. \A j \in Slots : SlotInv(j)' /\ (Holds(j)' <=> Holds(j))
    <3>1. \A j \in Slots : SlotInv(j)'
      BY <1>1, <2>1, SlotKept DEF Inv
    <3> QED BY <2>1, <3>1 DEF Holds
  <2> QED BY <1>1, <1>7, <1>8, <2>1, <2>3, <2>4, <2>5, <2>6, <2>7, StreamStep
<1>a. CASE s = "post"
  <2>1. PICK m \in Slots : Talks(m)
    BY <1>2, <1>a DEF Inv, PostRuns
  <2> DEFINE t == slots[m]
             e == [t EXCEPT !.html = "HTTPDISCONNECT"]
  <2>2. post.mutex = m /\ slots' = [slots EXCEPT ![m] = e] /\ m # NoSlot
    <3>1. post.mutex = m /\ m # NoSlot
      BY <2>1, Consts DEF Talks
    <3> QED BY <1>a, <3>1 DEF Finish, Tells
  <2>3. DOMAIN slots = Slots /\ t \in SlotType /\ Holds(m) /\ SlotInv(m)
    BY <1>1, <2>2, Fields DEF Inv, MutexInv
  <2>4. /\ t.html = "JSONLEX" /\ Used(m) /\ (Broken(m) \/ Whole(m)) /\ (Whole(m) => ~post.writing)
    BY <1>3, <1>a, <2>1, Quiet
  <2>5. /\ e \in SlotType /\ e.c = t.c /\ e.html = "HTTPDISCONNECT" /\ e.page = t.page /\ e.state = t.state
        /\ e.next = t.next /\ e.out = t.out /\ e.buf = t.buf
    BY <2>3 DEF SlotType
  <2> HIDE DEF e
  <2>6. slots'[m] = e /\ \A j \in Slots : j # m => slots'[j] = slots[j]
    BY <2>2, <2>3
  <2>7. /\ slots'[m].c = t.c /\ (Holds(m)' <=> Holds(m))
        /\ slots'[m].state = t.state /\ slots'[m].html = "HTTPDISCONNECT"
    BY <2>3, <2>4, <2>5, <2>6 DEF Holds
  <2>8. /\ Owned(m).read \in Nat /\ Owned(m).sent \in Nat /\ t.c \in Clients /\ Owned(m).kind = "json"
        /\ Owned(m).conn \in {"open", "gone"} /\ BufferInv(m) /\ HeaderInv(m) /\ BodyInv(m)
        /\ Len(t.buf) \in Nat /\ Len(Reply(m)) \in Nat
    <3>1. /\ Owned(m).read \in Nat /\ Owned(m).sent \in Nat /\ t.c \in Clients
          /\ Len(t.buf) \in Nat /\ Len(Reply(m)) \in Nat
      BY <1>1, <2>4, Fields
    <3>2. Owned(m).conn \in {"open", "gone"} /\ BufferInv(m) /\ HeaderInv(m) /\ BodyInv(m)
      BY <2>3, <2>4 DEF SlotInv
    <3> QED BY <2>4, <3>1, <3>2 DEF BodyInv, Exchange
  <2>9. SlotInv(m)'
    <3>1. BufferInv(m)' /\ Gone(m)' = Gone(m) /\ Owned(m)' = Owned(m)
      BY <1>1, <2>5, <2>6, <2>7, <2>8, BufferKept
    <3>2. HeaderInv(m)'
      BY <2>3, <2>5, <2>6, <2>8 DEF HeaderInv, HeaderAt, Exchange, Holds
    <3>3. BodyInv(m)'
      BY <2>4, <2>5, <2>6, <2>8, <3>1 DEF BodyInv, HeaderAt, Exchange
    <3> QED BY <2>4, <2>5, <2>6, <2>8, <3>1, <3>2, <3>3 DEF SlotInv, Used
  <2>a. post.avail = 0
    <3>1. CASE Broken(m)
      BY <3>1 DEF Broken
    <3>2. CASE Whole(m)
      <4>1. AllThere(m)
        BY <3>2 DEF Whole
      <4>2. Taken = Pieces
        BY <1>2, <1>4, <1>a DEF Taken
      <4>3. Owned(m).read <= 3 + Pieces
        <5>1. Len(Wire(t.c)) = 3 + Pieces
          BY <2>8, WireIs DEF Owned
        <5>2. Owned(m).read <= Owned(m).sent /\ Owned(m).sent <= Len(Wire(t.c))
          BY <2>8 DEF BufferInv
        <5> QED BY <2>8, <5>1, <5>2, Consts
      <4>4. post.avail \in Nat
        BY <1>1 DEF TypeOK, PostType
      <4>5. PICK rest \in Nat : Taken + post.avail + rest = Owned(m).read - 3
        BY <2>8, <4>1 DEF AllThere
      <4>6. Pieces \in Nat /\ Owned(m).read \in Nat
        BY <2>8, Consts
      <4> DEFINE read == Owned(m).read
                 tk == Taken
                 av == post.avail
      <4>7. tk = Pieces /\ read <= 3 + Pieces /\ av \in Nat /\ tk + av + rest = read - 3 /\ read \in Nat
        BY <4>2, <4>3, <4>4, <4>5, <4>6
      <4> HIDE DEF read, tk, av
      <4>8. av = 0
        BY <4>6, <4>7
      <4> QED BY <4>8 DEF av
    <3> QED BY <2>4, <3>1, <3>2
  <2>b. Len(Reply(m)) + One(t.state = "WRITEBUFFER") <= 3
    <3>1. One(t.state = "WRITEBUFFER") \in 0 .. 1
      BY DEF One
    <3>2. CASE Broken(m)
      <4>1. Len(Reply(m)) + One(t.state = "WRITEBUFFER") + One(t.html = "WRITEHTTP") <= 3
        BY <3>2 DEF Broken
      <4>2. One(t.html = "WRITEHTTP") \in 0 .. 1
        BY DEF One
      <4> QED BY <2>8, <3>1, <4>1, <4>2
    <3>3. CASE Whole(m)
      <4>1. AllToCome(m)
        BY <3>3 DEF Whole
      <4>2. Out = 0
        BY <1>2, <1>3, <1>a DEF Out
      <4>3. One(post.writing) = 0
        BY <2>4, <3>3 DEF One
      <4> DEFINE a == One(post.lexState = "LEXWAIT" /\ post.nextCMD = "WRITE")
                 b == One(post.first)
      <4>4. a \in 0 .. 1 /\ b \in 0 .. 1
        BY DEF One
      <4>5. Len(Reply(m)) + One(t.state = "WRITEBUFFER") + a + b + Out = 3 + One(post.writing)
        BY <4>1 DEF AllToCome
      <4> HIDE DEF a, b
      <4> QED BY <2>8, <3>1, <4>2, <4>3, <4>4, <4>5
    <3> QED BY <2>4, <3>2, <3>3
  <2>c. SerialInv' /\ (PortBusy' => PortBusy)
    <3>1. ~Running("serial") /\ ~Running("serial")'
      BY <1>2, <1>5, <1>a DEF Streams
    <3> QED BY <1>1, <3>1 DEF Inv, SerialInv, PortBusy
  <2>d. TypeOK'
    <3>1. slots' \in [0 .. NSlots - 1 -> SlotType]
      BY <1>1, <2>2, <2>5 DEF TypeOK, Slots
    <3> QED BY <1>1, <1>5, <1>6, <3>1 DEF TypeOK
  <2>e. RestInv'
    <3>1. ~Unstarted'
      BY <1>1, <2>2, <2>7 DEF Unstarted, HeaderAt
    <3> QED BY <1>1, <2>a, <3>1 DEF RestInv
  <2>f. \A j \in Slots : ~Talks(j)'
    BY <1>1, <2>2, <2>7 DEF Talks, Exchange
  <2> QED BY <1>1, <1>7, <1>8, <2>2, <2>6, <2>7, <2>9, <2>b, <2>c, <2>d, <2>e, <2>f, StreamStep
<1> QED BY <1>9, <1>a DEF Streams

\* A write of the answer is out.
LEMMA WrittenLex ==
  ASSUME Inv, NEW s \in Streams, io[s] = "WRITE", Written(s)
  PROVE  /\ lex' \in LexType /\ lex'.got = lex.got /\ lex'.in = lex.in /\ lex'.output /\ lex'.out = lex.out - 1
         /\ lex.out \in 1 .. 2 /\ lex.output /\ io'[s] = "CONTINUE" /\ \A r \in Streams : r # s => io'[r] = io[r]
         /\ io' \in [Streams -> {"JSONListening", "CONTINUE", "READ", "WRITE", "ERROR", "DONE"}]
         /\ Sender(s)' = Sender(s) => LexInv'
         /\ \A r \in Streams : Running(r)' <=> Running(r)
<1>1. TypeOK /\ lex \in LexType /\ InTurn(s) /\ lex.output /\ lex.out > 0 /\ Running(s)
  BY OwnerIs DEF Inv, TypeOK
<1>2. lex.out \in 1 .. 2 /\ lex.out - 1 \in 0 .. 2
  BY <1>1 DEF LexType
<1>3. lex' = [lex EXCEPT !.out = lex.out - 1] /\ io' = [io EXCEPT ![s] = "CONTINUE"]
  BY DEF Written
<1>4. /\ lex' \in LexType /\ lex'.got = lex.got /\ lex'.in = lex.in /\ lex'.output /\ lex'.out = lex.out - 1
      /\ lex'.output = lex.output
  BY <1>1, <1>2, <1>3 DEF LexType
<1>5. /\ io'[s] = "CONTINUE" /\ \A r \in Streams : r # s => io'[r] = io[r]
      /\ io' \in [Streams -> {"JSONListening", "CONTINUE", "READ", "WRITE", "ERROR", "DONE"}]
  BY <1>1, <1>3 DEF TypeOK
<1>6. \A r \in Streams : Running(r)' <=> Running(r)
  BY <1>5 DEF Running
<1>7. \A r \in Streams : r # s => ~Running(r)
  BY <1>1 DEF Inv, LockInv, Streams
<1>8. ASSUME Sender(s)' = Sender(s) PROVE LexInv'
  <2>1. InTurn(s)'
    BY <1>1, <1>4, <1>5, <1>8 DEF InTurn
  <2> QED BY <1>1, <1>6, <1>7, <2>1 DEF LexInv
<1> QED BY <1>1, <1>2, <1>4, <1>5, <1>6, <1>8

\* The answer on the serial port, by DMA.
LEMMA WriteSerialInv ==
  ASSUME Inv, WriteSerial
  PROVE  Inv'
<1>1. /\ io["serial"] = "WRITE" /\ turn' \in {"client", "serial", "post", "print"} /\ TypeOK /\ "serial" \in Streams
      /\ UNCHANGED <<client, slots, next, post, locked, print, trap>>
  BY DEF WriteSerial, Turn, Following, Inv, Streams, http
<1>2. /\ Running("serial") /\ ~Running("post") /\ Owner = "serial" /\ lex.output
  <2>1. Running("serial") /\ Owner = Sender("serial") /\ lex.output
    BY <1>1, OwnerIs
  <2> QED BY <2>1 DEF Inv, LockInv, Sender
<1>3. /\ port \in [sent : Nat, read : Nat, writing : BOOLEAN] /\ port.sent > 0 /\ PortBusy
      /\ port.read = Count /\ port.read > 0 /\ port.read <= port.sent /\ port.sent <= Pieces
      /\ Len(answer["serial"]) = 2 - lex.out
  <2>1. /\ port.read = Count /\ port.read > 0 /\ port.read <= port.sent /\ port.sent <= Pieces
        /\ Len(answer["serial"]) = 2 - lex.out
    BY <1>2 DEF Inv, SerialInv
  <2>2. port \in [sent : Nat, read : Nat, writing : BOOLEAN]
    BY <1>1 DEF TypeOK
  <2>3. port.sent > 0
    BY <2>1, <2>2
  <2> QED BY <1>2, <2>1, <2>2, <2>3 DEF PortBusy
<1>4. \A j \in Slots : Holds(j)' <=> Holds(j)
  BY <1>1 DEF Holds
<1>5. RestInv'
  BY <1>1 DEF Inv, RestInv, Unstarted
<1>6. /\ answer["serial"] \in Seq(Senders \cup {Nobody}) /\ "serial" \in Senders
      /\ \A k \in 1 .. Len(answer["serial"]) : answer["serial"][k] = "serial"
  BY <1>1 DEF Inv, OwnInv, Senders, TypeOK
<1>7. lex.out \in 0 .. 2
  BY <1>1 DEF TypeOK, LexType
<1>8. CASE UNCHANGED <<port, answer, io, lex, tx>>
  <2>1. TypeOK'
    BY <1>1, <1>8 DEF TypeOK
  <2> QED BY <1>1, <1>8, <2>1, Elsewhere
<1>9. CASE /\ tx' = "answer" /\ port' = [port EXCEPT !.writing = TRUE] /\ UNCHANGED <<answer, io, lex>>
  <2>1. port' \in [sent : Nat, read : Nat, writing : BOOLEAN] /\ port'.read = port.read /\ port'.sent = port.sent
    BY <1>3, <1>9
  <2>2. TypeOK'
    BY <1>1, <1>9, <2>1 DEF TypeOK
  <2>3. LexInv'
    BY <1>1, <1>9, LexKept DEF Inv
  <2>4. SerialInv' /\ LockInv' /\ PostRuns'
    BY <1>1, <1>9, <2>1 DEF Inv, SerialInv, LockInv, PostRuns, Running, Count, Talks
  <2>5. ASSUME NEW j \in Slots, Talks(j)' PROVE (Broken(j) \/ Whole(j))'
    <3>1. Taken' = Taken /\ Out' = Out /\ io'["post"] = io["post"]
      BY <1>9 DEF Taken, Out, Count, Running
    <3> QED BY <1>1, <1>9, <2>5, <3>1, TalkGoesOn
  <2>6. \A j \in Slots : SlotInv(j)'
    BY <1>1, <1>9, SlotKept DEF Inv
  <2>7. Len(answer["serial"]) <= 3
    BY <1>3, <1>7
  <2> QED BY <1>1, <1>3, <1>4, <1>5, <1>6, <1>9, <2>2, <2>3, <2>4, <2>5, <2>6, <2>7, StreamStep
<1>a. CASE /\ port' = [port EXCEPT !.writing = FALSE] /\ Written("serial")
           /\ answer' = [answer EXCEPT !["serial"] = Append(@, Owner)] /\ UNCHANGED tx
  <2>1. port' \in [sent : Nat, read : Nat, writing : BOOLEAN] /\ port'.read = port.read /\ port'.sent = port.sent
    BY <1>3, <1>a
  <2>2. Sender("serial")' = Sender("serial")
    BY DEF Sender
  <2>3. /\ lex' \in LexType /\ lex'.got = lex.got /\ lex'.in = lex.in /\ lex'.output /\ lex'.out = lex.out - 1
        /\ lex.out \in 1 .. 2 /\ io'["serial"] = "CONTINUE" /\ (\A r \in Streams : r # "serial" => io'[r] = io[r])
        /\ io' \in [Streams -> {"JSONListening", "CONTINUE", "READ", "WRITE", "ERROR", "DONE"}] /\ LexInv'
        /\ \A r \in Streams : Running(r)' <=> Running(r)
    BY <1>1, <1>a, <2>2, WrittenLex
  <2> DEFINE old == answer["serial"]
             new == Append(old, "serial")
  <2>4. /\ new \in Seq(Senders \cup {Nobody}) /\ Len(new) = Len(old) + 1
        /\ (\A k \in 1 .. Len(old) : new[k] = old[k]) /\ new[Len(old) + 1] = "serial" /\ Len(old) \in Nat
    BY <1>6
  <2>5. /\ answer' = [answer EXCEPT !["serial"] = new] /\ answer'["serial"] = new
        /\ \A c \in Clients : answer'[c] = answer[c]
    <3>1. answer' = [answer EXCEPT !["serial"] = new]
      BY <1>2, <1>a
    <3> HIDE DEF new
    <3>2. "serial" \in DOMAIN answer /\ \A c \in Clients : c # "serial"
      BY <1>1, <1>6, Consts DEF TypeOK
    <3> QED BY <3>1, <3>2
  <2>6. Len(old) = 2 - lex.out /\ (\A k \in 1 .. Len(old) : old[k] = "serial")
    BY <1>3, <1>6
  <2> HIDE DEF old, new
  <2>7. Len(new) = 2 - lex'.out /\ Len(new) <= 3 /\ \A k \in 1 .. Len(new) : new[k] = "serial"
    <3>1. Len(new) = 2 - lex'.out /\ Len(new) <= 3
      BY <2>3, <2>4, <2>6
    <3>2. ASSUME NEW k \in 1 .. Len(new) PROVE new[k] = "serial"
      <4>1. k \in 1 .. Len(old) \/ k = Len(old) + 1
        BY <2>4, <3>2
      <4> QED BY <2>4, <2>6, <4>1
    <3> QED BY <3>1, <3>2
  <2>8. answer' \in [Senders -> Seq(Senders \cup {Nobody})]
    BY <1>1, <2>4, <2>5 DEF TypeOK
  <2>9. TypeOK'
    BY <1>1, <1>a, <2>1, <2>3, <2>8 DEF TypeOK
  <2>a. SerialInv'
    <3>1. Count' = Count
      BY <2>3 DEF Count
    <3>2. Running("serial")'
      BY <1>1, <1>2, <2>3
    <3> QED BY <1>3, <2>1, <2>3, <2>5, <2>7, <3>1, <3>2 DEF SerialInv
  <2>b. LockInv' /\ PostRuns'
    <3>1. (Running("serial")' <=> Running("serial")) /\ (Running("post")' <=> Running("post"))
      BY <2>3 DEF Streams
    <3> QED BY <1>1, <1>2, <3>1 DEF Inv, LockInv, PostRuns
  <2>c. ASSUME NEW j \in Slots, Talks(j)' PROVE (Broken(j) \/ Whole(j))'
    <3>1. ~Running("post")' /\ io'["post"] = io["post"]
      BY <1>2, <2>3 DEF Streams
    <3>2. Taken' = Taken /\ Out' = Out
      BY <1>2, <3>1 DEF Taken, Out
    <3> QED BY <1>1, <2>5, <2>c, <3>1, <3>2, TalkGoesOn
  <2>d. \A j \in Slots : SlotInv(j)'
    <3>1. \A j \in Slots : SlotInv(j) /\ (Used(j) => slots[j].c \in Clients)
      BY Fields DEF Inv
    <3> QED BY <1>1, <2>5, <3>1, SlotKept
  <2> QED BY <1>1, <1>3, <1>4, <1>5, <2>3, <2>5, <2>7, <2>9, <2>a, <2>b, <2>c, <2>d, StreamStep
<1> QED BY <1>8, <1>9, <1>a DEF WriteSerial

\* The stream hands a write over to the page of the client that has the mutex.
LEMMA HandsOver ==
  ASSUME Inv, NEW m \in Slots, post.mutex = m, slots[m].html = "JSONLEX", Whole(m), Waits(m), io["post"] = "WRITE",
         post.nextState = "LEXWAIT",
         NEW e \in SlotType, slots' = [slots EXCEPT ![m] = e], e.c = slots[m].c, e.buf = slots[m].buf,
         e.page = slots[m].page, e.state = slots[m].state, e.next = slots[m].next,
         post' \in PostType, post'.mutex = m, post'.avail = post.avail, post'.lexState = post.lexState,
         post'.first = post.first,
         \/ ~post.writing /\ post.first /\ e.html = "WRITEHTTP" /\ post'.nextState = "LEXLISTEN"
              /\ post'.nextCMD = post.nextCMD /\ post'.writing = post.writing
         \/ ~post.writing /\ e.html = "JSONLEX" /\ e.out = e.c /\ post'.nextState = "LEXLISTEN"
              /\ post'.nextCMD = "WRITE" /\ post'.writing,
         UNCHANGED <<client, port, answer, next, io, lex, locked, tx, print, trap>>,
         turn' \in {"client", "serial", "post", "print"}
  PROVE  Inv'
<1> DEFINE s == slots[m]
<1>1. TypeOK /\ s \in SlotType /\ DOMAIN slots = Slots /\ Used(m) /\ s.c \in Clients /\ Talks(m) /\ Holds(m)
  <2>1. Talks(m)
    BY DEF Talks, Exchange
  <2>2. Used(m)
    BY <2>1 DEF Inv, SlotInv, Talks, EmptySlot, Exchange
  <2> QED BY <2>1, <2>2, Fields DEF Inv, MutexInv
<1>2. slots'[m] = e /\ \A j \in Slots : j # m => slots'[j] = slots[j]
  BY <1>1
<1>3. s.state = "PROCESSHTML" /\ post.lexState = "LEXWAIT" /\ post.nextCMD = "CONTINUE"
  BY DEF Waits
<1>4. e.html \in {"JSONLEX", "WRITEHTTP"}
  OBVIOUS
<1>5. Owned(m)' = Owned(m) /\ Reply(m)' = Reply(m)
  BY <1>2 DEF Owned, Reply
<1>6. SlotInv(m)'
  <2>1. Owned(m).conn \in {"open", "gone"} /\ BufferInv(m) /\ HeaderInv(m) /\ BodyInv(m)
    BY <1>1 DEF Inv, SlotInv
  <2>2. BufferInv(m)' /\ Gone(m)' = Gone(m)
    BY <1>2, <2>1, BufferKept
  <2>3. HeaderInv(m)'
    BY <1>1, <1>2, <1>3, <1>4, <2>1 DEF HeaderInv, HeaderAt, Exchange, Holds
  <2>4. BodyInv(m)'
    BY <1>2, <1>3, <1>4, <1>5, <2>1, <2>2 DEF BodyInv, HeaderAt, Exchange
  <2> QED BY <1>1, <1>2, <1>5, <2>1, <2>2, <2>3, <2>4 DEF SlotInv, Used
<1>7. (Holds(m)' <=> Holds(m)) /\ Talks(m)' /\ \A j \in Slots : Talks(j)' => j = m
  BY <1>1, <1>2, <1>3, <1>4 DEF Holds, Talks, Exchange
<1>8. TypeOK'
  <2>1. slots' \in [0 .. NSlots - 1 -> SlotType]
    BY <1>1 DEF TypeOK, Slots
  <2> QED BY <1>1, <2>1 DEF TypeOK
<1>9. RestInv'
  <2>1. ~Unstarted'
    BY <1>2, <1>4 DEF Unstarted, HeaderAt
  <2> QED BY <1>2, <1>4, <2>1 DEF RestInv
<1>a. Taken' = Taken /\ Out' = Out
  BY DEF Taken, Out, Count, Running
<1>b. Whole(m)'
  <2>1. Writes(m)'
    BY <1>2, <1>3 DEF Writes
  <2>2. AllThere(m)'
    BY <1>2, <1>3, <1>5, <1>a DEF Whole, AllThere
  <2>3. AllToCome(m)'
    <3> DEFINE rest == Len(Reply(m)) + One(s.state = "WRITEBUFFER")
               first == One(post.first)
    <3>1. rest + One(post.lexState = "LEXWAIT" /\ post.nextCMD = "WRITE") + first + Out = 3 + One(post.writing)
      BY DEF Whole, AllToCome
    <3>2. One(post.lexState = "LEXWAIT" /\ post.nextCMD = "WRITE") = 0 /\ One(post.writing) = 0
      BY <1>3 DEF One
    <3>3. \/ One(post'.lexState = "LEXWAIT" /\ post'.nextCMD = "WRITE") = 0 /\ One(post'.writing) = 0
          \/ One(post'.lexState = "LEXWAIT" /\ post'.nextCMD = "WRITE") = 1 /\ One(post'.writing) = 1
      BY <1>3 DEF One
    <3>4. Out \in Nat /\ rest \in Nat /\ first \in Nat
      <4>1. Out \in Nat
        BY <1>1 DEF Out, TypeOK, LexType
      <4>2. Len(Reply(m)) \in Nat /\ One(s.state = "WRITEBUFFER") \in 0 .. 1 /\ One(post.first) \in 0 .. 1
        BY <1>1, Fields DEF One
      <4> QED BY <4>1, <4>2
    <3>5. Len(Reply(m)') + One(slots'[m].state = "WRITEBUFFER") = rest /\ One(post'.first) = first
      BY <1>2, <1>5
    <3> HIDE DEF rest, first
    <3>6. rest + One(post'.lexState = "LEXWAIT" /\ post'.nextCMD = "WRITE") + first + Out = 3 + One(post'.writing)
      BY <3>1, <3>2, <3>3, <3>4
    <3>7. Len(Reply(m)') + One(slots'[m].state = "WRITEBUFFER")
            + One(post'.lexState = "LEXWAIT" /\ post'.nextCMD = "WRITE") + One(post'.first)
            + Out' = 3 + One(post'.writing)
      BY <1>a, <3>5, <3>6
    <3> QED BY <3>7 DEF AllToCome
  <2>4. post'.avail <= Len(slots'[m].buf)
    BY <1>2 DEF Whole
  <2>5. slots'[m].html = "WRITEHTTP" => post'.first
    BY <1>2
  <2> QED BY <2>1, <2>2, <2>3, <2>4, <2>5 DEF Whole
<1>c. LexInv'
  BY <1>2, LexKept DEF Inv
<1>d. PostRuns' /\ SerialInv' /\ LockInv' /\ PortBusy' = PortBusy
  BY <1>7 DEF Inv, PostRuns, SerialInv, LockInv, PortBusy, Running, Count
<1>e. Len(answer["serial"]) <= 3 /\ \A k \in 1 .. Len(answer["serial"]) : answer["serial"][k] = "serial"
  BY DEF Inv, OwnInv, Senders
<1> QED BY <1>2, <1>4, <1>6, <1>7, <1>8, <1>9, <1>b, <1>c, <1>d, <1>e, StreamStep

\* The answer to a POST, by the page.
LEMMA WritePostInv ==
  ASSUME Inv, WritePost
  PROVE  Inv'
<1>1. /\ io["post"] = "WRITE" /\ turn' \in {"client", "serial", "post", "print"} /\ TypeOK /\ "post" \in Streams
      /\ UNCHANGED <<client, port, answer, next, locked, tx, print, trap>>
  BY DEF WritePost, Turn, Following, Inv, Streams, world
<1>2. /\ Running("post") /\ ~Running("serial") /\ lex.output /\ Owner = Sender("post")
  <2>1. Running("post") /\ lex.output /\ Owner = Sender("post")
    BY <1>1, OwnerIs
  <2> QED BY <2>1 DEF Inv, LockInv
<1>3. PICK m \in Slots : Talks(m)
  BY <1>2 DEF Inv, PostRuns
<1> DEFINE s == slots[m]
<1>4. /\ post.mutex = m /\ post.mutex # NoSlot /\ s.html \in Exchange /\ (Broken(m) \/ Whole(m)) /\ Used(m)
      /\ s \in SlotType /\ post \in PostType /\ DOMAIN slots = Slots /\ s.c \in Clients
  <2>1. post.mutex = m /\ post.mutex # NoSlot /\ s.html \in Exchange /\ (Broken(m) \/ Whole(m))
    BY <1>3, Consts DEF Inv, TalkInv, Talks
  <2>2. Used(m)
    BY <1>3 DEF Inv, SlotInv, Talks, EmptySlot, Exchange
  <2> QED BY <1>1, <2>1, <2>2, Fields DEF TypeOK
<1>5. CASE post.nextState # "LEXWAIT"
  <2>1. UNCHANGED <<slots, post, io, lex>>
    BY <1>4, <1>5 DEF WritePost
  <2>2. TypeOK'
    BY <1>1, <2>1 DEF TypeOK
  <2> QED BY <1>1, <2>1, <2>2, Elsewhere
<1>6. CASE post.nextState = "LEXWAIT"
  <2>1. Whole(m) /\ Waits(m) /\ s.html = "JSONLEX" /\ s.state = "PROCESSHTML"
    BY <1>4, <1>6 DEF Broken, Whole, Asked, Waits, Writes
  <2>2. post.lexState = "LEXWAIT" /\ post.nextCMD = "CONTINUE"
    BY <1>6, <2>1 DEF Waits
  <2>3. CASE ~post.writing /\ post.first
    <3> DEFINE e == [s EXCEPT !.html = "WRITEHTTP"]
    <3>1. post' = [post EXCEPT !.nextState = "LEXLISTEN"] /\ slots' = [slots EXCEPT ![m] = e] /\ UNCHANGED <<io, lex>>
      BY <1>4, <1>6, <2>3 DEF WritePost
    <3>2. /\ e \in SlotType /\ e.html = "WRITEHTTP" /\ e.c = s.c /\ e.buf = s.buf /\ e.page = s.page
          /\ e.state = s.state /\ e.next = s.next
      <4>1. s \in SlotType
        BY <1>4
      <4>2. e \in SlotType
        BY <4>1, SlotChanges
      <4>3. /\ e.html = "WRITEHTTP" /\ e.c = s.c /\ e.buf = s.buf /\ e.page = s.page
            /\ e.state = s.state /\ e.next = s.next
        BY <4>1 DEF SlotType
      <4> QED BY <4>2, <4>3
    <3> HIDE DEF e
    <3>3. /\ post' \in PostType /\ post'.mutex = m /\ post'.avail = post.avail /\ post'.lexState = post.lexState
          /\ post'.first = post.first /\ post'.nextState = "LEXLISTEN" /\ post'.nextCMD = post.nextCMD
          /\ post'.writing = post.writing
      BY <1>4, <3>1 DEF PostType
    <3> QED BY <1>1, <1>4, <1>6, <2>1, <2>3, <3>1, <3>2, <3>3, HandsOver
  <2>4. CASE ~post.writing /\ ~post.first
    <3> DEFINE e == [s EXCEPT !.out = s.c]
    <3>1. Owner = s.c
      BY <1>2, <1>4 DEF Sender
    <3>2. /\ post' = [post EXCEPT !.nextState = "LEXLISTEN", !.nextCMD = "WRITE", !.writing = TRUE]
          /\ slots' = [slots EXCEPT ![m] = e] /\ UNCHANGED <<io, lex>>
      BY <1>4, <1>6, <2>4, <3>1 DEF WritePost
    <3>3. /\ e \in SlotType /\ e.html = s.html /\ e.c = s.c /\ e.buf = s.buf /\ e.page = s.page
          /\ e.state = s.state /\ e.next = s.next /\ e.out = s.c
      BY <1>4 DEF SlotType, Senders
    <3> HIDE DEF e
    <3>4. /\ post' \in PostType /\ post'.mutex = m /\ post'.avail = post.avail /\ post'.lexState = post.lexState
          /\ post'.first = post.first /\ post'.nextState = "LEXLISTEN" /\ post'.nextCMD = "WRITE" /\ post'.writing
      BY <1>4, <3>2 DEF PostType
    <3>5. e.html = "JSONLEX" /\ e.out = e.c
      BY <2>1, <3>3
    <3> QED BY <1>1, <1>4, <1>6, <2>1, <2>4, <3>2, <3>3, <3>4, <3>5, HandsOver
  <2>5. CASE post.writing
    <3>1. post' = [post EXCEPT !.writing = FALSE] /\ Written("post") /\ slots' = slots
      BY <1>4, <1>6, <2>5 DEF WritePost
    <3>2. /\ post' \in PostType /\ post'.mutex = m /\ post'.avail = post.avail /\ post'.lexState = post.lexState
          /\ post'.first = post.first /\ post'.nextState = post.nextState /\ post'.nextCMD = post.nextCMD
          /\ ~post'.writing
      BY <1>4, <3>1 DEF PostType
    <3>3. Sender("post")' = Sender("post")
      BY <1>4, <3>1, <3>2 DEF Sender
    <3>4. /\ lex' \in LexType /\ lex'.got = lex.got /\ lex'.in = lex.in /\ lex'.output /\ lex'.out = lex.out - 1
          /\ lex.out \in 1 .. 2 /\ (\A r \in Streams : r # "post" => io'[r] = io[r])
          /\ io' \in [Streams -> {"JSONListening", "CONTINUE", "READ", "WRITE", "ERROR", "DONE"}] /\ LexInv'
          /\ \A r \in Streams : Running(r)' <=> Running(r)
      BY <1>1, <3>1, <3>3, WrittenLex
    <3>5. /\ (Running("serial")' <=> Running("serial")) /\ (Running("post")' <=> Running("post"))
      BY <3>4 DEF Streams
    <3>6. Taken' = Taken /\ Out' = Out - 1 /\ Out \in 1 .. 2
      BY <1>2, <3>4, <3>5 DEF Taken, Out, Count
    <3>7. TypeOK'
      BY <1>1, <3>1, <3>2, <3>4 DEF TypeOK
    <3>8. \A j \in Slots : SlotInv(j)' /\ (Holds(j)' <=> Holds(j))
      <4>1. \A j \in Slots : SlotInv(j)'
        BY <1>1, <3>1, SlotKept DEF Inv
      <4> QED BY <3>1, <4>1 DEF Holds
    <3>9. RestInv'
      <4>1. ~Unstarted'
        BY <2>1, <3>1, <3>2 DEF Unstarted, HeaderAt
      <4> QED BY <2>1, <3>1, <3>2, <4>1 DEF RestInv
    <3>a. Whole(m)'
      <4>1. Reply(m)' = Reply(m) /\ Owned(m)' = Owned(m)
        BY <1>1, <3>1 DEF Reply, Owned
      <4>2. Waits(m)'
        BY <1>6, <2>1, <2>2, <3>1, <3>2 DEF Waits
      <4>3. AllThere(m)'
        BY <2>1, <3>1, <3>2, <3>6, <4>1 DEF Whole, AllThere
      <4>4. AllToCome(m)'
        <5> DEFINE rest == Len(Reply(m)) + One(s.state = "WRITEBUFFER")
                             + One(post.lexState = "LEXWAIT" /\ post.nextCMD = "WRITE") + One(post.first)
        <5>1. rest + Out = 3 + One(post.writing) /\ One(post.writing) = 1 /\ One(post'.writing) = 0
          BY <2>1, <2>5, <3>2 DEF Whole, AllToCome, One
        <5>2. rest = 4 - Out
          <6>1. rest \in Int
            <7>1. Len(Reply(m)) \in Nat
              BY <1>1, <1>4, Fields
            <7> QED BY <7>1 DEF One
          <6> HIDE DEF rest
          <6> QED BY <3>6, <5>1, <6>1
        <5>3. AllToCome(m)' <=> rest + Out' = 3 + One(post'.writing)
          BY <3>1, <3>2, <4>1 DEF AllToCome
        <5> HIDE DEF rest
        <5> QED BY <3>6, <5>1, <5>2, <5>3
      <4> QED BY <2>1, <3>1, <3>2, <4>2, <4>3, <4>4 DEF Whole
    <3>b. \A j \in Slots : Talks(j)' => (Broken(j) \/ Whole(j))'
      BY <1>4, <3>2, <3>a DEF Talks
    <3>c. PostRuns' /\ SerialInv' /\ LockInv' /\ PortBusy' = PortBusy
      <4>1. Talks(m)'
        BY <1>3, <1>4, <3>1, <3>2 DEF Talks
      <4> QED BY <1>1, <1>2, <3>5, <4>1 DEF Inv, PostRuns, SerialInv, LockInv, PortBusy
    <3>d. Len(answer["serial"]) <= 3 /\ \A k \in 1 .. Len(answer["serial"]) : answer["serial"][k] = "serial"
      BY DEF Inv, OwnInv, Senders
    <3> QED BY <1>1, <1>4, <2>1, <3>1, <3>2, <3>4, <3>7, <3>8, <3>9, <3>b, <3>c, <3>d, StreamStep
  <2> QED BY <2>3, <2>4, <2>5
<1> QED BY <1>5, <1>6

LEMMA PrintTaskInv ==
  ASSUME Inv, PrintTask
  PROVE  Inv'
<1> DEFINE free   == locked /\ ~print.dma
           starts == tx = "none" /\ ~free /\ print.wait > 0
<1>1. /\ turn' = "client" /\ UNCHANGED <<client, port, answer, slots, next, post, io, lex, trap>> /\ TypeOK
      /\ LockInv /\ LoneInv
  BY DEF PrintTask, Turn, Following, Inv, world, http
<1>2. print \in [wait : Nat, dma : BOOLEAN, left : Nat] /\ locked \in BOOLEAN
  BY <1>1 DEF TypeOK
<1>3. CASE tx # "none"
  <2>1. UNCHANGED <<locked, tx, print>>
    BY <1>3 DEF PrintTask
  <2>2. TypeOK'
    BY <1>1, <2>1 DEF TypeOK
  <2> QED BY <1>1, <2>1, <2>2, Elsewhere
<1>4. CASE tx = "none"
  <2>1. /\ locked' = (free \/ starts) /\ tx' = IF starts THEN "print" ELSE tx
        /\ print' = [print EXCEPT !.dma = starts, !.wait = IF starts THEN print.wait - 1 ELSE print.wait]
    BY <1>4 DEF PrintTask
  <2>2. free \in BOOLEAN /\ starts \in BOOLEAN /\ (starts => ~free /\ print.wait > 0)
    OBVIOUS
  <2>3. free <=> Running("serial") \/ Running("post")
    BY <1>1 DEF LockInv
  <2>4. (print.wait = 0 => ~starts) /\ (IF starts THEN print.wait - 1 ELSE print.wait) \in Nat
    BY <1>2, <2>2
  <2> HIDE DEF free, starts
  <2>5. /\ print' \in [wait : Nat, dma : BOOLEAN, left : Nat] /\ print'.dma = starts
        /\ (~starts => print'.wait = print.wait)
    BY <1>2, <2>1, <2>2, <2>4
  <2>6. TypeOK'
    BY <1>1, <2>1, <2>2, <2>5 DEF TypeOK
  <2>7. LockInv'
    <3>1. (Running("serial")' <=> Running("serial")) /\ (Running("post")' <=> Running("post"))
      BY <1>1 DEF Running
    <3> QED BY <1>1, <2>1, <2>2, <2>3, <2>5, <3>1 DEF LockInv
  <2>8. LoneInv'
    <3>1. print.wait = 0 => print'.wait = 0 /\ ~print'.dma
      BY <2>2, <2>4, <2>5
    <3>2. PortBusy' = PortBusy /\ \A j \in Slots : Used(j)' = Used(j) /\ Owned(j)' = Owned(j)
      BY <1>1 DEF PortBusy, Running, Used, Owned
    <3> QED BY <1>1, <3>1, <3>2 DEF LoneInv
  <2> QED BY <1>1, <2>6, <2>7, <2>8, Aside
<1> QED BY <1>3, <1>4

-----------------------------------------------------------------------------
(* What comes from outside.                                                *)

LEMMA TxDoneInv ==
  ASSUME Inv, TxDone
  PROVE  Inv'
<1>1. tx' = "none" /\ UNCHANGED <<turn, client, port, answer, slots, next, post, io, lex, locked, print, trap>>
  BY DEF TxDone
<1>2. TypeOK'
  BY <1>1 DEF Inv, TypeOK
<1> QED BY <1>1, <1>2, Elsewhere

\* Nothing begins beside a POST without a Content-Length.
LEMMA NoneLone ==
  ASSUME Inv, Handled, MayBegin, NEW j \in Slots, Used(j)
  PROVE  Owned(j).kind # "headless"
<1>1. slots[j].c \in Clients /\ DOMAIN slots = Slots
  BY Fields DEF Inv
<1>2. j \in SlotOf(slots[j].c)
  BY <1>1 DEF SlotOf
<1>3. ~Lone
  BY DEF MayBegin, Handled
<1> QED BY <1>1, <1>2, <1>3 DEF Lone, Owned

LEMMA DebugPrintInv ==
  ASSUME Inv, Handled, DebugPrint
  PROVE  Inv'
<1>1. /\ print.left > 0 /\ MayBegin /\ print' = [print EXCEPT !.left = print.left - 1, !.wait = print.wait + 1]
      /\ UNCHANGED <<turn, client, port, answer, slots, next, post, io, lex, locked, tx, trap>> /\ TypeOK
  BY DEF DebugPrint, Inv
<1>2. print \in [wait : Nat, dma : BOOLEAN, left : Nat] /\ print.left - 1 \in Nat /\ print.wait + 1 \in Nat
  <2>1. print \in [wait : Nat, dma : BOOLEAN, left : Nat]
    BY <1>1 DEF TypeOK
  <2> QED BY <1>1, <2>1
<1>3. print' \in [wait : Nat, dma : BOOLEAN, left : Nat] /\ print'.dma = print.dma
  BY <1>1, <1>2
<1>4. TypeOK'
  BY <1>1, <1>3 DEF TypeOK
<1>5. LockInv'
  BY <1>1, <1>3 DEF Inv, LockInv, Running
<1>6. LoneInv'
  <2>1. \A j \in Slots : Used(j) => Owned(j).kind # "headless"
    BY <1>1, NoneLone
  <2> QED BY <1>1, <2>1 DEF LoneInv, Used, Owned
<1> QED BY <1>1, <1>4, <1>5, <1>6, Aside

\* More comes in on the serial port.
LEMMA SendSerialInv ==
  ASSUME Inv, Handled, SendSerial
  PROVE  Inv'
<1>1. PICK n \in port.sent + 1 .. Pieces : port' = [port EXCEPT !.sent = n]
  BY DEF SendSerial
<1>2. /\ port.sent = 0 => MayBegin
      /\ UNCHANGED <<turn, client, answer, slots, next, post, io, lex, locked, tx, print, trap>> /\ TypeOK
  BY DEF SendSerial, Inv
<1>3. port \in [sent : Nat, read : Nat, writing : BOOLEAN] /\ n \in Nat /\ n > port.sent /\ n <= Pieces
      /\ port.sent < Pieces
  <2>1. port \in [sent : Nat, read : Nat, writing : BOOLEAN]
    BY <1>2 DEF TypeOK
  <2> QED BY <1>1, <2>1, Consts
<1>4. port' \in [sent : Nat, read : Nat, writing : BOOLEAN] /\ port'.read = port.read /\ port'.sent = n
  BY <1>1, <1>3
<1>5. TypeOK'
  BY <1>2, <1>4 DEF TypeOK
<1>6. SerialInv'
  <2>1. port'.read <= port'.sent
    BY <1>3, <1>4 DEF Inv, SerialInv
  <2> QED BY <1>2, <1>3, <1>4, <2>1 DEF Inv, SerialInv, Running, Count
<1>7. port.sent > 0 => PortBusy
  <2>1. CASE Running("serial")
    BY <2>1 DEF PortBusy
  <2>2. CASE ~Running("serial")
    <3>1. port.read < Pieces /\ port.read <= port.sent
      BY <1>3, Consts DEF Inv, SerialInv
    <3>2. answer["serial"] = <<>>
      BY <1>3, <2>2, <3>1, Consts DEF Inv, SerialInv
    <3> QED BY <3>2 DEF PortBusy
  <2> QED BY <2>1, <2>2
<1>8. LoneInv'
  <2>1. \A j \in Slots : Used(j) => ~(Owned(j).kind = "headless")
    <3>1. CASE port.sent = 0
      BY <1>2, <3>1, NoneLone
    <3>2. CASE port.sent > 0
      BY <1>7, <3>2 DEF Inv, LoneInv
    <3> QED BY <1>3, <3>1, <3>2
  <2> QED BY <1>2, <2>1 DEF LoneInv, Used, Owned
<1>9. LockInv' /\ PostRuns'
  BY <1>2 DEF Inv, LockInv, PostRuns, Running, Talks
<1>a. \A j \in Slots : SlotInv(j)' /\ (Talks(j)' => (Broken(j) \/ Whole(j))')
  <2>1. \A j \in Slots : SlotInv(j)'
    BY <1>2, SlotKept DEF Inv
  <2>2. ASSUME NEW j \in Slots PROVE Talks(j)' => (Broken(j) \/ Whole(j))'
    BY <1>2, TalkKept DEF Inv, TalkInv
  <2> QED BY <2>1, <2>2
<1>b. Apart' /\ NewInv' /\ MutexInv' /\ EndInv' /\ OwnInv'
  BY <1>2 DEF Inv, Apart, NewInv, MutexInv, EndInv, OwnInv, Used, Holds, Reply
<1>c. RestInv' /\ TalkInv'
  BY <1>2, <1>a DEF Inv, RestInv, TalkInv, Unstarted
<1>d. LexInv'
  BY <1>2, LexKept DEF Inv
<1> QED BY <1>5, <1>6, <1>8, <1>9, <1>a, <1>b, <1>c, <1>d DEF Inv

\* A client sends more or goes away, and its page is not in the middle of an exchange.
LEMMA ClientMoves ==
  ASSUME Inv, NEW c \in Clients, NEW d \in ClientType, client[c].conn = "open",
         client' = [client EXCEPT ![c] = d], d.kind = client[c].kind, d.read = client[c].read,
         d.conn \in {"open", "gone"}, client[c].sent <= d.sent, d.sent = client[c].sent \/ d.sent <= Len(Wire(c)),
         d.conn = "gone" => \A i \in Slots : slots[i].c = c => slots[i].html \notin Exchange,
         UNCHANGED <<turn, port, answer, slots, next, post, io, lex, locked, tx, print, trap>>
  PROVE  Inv'
<1>1. TypeOK /\ client'[c] = d /\ \A b \in Clients : b # c => client'[b] = client[b]
  BY DEF Inv, TypeOK
<1>2. TypeOK'
  BY <1>1 DEF TypeOK
<1>3. ASSUME NEW j \in Slots, Used(j)
      PROVE  /\ slots[j].c \in Clients /\ Owned(j)'.kind = Owned(j).kind /\ Owned(j)'.read = Owned(j).read
             /\ Reply(j)' = Reply(j) /\ Gone(j)' = Gone(j) /\ Wire(slots[j].c)' = Wire(slots[j].c)
  <2>1. slots[j].c \in Clients
    BY <1>1, <1>3, Fields
  <2>2. Owned(j)'.kind = Owned(j).kind /\ Owned(j)'.read = Owned(j).read /\ Reply(j)' = Reply(j)
    BY <1>1, <2>1 DEF Owned, Reply
  <2>3. Wire(slots[j].c)' = Wire(slots[j].c)
    BY <2>2, WireKept DEF Owned
  <2> QED BY <2>1, <2>2, <2>3 DEF Gone
<1>4. ASSUME NEW j \in Slots PROVE SlotInv(j)'
  <2>1. SlotInv(j)
    BY DEF Inv
  <2>2. CASE ~Used(j) \/ slots[j].c # c
    <3>1. Used(j) => client'[slots[j].c] = client[slots[j].c]
      BY <1>1, <1>3, <2>2
    <3> QED BY <2>1, <3>1, SlotKept
  <2>3. CASE Used(j) /\ slots[j].c = c
    <3>1. Owned(j) = client[c] /\ Owned(j)' = d
      BY <1>1, <2>3 DEF Owned
    <3>2. BufferInv(j) /\ HeaderInv(j) /\ BodyInv(j)
      BY <2>1, <2>3 DEF SlotInv
    <3>3. BufferInv(j)'
      <4>1. Owned(j).read \in Nat /\ Owned(j).sent \in Nat
        BY <1>1, <2>3, Fields
      <4>2. d.sent \in Nat
        BY DEF ClientType
      <4>3. /\ Owned(j).read <= Owned(j).sent /\ Owned(j).sent <= Len(Wire(c))
            /\ Len(slots[j].buf) <= Owned(j).read
            /\ \A k \in 1 .. Len(slots[j].buf) : slots[j].buf[k] = Wire(c)[Gone(j) + k]
        BY <2>3, <3>2 DEF BufferInv
      <4>4. d.read <= d.sent /\ d.sent <= Len(Wire(c)) /\ d.read = Owned(j).read
        BY <3>1, <4>1, <4>2, <4>3
      <4> QED BY <1>3, <2>3, <3>1, <4>3, <4>4 DEF BufferInv
    <3>4. HeaderInv(j)'
      BY <1>3, <2>3, <3>2 DEF HeaderInv
    <3>5. BodyInv(j)'
      BY <1>3, <2>3, <3>1, <3>2 DEF BodyInv
    <3> QED BY <2>3, <3>1, <3>3, <3>4, <3>5 DEF SlotInv, Used
  <2> QED BY <2>2, <2>3
<1>5. Apart' /\ MutexInv' /\ PostRuns' /\ LockInv' /\ OwnInv' /\ EndInv'
  BY DEF Inv, Apart, MutexInv, PostRuns, LockInv, OwnInv, EndInv, Used, Holds, Talks, Reply, Running
<1>6. SerialInv' /\ RestInv'
  BY DEF Inv, SerialInv, RestInv, Unstarted, Running, Count
<1>7. NewInv'
  BY <1>1 DEF Inv, NewInv
<1>8. TalkInv'
  <2>1. ASSUME NEW j \in Slots, Talks(j)' PROVE (Broken(j) \/ Whole(j))'
    <3>1. Talks(j) /\ (Broken(j) \/ Whole(j))
      BY <2>1 DEF Inv, TalkInv, Talks
    <3>2. Used(j)
      BY <3>1 DEF Inv, SlotInv, Talks, EmptySlot, Exchange
    <3>3. Taken' = Taken /\ Out' = Out
      BY DEF Taken, Out, Count, Running
    <3>4. Broken(j)' = Broken(j)
      BY <1>3, <3>2 DEF Broken
    <3>5. Asked(j)' = Asked(j) /\ Waits(j)' = Waits(j) /\ Writes(j)' = Writes(j)
      BY DEF Asked, Waits, Writes
    <3>6. AllThere(j)' = AllThere(j) /\ AllToCome(j)' = AllToCome(j)
      BY <1>3, <3>2, <3>3 DEF AllThere, AllToCome
    <3> QED BY <3>1, <3>4, <3>5, <3>6 DEF Whole
  <2> QED BY <2>1 DEF TalkInv
<1>9. LexInv'
  BY LexKept DEF Inv
<1>a. LoneInv'
  <2>1. PortBusy' = PortBusy /\ \A j \in Slots : Used(j)' = Used(j)
    BY DEF PortBusy, Running, Used
  <2> QED BY <1>3, <2>1 DEF Inv, LoneInv
<1> QED BY <1>2, <1>4, <1>5, <1>6, <1>7, <1>8, <1>9, <1>a DEF Inv

LEMMA SendInv ==
  ASSUME Inv, NEW c \in Clients, Send(c)
  PROVE  Inv'
<1>1. PICK n \in client[c].sent + 1 .. Len(Wire(c)) : client' = [client EXCEPT ![c].sent = n]
  BY DEF Send
<1> DEFINE d == [client[c] EXCEPT !.sent = n]
<1>2. /\ client[c].conn = "open" /\ client' = [client EXCEPT ![c] = d]
      /\ UNCHANGED <<turn, port, answer, slots, next, post, io, lex, locked, tx, print, trap>>
  BY <1>1 DEF Send
<1>3. client[c] \in ClientType
  BY DEF Inv, TypeOK
<1>4. n \in Nat /\ client[c].sent <= n /\ n <= Len(Wire(c))
  <2>1. Len(Wire(c)) \in Nat /\ client[c].sent \in Nat
    <3>1. client[c].kind \in {"json", "empty", "headless"} /\ client[c].sent \in Nat
      BY <1>3 DEF ClientType
    <3>2. Wire(c) \in Seq(Piece)
      BY <3>1, WireIs
    <3> QED BY <3>1, <3>2
  <2> QED BY <1>1, <2>1
<1>5. d \in ClientType /\ d.kind = client[c].kind /\ d.read = client[c].read /\ d.conn = "open" /\ d.sent = n
  BY <1>2, <1>3, <1>4 DEF ClientType
<1> HIDE DEF d
<1> QED BY <1>2, <1>4, <1>5, ClientMoves

LEMMA LeaveInv ==
  ASSUME Inv, Handled, NEW c \in Clients, Leave(c)
  PROVE  Inv'
<1> DEFINE d == [client[c] EXCEPT !.conn = "gone"]
<1>1. /\ client[c].conn = "open" /\ client' = [client EXCEPT ![c] = d] /\ ~InCommand(c)
      /\ UNCHANGED <<turn, port, answer, slots, next, post, io, lex, locked, tx, print, trap>>
  BY DEF Leave, MayLeave, Handled
<1>2. client[c] \in ClientType
  BY DEF Inv, TypeOK
<1>3. /\ d \in ClientType /\ d.kind = client[c].kind /\ d.read = client[c].read /\ d.conn = "gone"
      /\ d.sent = client[c].sent /\ client[c].sent <= d.sent
  BY <1>2 DEF ClientType
<1> HIDE DEF d
<1>4. ASSUME NEW i \in Slots, slots[i].c = c PROVE slots[i].html \notin Exchange
  <2>1. ~(post.mutex = i /\ slots[i].html \in Exchange)
    <3>1. i \in SlotOf(c)
      BY <1>4, Fields DEF SlotOf, Inv
    <3> QED BY <1>1, <3>1 DEF InCommand, Exchange
  <2>2. ASSUME slots[i].html \in Exchange PROVE post.mutex = i
    <3>1. Used(i) /\ BodyInv(i)
      BY <1>4, Consts DEF Used, Inv, SlotInv
    <3>2. Holds(i)
      BY <2>2, <3>1 DEF BodyInv, Holds, Exchange
    <3> QED BY <3>2 DEF Inv, MutexInv
  <2> QED BY <2>1, <2>2
<1> QED BY <1>1, <1>3, <1>4, ClientMoves

\* A connection gets a slot that nobody has.
LEMMA ConnectInv ==
  ASSUME Inv, Handled, NEW c \in Clients, NEW kind \in {"json", "empty", "headless"}, Connect(c, kind)
  PROVE  Inv'
<1>0. PICK i \in Slots : i = Nearest(Free) /\ ~Used(i)
  <2>1. DOMAIN slots = Slots /\ next \in Slots
    BY DEF Inv, TypeOK, Slots
  <2>2. Free \in SUBSET Slots /\ Free # {}
    BY <2>1 DEF Free, Connect
  <2>3. Nearest(Free) \in Free
    BY <2>1, <2>2, NearestIn
  <2> QED BY <2>1, <2>3 DEF Free, Used
<1> DEFINE e == [EmptySlot EXCEPT !.c = c]
           d1 == [client[c] EXCEPT !.conn = "open"]
           d == [d1 EXCEPT !.kind = kind]
<1>1. /\ Free # {} /\ MayBegin /\ client[c].conn = "new" /\ (kind = "headless" => ~Busy)
      /\ slots' = [slots EXCEPT ![i] = e] /\ TypeOK
      /\ UNCHANGED <<turn, port, answer, next, post, io, lex, locked, tx, print, trap>>
  BY <1>0 DEF Connect, Handled, Inv
<1>2. /\ client' = [client EXCEPT ![c].conn = "open", ![c].kind = kind]
      /\ client[c] \in ClientType /\ c \in DOMAIN client
  BY <1>1 DEF Connect, TypeOK
<1>3. d1 \in ClientType /\ d1.conn = "open" /\ d1.sent = client[c].sent /\ d1.read = client[c].read
  BY <1>2 DEF ClientType
<1>4. client' = [client EXCEPT ![c] = d]
  BY <1>2
<1> HIDE DEF d1
<1>5. d \in ClientType /\ d.conn = "open" /\ d.kind = kind /\ d.sent = 0 /\ d.read = 0
  BY <1>1, <1>3 DEF ClientType, Inv, NewInv
<1> HIDE DEF d
<1>6. client'[c] = d /\ (\A b \in Clients : b # c => client'[b] = client[b]) /\ client' \in [Clients -> ClientType]
  BY <1>1, <1>4, <1>5 DEF TypeOK
<1>7. DOMAIN slots = Slots
  BY <1>1 DEF TypeOK, Slots
<1>8. /\ e \in SlotType /\ e.c = c /\ e.state = "READINPUT" /\ e.next = "PROCESSHTML" /\ e.page = "none"
      /\ e.html = "HTTPSTART" /\ e.buf = <<>> /\ Len(e.buf) = 0
  <2>1. <<>> \in Seq(Piece) /\ Len(<<>>) = 0
    OBVIOUS
  <2> QED BY <2>1 DEF EmptySlot, SlotType
<1> HIDE DEF e
<1>9. slots'[i] = e /\ \A j \in Slots : j # i => slots'[j] = slots[j]
  BY <1>1, <1>7
<1>a. slots[i] = EmptySlot
  BY <1>0 DEF Inv, SlotInv
<1>b. \A j \in Slots : /\ Used(j) => slots[j].c \in Clients /\ slots[j].c # c
                       /\ j # i => (Used(j)' <=> Used(j))
  <2>1. ASSUME NEW j \in Slots, Used(j) PROVE slots[j].c \in Clients /\ slots[j].c # c
    <3>1. Owned(j).conn # "new"
      BY <2>1 DEF Inv, SlotInv
    <3> QED BY <1>1, <2>1, <3>1, Fields DEF Owned
  <2> QED BY <1>9, <2>1 DEF Used
<1>c. \A j \in Slots : j # i /\ Used(j) => Owned(j)' = Owned(j)
  BY <1>6, <1>9, <1>b DEF Owned
<1>d. Owned(i)' = d /\ Reply(i)' = <<>> /\ Gone(i)' = 0 /\ Used(i)'
  <2>1. Owned(i)' = d /\ Reply(i)' = answer[c] /\ Used(i)'
    BY <1>1, <1>6, <1>8, <1>9, Consts DEF Owned, Reply, Used
  <2>2. answer[c] = <<>>
    BY <1>1 DEF Inv, NewInv
  <2> QED BY <1>5, <1>8, <1>9, <2>1, <2>2 DEF Gone
<1>e. ASSUME NEW j \in Slots PROVE SlotInv(j)'
  <2>1. CASE j # i
    <3>1. SlotInv(j)
      BY DEF Inv
    <3>2. Used(j) => client'[slots[j].c] = client[slots[j].c]
      BY <1>6, <1>b
    <3> QED BY <1>1, <1>9, <2>1, <3>1, <3>2, SlotKept
  <2>2. CASE j = i
    <3>1. BufferInv(i)'
      <4>1. Len(Wire(c)') \in Nat
        <5>1. client'[c].kind \in {"json", "empty", "headless"}
          BY <1>5, <1>6
        <5>2. Wire(c)' = Wire(c)' /\ client'[c] \in ClientType
          BY <1>5, <1>6
        <5>3. DOMAIN Wire(c)' = DOMAIN (Header(kind) \o (IF kind = "empty" THEN <<>> ELSE [k \in 1 .. Pieces |-> k]))
          BY <1>5, <1>6 DEF Wire
        <5> DEFINE head == Header(kind)
                   body == IF kind = "empty" THEN <<>> ELSE [k \in 1 .. Pieces |-> k]
                   all  == head \o body
        <5>4. head \in Seq(Int) /\ body \in Seq(Int)
          BY Consts DEF Header, Url, ContentLength, Blank
        <5> HIDE DEF head, body
        <5>5. all \in Seq(Int) /\ Len(all) \in Nat /\ DOMAIN all = 1 .. Len(all)
          BY <5>4
        <5> HIDE DEF all
        <5>6. Wire(c)' = [k \in 1 .. Len(all) |-> [of |-> c, n |-> all[k]]]
          BY <1>5, <1>6, <5>5 DEF Wire, all, head, body
        <5> QED BY <5>5, <5>6
      <4> QED BY <1>5, <1>8, <1>9, <1>d, <4>1 DEF BufferInv
    <3>2. HeaderInv(i)'
      BY <1>5, <1>8, <1>9, <1>d DEF HeaderInv, HeaderAt, Exchange
    <3>3. BodyInv(i)'
      BY <1>8, <1>9 DEF BodyInv, HeaderAt, Exchange
    <3> QED BY <1>5, <1>d, <2>2, <3>1, <3>2, <3>3 DEF SlotInv
  <2> QED BY <2>1, <2>2
<1>f. TypeOK'
  <2>1. slots' \in [0 .. NSlots - 1 -> SlotType]
    BY <1>1, <1>8 DEF TypeOK
  <2> QED BY <1>1, <1>6, <2>1 DEF TypeOK
<1>g. Apart' /\ NewInv' /\ OwnInv'
  <2>1. ASSUME NEW j \in Slots, NEW l \in Slots, Used(j)', slots'[j].c = slots'[l].c PROVE j = l
    <3>1. CASE j # i /\ l # i
      <4>1. Used(j) /\ slots[j].c = slots[l].c
        BY <1>9, <1>b, <2>1, <3>1
      <4> QED BY <4>1 DEF Inv, Apart
    <3>2. CASE j = i /\ l # i
      <4>1. slots[l].c = c
        BY <1>8, <1>9, <2>1, <3>2
      <4> QED BY <1>b, <4>1, Consts DEF Used
    <3>3. CASE j # i /\ l = i
      <4>1. Used(j) /\ slots[j].c = c
        BY <1>8, <1>9, <1>b, <2>1, <3>3
      <4> QED BY <1>b, <4>1
    <3> QED BY <3>1, <3>2, <3>3
  <2>2. NewInv'
    BY <1>1, <1>5, <1>6 DEF Inv, NewInv
  <2> QED BY <1>1, <2>1, <2>2 DEF Inv, OwnInv, Apart
<1>h. /\ post.mutex # i /\ MutexInv'
      /\ \A j \in Slots : (Talks(j)' <=> Talks(j)) /\ (Talks(j) => j # i /\ Used(j))
  <2>1. ~Holds(i) /\ ~Holds(i)'
    BY <1>8, <1>9, <1>a DEF Holds, EmptySlot
  <2>2. post.mutex # i
    BY <2>1 DEF Inv, MutexInv
  <2>3. MutexInv'
    BY <1>1, <1>9, <2>1, <2>2 DEF Inv, MutexInv, Holds
  <2>4. \A j \in Slots : Talks(j) => Used(j)
    BY DEF Inv, SlotInv, Talks, EmptySlot, Exchange
  <2> QED BY <1>1, <1>9, <2>2, <2>3, <2>4 DEF Talks
<1>i. RestInv'
  <2>1. Unstarted' <=> Unstarted
    BY <1>1, <1>9, <1>h DEF Unstarted
  <2> QED BY <1>1, <1>9, <1>h, <2>1 DEF Inv, RestInv
<1>j. TalkInv'
  <2>1. ASSUME NEW j \in Slots, Talks(j)' PROVE (Broken(j) \/ Whole(j))'
    <3>1. Talks(j) /\ j # i /\ Used(j) /\ slots'[j] = slots[j]
      BY <1>9, <1>h, <2>1
    <3>2. client'[slots[j].c] = client[slots[j].c]
      BY <1>6, <1>b, <3>1
    <3>3. Talks(j) => Broken(j) \/ Whole(j)
      BY DEF Inv, TalkInv
    <3> QED BY <1>1, <2>1, <3>1, <3>2, <3>3, TalkKept
  <2> QED BY <2>1 DEF TalkInv
<1>k. LexInv'
  <2>1. Running("post") => slots'[post'.mutex].c = slots[post.mutex].c
    <3>1. ASSUME NEW j \in Slots, Talks(j) PROVE slots'[post'.mutex].c = slots[post.mutex].c
      BY <1>1, <1>9, <1>h, <3>1 DEF Talks
    <3> QED BY <3>1 DEF Inv, PostRuns
  <2> QED BY <1>1, <2>1, LexKept DEF Inv
<1>l. PostRuns' /\ SerialInv' /\ LockInv'
  BY <1>1, <1>h DEF Inv, PostRuns, SerialInv, LockInv, Running, Count
<1>m. LoneInv'
  <2>1. PortBusy' = PortBusy
    BY <1>1 DEF PortBusy, Running
  <2>2. \A j \in Slots : Used(j) => Owned(j).kind # "headless"
    BY <1>1, NoneLone
  <2>3. ASSUME kind = "headless" PROVE (\A j \in Slots : ~Used(j)) /\ ~PortBusy /\ print.wait = 0 /\ ~print.dma
    <3>1. \A j \in Slots : Used(j) => j \in SlotOf(slots[j].c)
      BY <1>7 DEF SlotOf
    <3>2. /\ \A b \in Clients : SlotOf(b) = {}
          /\ ~PortBusy /\ ~(print.wait > 0) /\ ~print.dma
      BY <1>1, <2>3 DEF Busy
    <3>3. print.wait \in Nat
      BY <1>1 DEF TypeOK
    <3> QED BY <1>b, <3>1, <3>2, <3>3
  <2>4. ASSUME NEW j \in Slots, Used(j)', Owned(j)'.kind = "headless"
        PROVE  (\A l \in Slots : Used(l)' => l = j) /\ ~PortBusy' /\ print'.wait = 0 /\ ~print'.dma
    <3>1. j = i /\ kind = "headless"
      BY <1>5, <1>b, <1>c, <1>d, <2>2, <2>4
    <3> QED BY <1>1, <1>b, <2>1, <2>3, <3>1
  <2> QED BY <2>4 DEF LoneInv
<1>n. EndInv'
  <2>1. ASSUME NEW j \in Slots, Used(j)', slots'[j].html = "HTTPDISCONNECT"
        PROVE  Len(Reply(j)') + One(slots'[j].state = "WRITEBUFFER") <= 3
    <3>1. j # i /\ Used(j) /\ slots'[j] = slots[j] /\ Reply(j)' = Reply(j)
      BY <1>1, <1>8, <1>9, <1>b, <2>1 DEF Reply
    <3> QED BY <2>1, <3>1 DEF Inv, EndInv
  <2> QED BY <2>1 DEF EndInv
<1> QED BY <1>e, <1>f, <1>g, <1>h, <1>i, <1>j, <1>k, <1>l, <1>m, <1>n DEF Inv

\* The server shuts down while no POST is under way.
LEMMA ShutdownInv ==
  ASSUME Inv, Handled, Shutdown
  PROVE  Inv'
<1>1. /\ post.mutex = NoSlot /\ slots' = [i \in DOMAIN slots |-> EmptySlot] /\ TypeOK
      /\ UNCHANGED <<turn, port, answer, next, post, io, lex, locked, tx, print, trap>>
  <2>1. /\ post.mutex = NoSlot /\ TypeOK
        /\ UNCHANGED <<turn, port, answer, next, post, io, lex, locked, tx, print, trap>>
    BY DEF Shutdown, Handled, Inv
  <2>2. slots' = [i \in DOMAIN slots |->
                   IF i = post.mutex THEN [slots[i] EXCEPT !.c = Nobody] ELSE EmptySlot]
    BY DEF Shutdown
  <2>3. DOMAIN slots = Slots /\ \A i \in Slots : i # post.mutex
    BY <2>1, Consts DEF TypeOK, Slots
  <2> QED BY <2>1, <2>2, <2>3
<1>2. client' = [c \in Clients |-> IF client[c].conn = "open" THEN [client[c] EXCEPT !.conn = "gone"] ELSE client[c]]
  BY DEF Shutdown
<1>3. DOMAIN slots = Slots /\ \A j \in Slots : slots'[j] = EmptySlot
  BY <1>1 DEF TypeOK, Slots
<1>4. EmptySlot \in SlotType
  <2>1. <<>> \in Seq(Piece)
    OBVIOUS
  <2> QED BY <2>1 DEF EmptySlot, SlotType
<1>5. ASSUME NEW c \in Clients
      PROVE  client'[c] \in ClientType /\ (client'[c].conn = "new" => client'[c] = client[c])
  <2> DEFINE d == [client[c] EXCEPT !.conn = "gone"]
  <2>1. client[c] \in ClientType
    BY <1>1 DEF TypeOK
  <2>2. d \in ClientType /\ d.conn = "gone"
    BY <2>1 DEF ClientType
  <2>3. client'[c] = IF client[c].conn = "open" THEN d ELSE client[c]
    BY <1>2
  <2> HIDE DEF d
  <2> QED BY <2>1, <2>2, <2>3
<1>6. client' \in [Clients -> ClientType]
  <2>1. DOMAIN client' = Clients
    BY <1>2
  <2>2. client' = [c \in Clients |-> client'[c]]
    BY <1>2
  <2> QED BY <1>5, <2>2
<1>7. TypeOK'
  <2>1. slots' \in [0 .. NSlots - 1 -> SlotType]
    BY <1>1, <1>3, <1>4 DEF Slots
  <2> QED BY <1>1, <1>6, <2>1 DEF TypeOK
<1>8. \A j \in Slots : ~Used(j)' /\ SlotInv(j)' /\ ~Holds(j)' /\ post.mutex # j
  BY <1>1, <1>3, Consts DEF Used, SlotInv, Holds, EmptySlot
<1>9. ~Running("post") /\ ~Running("post")' /\ (Running("serial")' <=> Running("serial"))
  BY <1>1, <1>8 DEF Inv, PostRuns, Talks, Running
<1>a. Apart' /\ MutexInv' /\ LoneInv' /\ EndInv' /\ TalkInv' /\ PostRuns'
  BY <1>1, <1>8, <1>9 DEF Apart, MutexInv, LoneInv, EndInv, TalkInv, Talks, PostRuns
<1>b. NewInv' /\ OwnInv'
  BY <1>1, <1>5 DEF Inv, NewInv, OwnInv
<1>c. RestInv'
  <2>1. Unstarted /\ post = [NewPost EXCEPT !.mutex = post.mutex]
    BY <1>1, Consts DEF Inv, RestInv, Unstarted
  <2> QED BY <1>1, <1>8, <2>1 DEF RestInv
<1>d. LexInv'
  BY <1>1, <1>9, LexKept DEF Inv
<1>e. SerialInv' /\ LockInv'
  BY <1>1, <1>9 DEF Inv, SerialInv, LockInv, Count
<1> QED BY <1>7, <1>8, <1>a, <1>b, <1>c, <1>d, <1>e DEF Inv

-----------------------------------------------------------------------------
(* The theorems.                                                           *)

LEMMA InitInv ==
  ASSUME Init
  PROVE  Inv
<1>0. <<>> \in Seq(Piece) /\ <<>> \in Seq(Senders \cup {Nobody}) /\ Len(<<>>) = 0
  OBVIOUS
<1>1. DOMAIN slots = Slots /\ \A j \in Slots : slots[j] = EmptySlot
  BY DEF Init, Slots
<1>2. EmptySlot \in SlotType /\ NewPost \in PostType /\ NewLexer \in LexType
  BY <1>0 DEF EmptySlot, SlotType, NewPost, PostType, NewLexer, LexType
<1>3. \A a \in Senders : answer[a] = <<>> /\ Len(answer[a]) = 0
  BY <1>0 DEF Init, Senders
<1>4. "serial" \in Senders /\ \A c \in Clients : c \in Senders
  BY DEF Senders
<1>5. TypeOK
  <2>1. client \in [Clients -> ClientType] /\ port \in [sent : Nat, read : Nat, writing : BOOLEAN]
    BY DEF Init, ClientType
  <2>2. answer \in [Senders -> Seq(Senders \cup {Nobody})]
    BY <1>0 DEF Init, Senders
  <2>3. slots \in [0 .. NSlots - 1 -> SlotType] /\ next \in 0 .. NSlots - 1
    BY <1>2, Consts DEF Init
  <2>4. io \in [Streams -> {"JSONListening", "CONTINUE", "READ", "WRITE", "ERROR", "DONE"}]
    BY DEF Init
  <2>5. print \in [wait : Nat, dma : BOOLEAN, left : Nat]
    BY JsonStreamsAssumption DEF Init
  <2> QED BY <1>2, <2>1, <2>2, <2>3, <2>4, <2>5 DEF Init, TypeOK
<1>6. \A j \in Slots : ~Used(j) /\ SlotInv(j) /\ ~Holds(j) /\ post.mutex # j /\ ~Talks(j)
  BY <1>1, Consts DEF Init, NewPost, Used, SlotInv, Holds, EmptySlot, Talks
<1>7. ~Running("serial") /\ ~Running("post") /\ \A s \in Streams : ~Running(s)
  BY DEF Init, Running, Streams
<1>8. Apart /\ MutexInv /\ LoneInv /\ EndInv /\ TalkInv /\ PostRuns /\ LexInv /\ LockInv
  BY <1>6, <1>7 DEF Init, Apart, MutexInv, LoneInv, EndInv, TalkInv, PostRuns, LexInv, LockInv
<1>9. NewInv /\ OwnInv
  BY <1>3, <1>4 DEF Init, NewInv, OwnInv
<1>a. RestInv
  <2>1. post = [NewPost EXCEPT !.mutex = post.mutex]
    BY DEF Init, NewPost
  <2> QED BY <1>6, <2>1 DEF RestInv
<1>b. SerialInv
  BY <1>3, <1>4, <1>7, Consts DEF Init, SerialInv
<1> QED BY <1>5, <1>6, <1>8, <1>9, <1>a, <1>b DEF Inv

\* A client that is served: one step of ProcessClient.
LEMMA ClientInv ==
  ASSUME Inv, Handled, NEW i, ProcessClient(i)
  PROVE  Inv'
BY StopClientInv, ReadInputInv, TimeOutInv, ParseNextLineInv, WriteBufferInv, HttpStartInv, ContLenInv, EndHdrInv,
   JsonLexInv, WriteHttpInv, WriteJsonInv, FileNotFoundInv, DisconnectInv, Zenon DEF ProcessClient

\* A stream that is served: one step of ProcessJSON.
LEMMA JsonInv ==
  ASSUME Inv, Handled, NEW s \in Streams, ProcessJSON(s)
  PROVE  Inv'
BY ListenInv, ContinueInv, ReadMoreInv, FinishInv, Zenon DEF ProcessJSON

LEMMA NextInv ==
  ASSUME Inv, Handled, [Next]_vars
  PROVE  Inv'
<1>1. CASE UNCHANGED vars
  <2>1. UNCHANGED <<turn, client, port, answer, slots, next, post, io, lex, locked, tx, print, trap>>
    BY <1>1 DEF vars
  <2>2. TypeOK'
    BY <2>1 DEF Inv, TypeOK
  <2> QED BY <2>1, <2>2, Elsewhere
<1>2. CASE Loop
  BY <1>2, NoClientInv, ClientInv, JsonInv, WriteSerialInv, WritePostInv, PrintTaskInv, Zenon DEF Loop
<1>3. CASE Outside
  <2>1. ASSUME NEW c \in Clients, Send(c) PROVE Inv'
    BY <2>1, SendInv
  <2>2. ASSUME NEW c \in Clients, Leave(c) PROVE Inv'
    BY <2>2, LeaveInv
  <2>3. ASSUME NEW c \in Clients, NEW kind \in {"json", "empty", "headless"}, Connect(c, kind) PROVE Inv'
    BY <2>3, ConnectInv
  <2> QED BY <1>3, <2>1, <2>2, <2>3, SendSerialInv, TxDoneInv, DebugPrintInv, ShutdownInv, Zenon DEF Outside
<1> QED BY <1>1, <1>2, <1>3 DEF Next

LEMMA AlwaysInv ==
  ASSUME Handled
  PROVE  Spec => []Inv
<1>1. Init => Inv
  BY InitInv
<1>2. Inv /\ [Next]_vars => Inv'
  BY NextInv
<1> QED BY <1>1, <1>2, PTL DEF Spec

LEMMA OneUserHolds ==
  ASSUME Inv
  PROVE  OneUser
<1>1. /\ locked <=> Running("serial") \/ Running("post") \/ print.dma
      /\ ~(Running("serial") /\ Running("post")) /\ (print.dma => ~Running("serial") /\ ~Running("post"))
  BY DEF Inv, LockInv
<1>2. Cardinality({}) = 0 /\ \A x : Cardinality({x}) = 1
  BY FS_EmptySet, FS_Singleton
<1>a. ASSUME NEW x, Users = {x}, locked PROVE OneUser
  <2>1. Cardinality(Users) = 1 /\ Users # {}
    BY <1>2, <1>a
  <2> QED BY <1>a, <2>1 DEF OneUser
<1>3. CASE Running("serial")
  <2>1. Users = {"serial"}
    BY <1>1, <1>3 DEF Users, Streams
  <2> QED BY <1>1, <1>3, <1>a, <2>1
<1>4. CASE Running("post")
  <2>1. Users = {"post"}
    BY <1>1, <1>4 DEF Users, Streams
  <2> QED BY <1>1, <1>4, <1>a, <2>1
<1>5. CASE print.dma
  <2>1. Users = {"print"}
    BY <1>1, <1>5 DEF Users, Streams
  <2> QED BY <1>1, <1>5, <1>a, <2>1
<1>6. CASE ~Running("serial") /\ ~Running("post") /\ ~print.dma
  <2>1. Users = {}
    BY <1>6 DEF Users, Streams
  <2> QED BY <1>1, <1>2, <1>6, <2>1 DEF OneUser
<1> QED BY <1>3, <1>4, <1>5, <1>6

LEMMA WholeHolds ==
  ASSUME Inv
  PROVE  WholeCommands
<1> DEFINE got == lex.got
           in == lex.in
           taken == got \o in
<1>1. got \in Seq(Piece) /\ in \in Seq(Piece)
  BY DEF Inv, TypeOK, LexType
<1>2. CASE \A s \in Streams : ~Running(s)
  <2>1. got = <<>> /\ in = <<>>
    BY <1>2 DEF Inv, LexInv, NewLexer
  <2>2. taken = <<>> /\ DOMAIN taken = {}
    BY <2>1
  <2> QED BY <2>2 DEF WholeCommands
<1>3. CASE \E s \in Streams : Running(s)
  <2>1. PICK s \in Streams : InTurn(s)
    BY <1>3 DEF Inv, LexInv
  <2>2. /\ \A k \in 1 .. Len(got) : got[k] = [of |-> Sender(s), n |-> k]
        /\ \A k \in 1 .. Len(in) : in[k] = [of |-> Sender(s), n |-> Len(got) + k]
    BY <2>1 DEF InTurn
  <2>3. WholeCommands <=> \A k \in DOMAIN taken : taken[k] = [of |-> taken[1].of, n |-> k]
    BY DEF WholeCommands
  <2> HIDE DEF got, in
  <2>4. /\ taken \in Seq(Piece) /\ Len(taken) = Len(got) + Len(in)
        /\ \A k \in 1 .. Len(got) : taken[k] = got[k]
        /\ \A k \in 1 .. Len(in) : taken[Len(got) + k] = in[k]
    BY <1>1, JoinIs
  <2>5. Len(got) \in Nat /\ Len(in) \in Nat
    BY <1>1
  <2> HIDE DEF taken
  <2>6. ASSUME NEW k \in 1 .. Len(taken) PROVE taken[k] = [of |-> Sender(s), n |-> k]
    <3>1. CASE k <= Len(got)
      <4>1. k \in 1 .. Len(got)
        BY <2>4, <2>5, <2>6, <3>1
      <4> QED BY <2>2, <2>4, <4>1
    <3>2. CASE k > Len(got)
      <4>1. PICK d \in 1 .. Len(in) : k = Len(got) + d
        <5>1. k - Len(got) \in 1 .. Len(in) /\ k = Len(got) + (k - Len(got))
          BY <2>4, <2>5, <2>6, <3>2
        <5> QED BY <5>1
      <4> QED BY <2>2, <2>4, <4>1
    <3> QED BY <2>4, <2>5, <3>1, <3>2
  <2>7. ASSUME NEW k \in DOMAIN taken PROVE taken[k] = [of |-> taken[1].of, n |-> k]
    <3>1. k \in 1 .. Len(taken) /\ 1 \in 1 .. Len(taken)
      BY <2>4, <2>7
    <3>2. taken[1] = [of |-> Sender(s), n |-> 1]
      BY <2>6, <3>1
    <3>3. taken[1].of = Sender(s)
      BY <3>2
    <3> QED BY <2>6, <3>1, <3>3
  <2> QED BY <2>3, <2>7
<1> QED BY <1>2, <1>3

LEMMA HomeHolds ==
  ASSUME Inv
  PROVE  AnswersGoHome
<1>1. \A a \in Senders : DOMAIN answer[a] = 1 .. Len(answer[a])
  BY DEF Inv, TypeOK
<1>2. "serial" \in Senders /\ \A c \in Clients : c \in Senders
  BY DEF Senders
<1>3. Len(answer["serial"]) <= 2
  <2>1. CASE Running("serial")
    <3>1. lex.output => Len(answer["serial"]) = 2 - lex.out
      BY <2>1 DEF Inv, SerialInv
    <3>2. ~lex.output => Len(answer["serial"]) = 0
      BY <2>1 DEF Inv, SerialInv
    <3>3. lex.out \in 0 .. 2
      BY DEF Inv, TypeOK, LexType
    <3> QED BY <3>1, <3>2, <3>3
  <2>2. CASE ~Running("serial")
    <3>1. CASE answer["serial"] = <<>>
      <4>1. Len(answer["serial"]) = 0
        BY <3>1
      <4> QED BY <4>1
    <3>2. CASE Len(answer["serial"]) = 2
      BY <3>2
    <3> QED BY <2>2, <3>1, <3>2 DEF Inv, SerialInv
  <2> QED BY <2>1, <2>2
<1> QED BY <1>1, <1>2, <1>3 DEF Inv, OwnInv, AnswersGoHome

\* Types: the variables of the streams, the pages and the lexer keep the shapes
\* their declarations in LexJSON.h and HTTPServer.h give them.
THEOREM TypeCorrect ==
  ASSUME Handled
  PROVE  Spec => []TypeOK
<1>1. Inv => TypeOK
  BY DEF Inv
<1> QED BY <1>1, AlwaysInv, PTL

\* One command at a time: however the serial port, the clients, their pages and
\* the debug prints take turns, oslex has at most one user, fLocked is held for
\* just as long as there is one, and what the lexer takes is one sender's command
\* from its start and without a gap (ProcessJSON and HTMLPostCmd.cpp:86).
THEOREM OneAtATime ==
  ASSUME Handled
  PROVE  Spec => []OneCommand
<1>1. Inv => OneCommand
  BY OneUserHolds, WholeHolds DEF OneCommand
<1> QED BY <1>1, AlwaysInv, PTL

\* Every write of an answer goes to the sender of the command it answers: a client
\* never sees a part of another's answer or of the serial port's, nor more than
\* the header and the two writes of its own (JSONPost::Write, JSONSerial::Write).
THEOREM AnswersAreOwn ==
  ASSUME Handled
  PROVE  Spec => []AnswersGoHome
<1>1. Inv => AnswersGoHome
  BY HomeHolds
<1> QED BY <1>1, AlwaysInv, PTL

=============================================================================
