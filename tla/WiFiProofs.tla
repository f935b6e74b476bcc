----------------------------- MODULE WiFiProofs -----------------------------
(***************************************************************************)
(* WiFi, for any networks, parameters and bounds: what is said of a        *)
(* network in the active set and in the files is true (SetsTrue), and a    *)
(* command that answers without an error did what it was told              *)
(* (DoneAsTold).                                                           *)
(***************************************************************************)
EXTENDS WiFi, SequenceTheorems, TLAPS

-----------------------------------------------------------------------------
(* The inductive invariant.                                                *)

Networks  == Nets \cup {None}
Types     == {"open", "phrase", "key"}
SetNames  == {"active", "working"}
ParamSets == [ssid : Networks, type : Types, key : Networks, auto : BOOLEAN,
              phrase : {"none", "right", "wrong"}, sure : BOOLEAN]
Contents  == [type : Types, key : Networks, auto : BOOLEAN, sure : BOOLEAN]
TaskSet   == [do : {"connect", "disconnect", "scan"}, set : SetNames]
Links     == [up : BOOLEAN, at : Networks, opens : BOOLEAN, busy : {"no", "connect", "disconnect", "scan"},
              err : {"none", "refused", "assoc"}, scan : BOOLEAN,
              wf : {"idle", "connected", "scanning", "scanReady"}, adp : BOOLEAN, begun : BOOLEAN]
Cmds      == [op : {"save", "load", "delete"},
              at : {"FILEexist", "FILEdelete", "FILEopen", "FILEread", "FILEwrite", "FILEclose", "Done"},
              net : Nets, name : Names, first : BOOLEAN, deleted : BOOLEAN, st : {"ok", "error"},
              same : BOOLEAN]
Steps     == {"Idle", "WIFICalPSK", "WIFIConnect", "WIFIConnectLinked", "WIFIConnectSetupHTTP",
              "WIFIDisconnect"}

RadioTypes ==
  /\ link \in Links
  /\ http \in {"Idle", "Done", "HTTPEnabled"}
  /\ sets \in [SetNames -> ParamSets]
  /\ tasks \in Seq(TaskSet)
  /\ con \in Steps
  /\ alone \in BOOLEAN /\ careless \in BOOLEAN

ClientTypes ==
  /\ cmd = NoCmd \/ cmd \in Cmds
  /\ files \in [Names -> {Absent, Empty} \cup Contents]

\* The IP stack is begun on a connection only, and no other is tried with it; without
\* the adaptor there is no link, and none will come up.
LinkOK(l) ==
  /\ l.begun => l.wf = "connected"
  /\ l.wf = "connected" => l.busy \notin {"connect", "scan"}
  /\ ~l.adp => ~l.up /\ l.busy # "connect"
  /\ l.up => l.busy # "connect"

\* The server begins the stack on a connection, its own or that of the task that enabled it.
ServerBegins ==
  /\ http = "HTTPEnabled" /\ srv = "DYNAMICIPBEGIN" => link.wf = "connected"
  /\ con \in {"WIFIConnectLinked", "WIFIConnectSetupHTTP"} /\ http # "HTTPEnabled" => link.wf = "connected"

\* WiFiConnect is in progress for the task at the head only, and a set that is to be
\* connected names a network.
InTurn ==
  /\ con # "Idle" => tasks # <<>> /\ Head(tasks).do = "connect"
  /\ con # "Idle" <=> lastErr = "Working"
  /\ \A w \in SetNames : BeingConnected(w) => sets[w].ssid # None

\* A connection that was begun alone, with a set the client left in peace, is to the
\* network of the set, which takes its parameters.
ItsOwn ==
  alone /\ con # "Idle" =>
    /\ http # "HTTPEnabled"
    /\ ~careless =>
         /\ con = "WIFICalPSK" => ~link.up /\ ~Busy(link)
         /\ con = "WIFIConnect" =>
              /\ link.busy = "connect" => link.at = Wifi.ssid /\ (link.opens => Opens(Wifi))
              /\ link.up => link.at = Wifi.ssid /\ Opens(Wifi)
         /\ con \in {"WIFIConnectLinked", "WIFIConnectSetupHTTP"} => link.at = Wifi.ssid /\ Opens(Wifi)

\* The passphrases: one that is not needed any more is not kept.
Phrases ==
  /\ ~careless => \A w \in SetNames : sets[w].type # "phrase" => sets[w].phrase = "none"
  /\ con = "WIFICalPSK" /\ Which = "active" => sets.active.type = "phrase"

\* ActiveTrue, with what a save relies on, and whether or not there is a link.
ActiveSure ==
  sets.active.sure =>
    /\ sets.active.phrase = "none" /\ Opens(sets.active)
    /\ lastErr = "Running" => link.at = sets.active.ssid

RadioInv == RadioTypes /\ LinkOK(link) /\ ServerBegins /\ InTurn /\ ItsOwn /\ Phrases /\ ActiveSure

\* Which steps a command takes: a load opens and reads a file that is there, and a save
\* that nothing came in the way of writes the file of the active set.
Stages ==
  cmd # NoCmd =>
    /\ cmd.at = "FILEread" => cmd.op = "load"
    /\ cmd.at = "FILEwrite" => cmd.op = "save"
    /\ cmd.at \in {"FILEopen", "FILEclose"} => cmd.op # "delete"
    /\ cmd.at = "FILEdelete" => cmd.op # "load"
    /\ cmd.op = "load" /\ cmd.at \in {"FILEopen", "FILEread"} => There
    /\ cmd.op = "save" =>
         /\ sets.active.ssid # None
         /\ cmd.at \in {"FILEopen", "FILEwrite"} /\ cmd.same => cmd.name = OwnName(sets.active)

\* How far a command that nothing came in the way of has brought the files.
SaveDone ==
  /\ cmd.at \in {"FILEexist", "FILEdelete"} => cmd.name = OtherName(sets.active)
  /\ cmd.at \in {"FILEopen", "FILEwrite", "FILEclose", "Done"} => files[OtherName(sets.active)] = Absent
  /\ cmd.at \in {"FILEclose", "Done"} => files[OwnName(sets.active)] = Saved(sets.active)

LoadName == cmd.name = <<cmd.net, TRUE \in Held(cmd.net)>>
LoadDone ==
  /\ cmd.at = "FILEexist" => \/ cmd.first /\ cmd.name = <<cmd.net, TRUE>>
                             \/ ~cmd.first /\ cmd.name = <<cmd.net, FALSE>> /\ files[<<cmd.net, TRUE>>] = Absent
  /\ cmd.at \in {"FILEopen", "FILEread"} => LoadName
  /\ cmd.at \in {"FILEclose", "Done"} => DidLoad

DeleteDone ==
  /\ cmd.at \in {"FILEexist", "FILEdelete"} =>
       \/ cmd.first /\ cmd.name = <<cmd.net, TRUE>>
       \/ cmd.name = <<cmd.net, FALSE>> /\ files[<<cmd.net, TRUE>>] = Absent
  /\ cmd.at = "Done" => \A a \in BOOLEAN : files[<<cmd.net, a>>] = Absent

Progress ==
  cmd # NoCmd /\ cmd.st = "ok" /\ cmd.same =>
    /\ cmd.op = "save" => SaveDone
    /\ cmd.op = "load" => LoadDone
    /\ cmd.op = "delete" => DeleteDone

FilesInv == ClientTypes /\ Stages /\ FilesTrue /\ Progress

-----------------------------------------------------------------------------
(* The calls of the radio.                                                 *)

LEMMA AdaptorOK ==
  ASSUME NEW l \in Links, LinkOK(l)
  PROVE  LET a == [l EXCEPT !.adp = TRUE] IN
         /\ a \in Links /\ LinkOK(a)
         /\ a.up = l.up /\ a.at = l.at /\ a.opens = l.opens /\ a.busy = l.busy /\ a.wf = l.wf
         /\ a.begun = l.begun /\ a.adp /\ a.err = l.err /\ a.scan = l.scan
  BY DEF Links, LinkOK

\* What a call of the adaptor's Connect may come to.
LEMMA ConnectOK ==
  ASSUME NEW l \in Links, LinkOK(l), l.wf # "connected", l.adp,
         NEW ssid \in Networks, NEW opens \in BOOLEAN, NEW taken \in BOOLEAN,
         NEW r, r = Connect(l, ssid, opens, taken)
  PROVE  /\ r.link \in Links /\ LinkOK(r.link) /\ r.link.wf = l.wf /\ r.link.begun = l.begun
         /\ r.st \in {"ok", "error", "pending"}
         /\ r.st = "ok" => r.link.up /\ ~Busy(r.link)
         /\ r.link.up => l.up /\ r.link.at = l.at
         /\ r.link.busy = "connect" => \/ l.busy = "connect" /\ r.link.at = l.at /\ r.link.opens = l.opens
                                       \/ r.link.at = ssid /\ r.link.opens = opens
         /\ r.link.at \in {l.at, ssid}
  <1> USE DEF Links, LinkOK, Busy, Result
  <1>1. CASE ~Busy(l) /\ l.err # "none"
    BY <1>1 DEF Connect
  <1>2. CASE ~Busy(l) /\ l.err = "none" /\ ~l.up /\ taken
    BY <1>2 DEF Connect
  <1>3. CASE ~Busy(l) /\ l.err = "none" /\ ~l.up /\ ~taken
    BY <1>3 DEF Connect
  <1>4. CASE ~Busy(l) /\ l.err = "none" /\ l.up
    BY <1>4 DEF Connect, LinkStatus, IsLinked
  <1>5. CASE Busy(l)
    BY <1>5 DEF Connect, LinkStatus, IsLinked
  <1> QED BY <1>1, <1>2, <1>3, <1>4, <1>5

\* WfConnect: it is connected after it without an error only if the link is up, an
\* established connection stays, and what is being tried is what was asked for.
Tries(l, k, ssid, opens) ==
  /\ k \in Links /\ LinkOK(k) /\ k.begun = l.begun
  /\ l.wf = "connected" => k.wf = "connected"
  /\ k.up => l.up /\ k.at = l.at
  /\ k.busy = "connect" => \/ l.busy = "connect" /\ k.at = l.at /\ k.opens = l.opens
                           \/ k.at = ssid /\ k.opens = opens
  /\ k.at \in {l.at, ssid}

LEMMA WfConnectOK ==
  ASSUME NEW l \in Links, LinkOK(l), NEW ssid \in Networks, NEW opens \in BOOLEAN, NEW taken \in BOOLEAN,
         NEW r, r = WfConnect(l, ssid, opens, taken)
  PROVE  /\ Tries(l, r.link, ssid, opens)
         /\ r.st \in {"ok", "error", "pending"}
         /\ r.st # "error" /\ Connected(r) => r.link.up
  <1> DEFINE a == [l EXCEPT !.adp = TRUE]
  <1>1. /\ a \in Links /\ LinkOK(a) /\ a.adp
        /\ a.up = l.up /\ a.at = l.at /\ a.opens = l.opens /\ a.busy = l.busy /\ a.wf = l.wf /\ a.begun = l.begun
    BY AdaptorOK
  <1>2. CASE l.wf \in {"connected", "scanning"}
    <2>1. r.link = a /\ r.st = "error"
      BY <1>2 DEF WfConnect, Result
    <2> QED BY <1>1, <2>1 DEF Tries
  <1>3. CASE l.wf \notin {"connected", "scanning"}
    <2>1. PICK q : q = Connect(a, ssid, opens, taken)
      OBVIOUS
    <2>2. /\ q.link \in Links /\ LinkOK(q.link) /\ q.link.wf = l.wf /\ q.link.begun = l.begun
          /\ q.st \in {"ok", "error", "pending"}
          /\ q.st = "ok" => q.link.up /\ ~Busy(q.link)
          /\ q.link.up => l.up /\ q.link.at = l.at
          /\ q.link.busy = "connect" => \/ l.busy = "connect" /\ q.link.at = l.at /\ q.link.opens = l.opens
                                        \/ q.link.at = ssid /\ q.link.opens = opens
          /\ q.link.at \in {l.at, ssid}
      <3> HIDE DEF a
      <3> QED BY <1>1, <1>3, <2>1, ConnectOK
    <2>3. PICK w : w = (CASE q.st = "ok" -> "connected" [] q.st = "error" -> "idle" [] q.st = "pending" -> q.link.wf)
      OBVIOUS
    <2>4. r.link = [q.link EXCEPT !.wf = w] /\ r.st = q.st
      BY <1>3, <2>1, <2>3 DEF WfConnect, Result
    <2>5. /\ w \in {"idle", "connected", "scanning", "scanReady"}
          /\ w = "connected" => q.st = "ok"
          /\ l.begun => FALSE
      BY <1>1, <1>3, <2>2, <2>3 DEF Links, LinkOK
    <2> QED BY <1>3, <2>2, <2>4, <2>5 DEF Tries, Links, LinkOK, Connected, Busy
  <1> QED BY <1>2, <1>3

LEMMA WfDisconnectOK ==
  ASSUME NEW l \in Links, LinkOK(l), NEW r, r = WfDisconnect(l)
  PROVE  /\ r.link \in Links /\ r.st \in {"ok", "pending"}
         /\ r.st # "ok" => LinkOK(r.link) /\ r.link.wf = l.wf
         /\ r.st = "ok" => IPEnd(r.link) \in Links /\ LinkOK(IPEnd(r.link)) /\ IPEnd(r.link).at = l.at
         /\ r.link.at = l.at
  <1> USE DEF Links, LinkOK, Busy, Result, IPEnd
  <1>1. CASE ~l.up
    BY <1>1 DEF WfDisconnect
  <1>2. CASE l.up /\ Busy(l)
    BY <1>2 DEF WfDisconnect
  <1>3. CASE l.up /\ ~Busy(l)
    BY <1>3 DEF WfDisconnect
  <1> QED BY <1>1, <1>2, <1>3

LEMMA WfScanOK ==
  ASSUME NEW l \in Links, LinkOK(l), NEW taken \in BOOLEAN, NEW r, r = WfScan(l, taken)
  PROVE  /\ r.link \in Links /\ LinkOK(r.link) /\ r.link.at = l.at
         /\ l.wf = "connected" => r.link.wf = "connected"
  <1> DEFINE a == [l EXCEPT !.adp = TRUE]
  <1>1. /\ a \in Links /\ LinkOK(a)
        /\ a.up = l.up /\ a.at = l.at /\ a.wf = l.wf /\ a.begun = l.begun
    BY AdaptorOK
  <1>2. CASE l.wf = "connected"
    <2>1. r.link = a
      BY <1>2 DEF WfScan, Result
    <2> QED BY <1>1, <1>2, <2>1
  <1>3. CASE l.wf # "connected"
    <2>1. PICK q : q = StartScan(a, taken)
      OBVIOUS
    <2>2. /\ q.link \in Links /\ LinkOK(q.link) /\ q.link.at = l.at /\ q.link.wf # "connected" /\ ~q.link.begun
          /\ q.st \in {"ok", "error", "pending"}
      <3> HIDE DEF a
      <3> USE DEF Links, LinkOK, Busy, Result
      <3>1. CASE a.scan /\ Busy(a)
        BY <1>1, <1>3, <2>1, <3>1 DEF StartScan
      <3>2. CASE a.scan /\ ~Busy(a)
        BY <1>1, <1>3, <2>1, <3>2 DEF StartScan
      <3>3. CASE ~a.scan /\ (a.up \/ Busy(a) \/ ~taken)
        BY <1>1, <1>3, <2>1, <3>3 DEF StartScan
      <3>4. CASE ~a.scan /\ ~a.up /\ ~Busy(a) /\ taken
        BY <1>1, <1>3, <2>1, <3>4 DEF StartScan
      <3> QED BY <3>1, <3>2, <3>3, <3>4
    <2>3. PICK w : w = (CASE q.st = "ok" -> "scanReady" [] q.st = "error" -> "idle" [] q.st = "pending" -> "scanning")
      OBVIOUS
    <2>4. r.link = [q.link EXCEPT !.wf = w]
      BY <1>3, <2>1, <2>3 DEF WfScan, Result
    <2>5. w \in {"idle", "scanning", "scanReady"}
      BY <2>2, <2>3
    <2> QED BY <1>3, <2>2, <2>4, <2>5 DEF Links, LinkOK
  <1> QED BY <1>2, <1>3

LEMMA IPBeginOK ==
  ASSUME NEW l \in Links, LinkOK(l), l.wf = "connected"
  PROVE  IPBegin(l) \in Links /\ LinkOK(IPBegin(l)) /\ IPBegin(l).at = l.at /\ IPBegin(l).wf = "connected"
  BY DEF IPBegin, Links, LinkOK

\* What the chip may come to by itself: a link comes up only when it was being tried with
\* parameters the network takes.
LEMMA ChipOK ==
  ASSUME NEW l \in Links, LinkOK(l), NEW k, k \in Answers(l) \cup {l, Dropped(l)}
  PROVE  /\ k \in Links /\ LinkOK(k) /\ k.wf = l.wf /\ k.at = l.at
         /\ k.up => l.up \/ (l.busy = "connect" /\ l.opens)
         /\ Busy(k) => k.busy = l.busy /\ k.opens = l.opens
  <1> USE DEF Links, LinkOK, Busy
  <1>1. CASE k = l
    BY <1>1
  <1>2. CASE k = Dropped(l)
    BY <1>2 DEF Dropped
  <1>3. CASE k \in Answers(l)
    <2>1. CASE l.busy = "connect"
      <3> DEFINE free == [l EXCEPT !.busy = "no", !.opens = FALSE]
      <3>1. \/ \E e \in {"refused", "assoc"} : k = [free EXCEPT !.err = e]
            \/ l.opens /\ k = [free EXCEPT !.up = TRUE]
        BY <1>3, <2>1, Zenon DEF Answers
      <3>2. CASE \E e \in {"refused", "assoc"} : k = [free EXCEPT !.err = e]
        BY <3>2
      <3>3. CASE l.opens /\ k = [free EXCEPT !.up = TRUE]
        BY <2>1, <3>3
      <3> QED BY <3>1, <3>2, <3>3
    <2>2. CASE l.busy = "disconnect"
      <3>1. k = [[l EXCEPT !.busy = "no", !.opens = FALSE] EXCEPT !.up = FALSE]
        BY <1>3, <2>2, Zenon DEF Answers
      <3> QED BY <2>2, <3>1
    <2>3. CASE l.busy = "scan"
      <3>1. k = [l EXCEPT !.busy = "no", !.opens = FALSE]
        BY <1>3, <2>3, Zenon DEF Answers
      <3> QED BY <2>3, <3>1
    <2>4. CASE l.busy = "no"
      <3>1. k \in {}
        BY <1>3, <2>4, Zenon DEF Answers
      <3> QED BY <3>1
    <2> QED BY <2>1, <2>2, <2>3, <2>4
  <1> QED BY <1>1, <1>2, <1>3

-----------------------------------------------------------------------------
(* The queue of tasks and the sets.                                        *)

LEMMA OpensType == ASSUME NEW p \in ParamSets PROVE Opens(p) \in BOOLEAN
  <1>1. CASE p.type = "open"
    BY <1>1 DEF Opens
  <1>2. CASE p.type # "open"
    BY <1>2 DEF Opens
  <1> QED BY <1>1, <1>2

\* The task at the head.
LEMMA HeadTask ==
  ASSUME RadioTypes, tasks # <<>>
  PROVE  /\ Head(tasks) \in TaskSet /\ Which \in SetNames /\ Wifi \in ParamSets
         /\ Wifi.ssid \in Networks /\ Opens(Wifi) \in BOOLEAN
         /\ Tail(tasks) \in Seq(TaskSet)
         /\ Head(tasks).do = "connect" => BeingConnected(Which)
  <1>1. tasks \in Seq(TaskSet) /\ Head(tasks) = tasks[1] /\ 1 \in DOMAIN tasks /\ tasks[1] \in TaskSet
    BY DEF RadioTypes
  <1>2. Tail(tasks) \in Seq(TaskSet)
    BY <1>1
  <1>3. Which \in SetNames
    BY <1>1 DEF Which, TaskSet
  <1>4. Wifi \in ParamSets
    BY <1>3 DEF Wifi, RadioTypes
  <1>5. Wifi.ssid \in Networks
    BY <1>4 DEF ParamSets
  <1>6. ASSUME Head(tasks).do = "connect" PROVE BeingConnected(Which)
    <2>1. tasks[1] = Task("connect", Which)
      BY <1>1, <1>6 DEF TaskSet, Task, Which
    <2> QED BY <1>1, <2>1 DEF BeingConnected
  <1> QED BY <1>1, <1>2, <1>3, <1>4, <1>5, <1>6, OpensType

\* When it is done, no other is to be connected than before.
LEMMA TaskOver ==
  ASSUME RadioTypes, tasks # <<>>, tasks' = Tail(tasks)
  PROVE  tasks' \in Seq(TaskSet) /\ \A w \in SetNames : BeingConnected(w)' => BeingConnected(w)
  <1>1. tasks \in Seq(TaskSet) /\ Tail(tasks) \in Seq(TaskSet)
    BY DEF RadioTypes
  <1>2. ASSUME NEW w \in SetNames, BeingConnected(w)' PROVE BeingConnected(w)
    <2>1. PICK i \in DOMAIN Tail(tasks) : Tail(tasks)[i] = Task("connect", w)
      BY <1>2 DEF BeingConnected
    <2>2. i \in 1 .. Len(tasks) - 1 /\ Tail(tasks)[i] = tasks[i + 1] /\ i + 1 \in DOMAIN tasks
      BY <1>1
    <2> QED BY <2>1, <2>2 DEF BeingConnected
  <1> QED BY <1>1, <1>2

\* What is queued comes behind what is there.
LEMMA TasksQueued ==
  ASSUME RadioTypes, NEW list \in Seq(TaskSet), Queue(list)
  PROVE  /\ tasks' \in Seq(TaskSet)
         /\ tasks # <<>> => tasks' # <<>> /\ Head(tasks') = Head(tasks)
         /\ \A w \in SetNames : BeingConnected(w)' =>
              BeingConnected(w) \/ \E i \in DOMAIN list : list[i] = Task("connect", w)
  <1>1. tasks \in Seq(TaskSet) /\ tasks' = tasks \o list /\ tasks' \in Seq(TaskSet)
    BY DEF RadioTypes, Queue
  <1>2. ASSUME tasks # <<>> PROVE tasks' # <<>> /\ Head(tasks') = Head(tasks)
    BY <1>1, <1>2
  <1>3. ASSUME NEW w \in SetNames, BeingConnected(w)'
        PROVE  BeingConnected(w) \/ \E i \in DOMAIN list : list[i] = Task("connect", w)
    <2>1. PICK i \in DOMAIN tasks' : tasks'[i] = Task("connect", w)
      BY <1>3 DEF BeingConnected
    <2>2. CASE i \in DOMAIN tasks
      BY <1>1, <2>1, <2>2 DEF BeingConnected
    <2>3. CASE i \notin DOMAIN tasks
      <3>1. i - Len(tasks) \in DOMAIN list /\ tasks'[i] = list[i - Len(tasks)]
        BY <1>1, <2>3
      <3> QED BY <2>1, <3>1
    <2> QED BY <2>2, <2>3
  <1> QED BY <1>1, <1>2, <1>3

-----------------------------------------------------------------------------
(* The deferred tasks and RadioInv.                                        *)

LEMMA InitRadio == Init => RadioInv
  <1> SUFFICES ASSUME Init PROVE RadioInv
    OBVIOUS
  <1> USE DEF Init
  <1>1. NoSet \in ParamSets
    BY DEF NoSet, ParamSets, Networks, Types
  <1>2. sets["active"] = NoSet /\ sets["working"] = NoSet /\ sets \in [SetNames -> ParamSets]
    BY <1>1 DEF SetNames
  <1>3. link \in Links /\ LinkOK(link)
    BY DEF Initialized, Links, LinkOK, Networks
  <1>4. tasks \in Seq(TaskSet) /\ \A w : ~BeingConnected(w)
    BY DEF BeingConnected
  <1>5. RadioTypes
    BY <1>2, <1>3, <1>4 DEF RadioTypes, Steps
  <1>6. ServerBegins /\ InTurn /\ ItsOwn
    BY <1>4 DEF ServerBegins, InTurn, ItsOwn
  <1>7. Phrases
    BY <1>2 DEF Phrases, NoSet, SetNames
  <1>8. ActiveSure
    BY <1>2 DEF ActiveSure, NoSet
  <1> QED BY <1>3, <1>5, <1>6, <1>7, <1>8 DEF RadioInv

\* A connection is not tried over one that is there.
LEMMA InUseRadio ==
  ASSUME RadioInv, tasks # <<>>, InUse, UNCHANGED careless
  PROVE  RadioInv'
  <1> USE DEF RadioInv, InUse, server
  <1>1. con = "Idle" /\ con' = "Idle"
    BY DEF InTurn
  <1>2. tasks' \in Seq(TaskSet) /\ \A w \in SetNames : BeingConnected(w)' => BeingConnected(w)
    BY TaskOver
  <1>3. RadioTypes'
    BY <1>2 DEF RadioTypes
  <1>4. LinkOK(link)' /\ ServerBegins' /\ ItsOwn'
    BY <1>1 DEF ServerBegins, ItsOwn
  <1>5. InTurn'
    BY <1>1, <1>2 DEF InTurn
  <1>6. Phrases' /\ ActiveSure'
    BY <1>1 DEF Phrases, ActiveSure
  <1> QED BY <1>3, <1>4, <1>5, <1>6

LEMMA ConnectIdleRadio ==
  ASSUME RadioInv, tasks # <<>>, Head(tasks).do = "connect", ~(lastErr # "Working" /\ IsLinked(link)),
         ConnectIdle, UNCHANGED careless
  PROVE  RadioInv'
  <1> USE DEF RadioInv, ConnectIdle, Goes, server
  <1>1. con' \in {"WIFICalPSK", "WIFIConnect"} /\ lastErr' = "Working"
        /\ (con' = "WIFICalPSK" => Wifi.type = "phrase")
    OBVIOUS
  <1>2. UNCHANGED <<link, sets, tasks, http, srv, careless>>
    OBVIOUS
  <1>3. alone' \in BOOLEAN /\ (alone' => http # "HTTPEnabled" /\ ~Busy(link))
    OBVIOUS
  <1> HIDE DEF ConnectIdle, Goes
  <1>4. RadioTypes' /\ LinkOK(link)'
    BY <1>1, <1>2, <1>3 DEF RadioTypes, Steps
  <1>5. ServerBegins'
    BY <1>1, <1>2 DEF ServerBegins
  <1>6. InTurn'
    BY <1>1, <1>2 DEF InTurn, BeingConnected
  <1>7. alone' => ~link.up
    BY <1>3 DEF InTurn, ConnectIdle, IsLinked, LinkOK
  <1>8. ItsOwn'
    BY <1>1, <1>2, <1>3, <1>7 DEF ItsOwn, Busy
  <1>9. Phrases' /\ ActiveSure'
    BY <1>1, <1>2 DEF Phrases, ActiveSure, Wifi, Which
  <1> QED BY <1>4, <1>5, <1>6, <1>8, <1>9

\* The passphrase is being made a key, or is one.
LEMMA CalPSKRadio ==
  ASSUME RadioInv, tasks # <<>>, Head(tasks).do = "connect", CalPSKDone \/ CalPSKWaits, UNCHANGED careless
  PROVE  RadioInv'
  <1> USE DEF RadioInv, server
  <1>1. Which \in SetNames /\ Wifi \in ParamSets
    BY HeadTask
  <1>2. CASE CalPSKWaits
    <2>1. UNCHANGED <<con, lastErr, tasks, sets, alone, link, http, srv, careless>>
      BY <1>2 DEF CalPSKWaits, Goes, InTurn
    <2> QED BY <2>1 DEF RadioTypes, LinkOK, ServerBegins, InTurn, BeingConnected, ItsOwn, Wifi, Which, Phrases, ActiveSure
  <1>3. CASE CalPSKDone
    <2>1. con = "WIFICalPSK" /\ con' = "WIFIConnect" /\ lastErr' = "Working"
          /\ UNCHANGED <<tasks, alone, link, http, srv, careless>>
      BY <1>3 DEF CalPSKDone, Goes
    <2>2. PICK k \in Keys(Wifi) : sets' = [sets EXCEPT ![Which] = WithKey(@, k)]
      BY <1>3 DEF CalPSKDone
    <2>3. PICK p : p = WithKey(Wifi, k)
      OBVIOUS
    <2>4. k \in Networks
      BY <1>1, <2>2 DEF Keys, ParamSets, Networks
    <2>5. p \in ParamSets /\ p.type = "key" /\ p.phrase = "none" /\ p.ssid = Wifi.ssid
      BY <1>1, <2>3, <2>4 DEF WithKey, ParamSets, Types
    <2>6. sets' \in [SetNames -> ParamSets] /\ sets'[Which] = p /\ \A w \in SetNames : w # Which => sets'[w] = sets[w]
      BY <1>1, <2>2, <2>3, <2>5 DEF RadioTypes, Wifi
    <2>7. RadioTypes' /\ LinkOK(link)' /\ ServerBegins'
      BY <2>1, <2>6 DEF RadioTypes, Steps, ServerBegins
    <2>8. InTurn'
      BY <2>1, <2>5, <2>6 DEF InTurn, BeingConnected, Wifi
    <2>9. ItsOwn'
      BY <2>1 DEF ItsOwn, Busy
    <2>10. Phrases'
      BY <2>1, <2>5, <2>6 DEF Phrases
    <2>11. ActiveSure'
      <3>1. CASE Which = "active"
        <4>1. sets.active.type = "phrase"
          BY <2>1, <3>1 DEF Phrases
        <4>2. ~sets.active.sure
          BY <4>1 DEF ActiveSure, Opens
        <4>3. sets'.active.sure = sets.active.sure
          BY <1>1, <2>3, <2>6, <3>1 DEF WithKey, Wifi, ParamSets
        <4> QED BY <4>2, <4>3 DEF ActiveSure
      <3>2. CASE Which # "active"
        <4>1. sets'.active = sets.active
          BY <2>6, <3>2 DEF SetNames
        <4> QED BY <2>1, <4>1 DEF ActiveSure
      <3> QED BY <3>1, <3>2
    <2> QED BY <2>7, <2>8, <2>9, <2>10, <2>11
  <1> QED BY <1>2, <1>3

\* Called until the chip tells what came of it.
LEMMA ConnectPassRadio ==
  ASSUME RadioInv, tasks # <<>>, Head(tasks).do = "connect", NEW taken \in BOOLEAN, ConnectPass(taken),
         UNCHANGED careless
  PROVE  RadioInv'
  <1> USE DEF RadioInv
  <1>1. Which \in SetNames /\ Wifi \in ParamSets /\ Wifi.ssid \in Networks /\ Opens(Wifi) \in BOOLEAN
    BY HeadTask
  <1>2. con = "WIFIConnect" /\ UNCHANGED <<sets, alone, http, srv, careless>>
    BY DEF ConnectPass, server
  <1>3. PICK r : r = WfConnect(link, Wifi.ssid, Opens(Wifi), taken)
    OBVIOUS
  <1>4. /\ Tries(link, r.link, Wifi.ssid, Opens(Wifi))
        /\ r.st # "error" /\ Connected(r) => r.link.up
    BY <1>1, <1>3, WfConnectOK DEF RadioTypes
  <1>5. /\ link' = link \/ link' = r.link
        /\ \/ con' = "Idle" /\ lastErr' = "error" /\ tasks' = Tail(tasks)
           \/ /\ lastErr' = "Working" /\ tasks' = tasks
              /\ \/ con' \in {"WIFIDisconnect", "WIFIConnect"}
                 \/ con' = "WIFIConnectLinked" /\ link' = r.link /\ r.link.wf = "connected" /\ r.link.up
    BY <1>3, <1>4 DEF ConnectPass, Fails, Goes, Connected
  <1>6. /\ Tries(link, link', Wifi.ssid, Opens(Wifi))
        /\ con' = "WIFIConnectLinked" => link'.up /\ link'.wf = "connected"
    BY <1>1, <1>4, <1>5 DEF Tries, RadioTypes
  <1>7. tasks' \in Seq(TaskSet) /\ \A w \in SetNames : BeingConnected(w)' => BeingConnected(w)
    BY <1>5, TaskOver DEF RadioTypes, BeingConnected
  <1>8. RadioTypes' /\ LinkOK(link)'
    BY <1>2, <1>5, <1>6, <1>7 DEF RadioTypes, Steps, Tries
  <1>9. ServerBegins'
    BY <1>2, <1>5, <1>6 DEF ServerBegins, Tries
  <1>10. InTurn'
    BY <1>2, <1>5, <1>7 DEF InTurn
  <1>11. ItsOwn'
    <2> SUFFICES ASSUME alone, con' # "Idle", ~careless
                 PROVE  ItsOwn'
      BY <1>2 DEF ItsOwn
    <2>1. http # "HTTPEnabled" /\ tasks' = tasks /\ Wifi' = Wifi
      BY <1>2, <1>5 DEF ItsOwn, Wifi, Which
    <2>2. /\ link.busy = "connect" => link.at = Wifi.ssid /\ (link.opens => Opens(Wifi))
          /\ link.up => link.at = Wifi.ssid /\ Opens(Wifi)
      BY <1>2 DEF ItsOwn
    <2>3. Opens(Wifi)' = Opens(Wifi)
      BY <2>1 DEF Opens
    <2> QED BY <1>2, <1>5, <1>6, <2>1, <2>2, <2>3 DEF ItsOwn, Tries
  <1>12. Phrases' /\ ActiveSure'
    BY <1>2, <1>5 DEF Phrases, ActiveSure
  <1> QED BY <1>8, <1>9, <1>10, <1>11, <1>12

LEMMA LinkedPassRadio ==
  ASSUME RadioInv, tasks # <<>>, Head(tasks).do = "connect", LinkedPass, UNCHANGED careless
  PROVE  RadioInv'
  <1> USE DEF RadioInv
  <1>1. con = "WIFIConnectLinked" /\ lastErr' = "Working"
        /\ UNCHANGED <<tasks, sets, alone, link, http, srv, careless>>
    BY DEF LinkedPass, Goes, server
  <1>2. con' \in {"WIFIConnectLinked", "WIFIConnectSetupHTTP", "WIFIDisconnect"}
    BY <1>1 DEF LinkedPass, Goes, LinkedOrLost
  <1>3. RadioTypes' /\ LinkOK(link)' /\ ServerBegins' /\ InTurn'
    BY <1>1, <1>2 DEF RadioTypes, Steps, ServerBegins, InTurn, BeingConnected
  <1>4. ItsOwn'
    BY <1>1, <1>2 DEF ItsOwn, Wifi, Which
  <1>5. Phrases' /\ ActiveSure'
    BY <1>1, <1>2 DEF Phrases, ActiveSure
  <1> QED BY <1>3, <1>4, <1>5

\* The set that is connected becomes the active one, and the server goes on with it.
LEMMA SetupPassRadio ==
  ASSUME RadioInv, tasks # <<>>, Head(tasks).do = "connect", SetupPass, UNCHANGED careless
  PROVE  RadioInv'
  <1> USE DEF RadioInv
  <1>1. Which \in SetNames /\ Wifi \in ParamSets
    BY HeadTask
  <1>2. con = "WIFIConnectSetupHTTP" /\ UNCHANGED <<alone, link, careless>>
    BY DEF SetupPass
  <1>3. CASE http = "Idle" /\ http' = "Done" /\ srv' = "DYNAMICIPBEGIN" /\ Goes(con) /\ UNCHANGED sets
    <2>1. con' = con /\ lastErr' = "Working" /\ UNCHANGED <<tasks, sets>>
      BY <1>3 DEF Goes
    <2>2. RadioTypes' /\ LinkOK(link)' /\ ServerBegins' /\ InTurn'
      BY <1>2, <1>3, <2>1 DEF RadioTypes, ServerBegins, InTurn, BeingConnected
    <2>3. ItsOwn' /\ Phrases' /\ ActiveSure'
      BY <1>2, <1>3, <2>1 DEF ItsOwn, Wifi, Which, Phrases, ActiveSure
    <2> QED BY <2>2, <2>3
  <1>4. CASE /\ http # "Idle" /\ HttpOn
             /\ con' = "Idle" /\ lastErr' = "Running" /\ tasks' = Tail(tasks)
             /\ sets' = MadeActive(sets, Which)
    <2>1. PICK p : p = [Wifi EXCEPT !.sure = alone /\ ~careless]
      OBVIOUS
    <2>2. (alone /\ ~careless) \in BOOLEAN
      BY DEF RadioTypes
    <2>3. /\ p \in ParamSets /\ p.ssid = Wifi.ssid /\ p.type = Wifi.type /\ p.key = Wifi.key /\ p.phrase = Wifi.phrase
          /\ p.sure => alone /\ ~careless
      BY <1>1, <2>1 DEF RadioTypes, ParamSets
    <2>4. sets' \in [SetNames -> ParamSets] /\ sets'["active"] = p /\ sets'["working"] = sets["working"]
      BY <1>4, <2>1, <2>3 DEF MadeActive, Wifi, RadioTypes, SetNames
    <2>5. tasks' \in Seq(TaskSet) /\ \A w \in SetNames : BeingConnected(w)' => BeingConnected(w)
      BY <1>4, TaskOver
    <2>6. RadioTypes' /\ LinkOK(link)'
      BY <1>2, <1>4, <2>4, <2>5 DEF RadioTypes, Steps, HttpOn
    <2>7. ServerBegins'
      BY <1>2, <1>4 DEF ServerBegins, HttpOn
    <2>8. Wifi.ssid # None
      BY <1>1, HeadTask DEF InTurn, Wifi
    <2>9. InTurn'
      BY <1>4, <2>3, <2>4, <2>5, <2>8 DEF InTurn, SetNames
    <2>10. ItsOwn'
      BY <1>4 DEF ItsOwn
    <2>11. ~careless => (Wifi.type # "phrase" => Wifi.phrase = "none")
      BY <1>1 DEF Phrases, Wifi
    <2>12. Phrases'
      BY <1>2, <1>4, <2>3, <2>4, <2>11 DEF Phrases, SetNames
    <2>13. ActiveSure'
      <3> SUFFICES ASSUME p.sure PROVE p.phrase = "none" /\ Opens(p) /\ link.at = p.ssid
        BY <1>2, <2>4 DEF ActiveSure
      <3>1. link.at = Wifi.ssid /\ Opens(Wifi) /\ ~careless
        BY <1>2, <2>3 DEF ItsOwn
      <3>2. Opens(p)
        BY <2>3, <3>1 DEF Opens
      <3>3. p.type # "phrase"
        BY <3>2 DEF Opens
      <3> QED BY <2>3, <2>11, <3>1, <3>2, <3>3
    <2> QED BY <2>6, <2>7, <2>9, <2>10, <2>12, <2>13
  <1> QED BY <1>3, <1>4 DEF SetupPass

\* WiFiDisconnect, for a connection that is given up or for a client.
LEMMA DisconnectRadio ==
  ASSUME RadioInv, tasks # <<>>,
         \/ Head(tasks).do = "connect" /\ DisconnectPass
         \/ Head(tasks).do = "disconnect" /\ DisconnectTask,
         UNCHANGED careless
  PROVE  RadioInv'
  <1> USE DEF RadioInv
  <1>1. con \in {"Idle", "WIFIDisconnect"} /\ UNCHANGED <<sets, alone, careless>>
    BY DEF DisconnectPass, DisconnectTask, InTurn
  <1>2. PICK r : r = WfDisconnect(link)
    OBVIOUS
  <1>3. /\ r.link \in Links
        /\ r.st # "ok" => LinkOK(r.link) /\ r.link.wf = link.wf
        /\ r.st = "ok" => IPEnd(r.link) \in Links /\ LinkOK(IPEnd(r.link)) /\ IPEnd(r.link).at = link.at
        /\ r.link.at = link.at
    BY <1>2, WfDisconnectOK DEF RadioTypes
  <1>4. /\ HttpOff
        /\ link' = IF r.st = "ok" THEN IPEnd(r.link) ELSE r.link
        /\ \/ UNCHANGED <<con, lastErr, tasks>>
           \/ con' = "Idle" /\ lastErr' \in {"error", "Idle"} /\ tasks' = Tail(tasks)
    BY <1>1, <1>2 DEF DisconnectPass, DisconnectTask, WiFiDisconnect, Fails, Goes, InTurn
  <1>5. link' \in Links /\ LinkOK(link') /\ link'.at = link.at
    BY <1>3, <1>4
  <1>6. http' \in {"Idle", "Done"}
    BY <1>4 DEF HttpOff
  <1>7. tasks' \in Seq(TaskSet) /\ \A w \in SetNames : BeingConnected(w)' => BeingConnected(w)
    BY <1>4, TaskOver DEF RadioTypes, BeingConnected
  <1>8. RadioTypes' /\ LinkOK(link)'
    BY <1>1, <1>4, <1>5, <1>6, <1>7 DEF RadioTypes, Steps
  <1>9. ServerBegins' /\ ItsOwn'
    BY <1>1, <1>4, <1>6 DEF ServerBegins, ItsOwn
  <1>10. InTurn'
    BY <1>1, <1>4, <1>7 DEF InTurn
  <1>11. Phrases' /\ ActiveSure'
    BY <1>1, <1>4, <1>5 DEF Phrases, ActiveSure
  <1> QED BY <1>8, <1>9, <1>10, <1>11

LEMMA ScanRadio ==
  ASSUME RadioInv, tasks # <<>>, Head(tasks).do = "scan", ScanTask, UNCHANGED careless
  PROVE  RadioInv'
  <1> USE DEF RadioInv
  <1>1. con = "Idle" /\ UNCHANGED <<con, lastErr, sets, alone, http, srv, careless>>
    BY DEF ScanTask, InTurn, server
  <1>2. /\ link' = link \/ \E taken \in BOOLEAN : link' = WfScan(link, taken).link
        /\ tasks' = tasks \/ tasks' = Tail(tasks)
    BY DEF ScanTask
  <1>3. link' \in Links /\ LinkOK(link') /\ link'.at = link.at /\ (link.wf = "connected" => link'.wf = "connected")
    BY <1>2, WfScanOK DEF RadioTypes
  <1>4. tasks' \in Seq(TaskSet) /\ \A w \in SetNames : BeingConnected(w)' => BeingConnected(w)
    BY <1>2, TaskOver DEF RadioTypes, BeingConnected
  <1>5. RadioTypes' /\ LinkOK(link)'
    BY <1>1, <1>3, <1>4 DEF RadioTypes
  <1>6. ServerBegins' /\ ItsOwn' /\ InTurn'
    BY <1>1, <1>3, <1>4 DEF ServerBegins, ItsOwn, InTurn
  <1>7. Phrases' /\ ActiveSure'
    BY <1>1, <1>3 DEF Phrases, ActiveSure
  <1> QED BY <1>5, <1>6, <1>7

\* Nothing of the radio, the tasks and the sets.
LEMMA RadioStays ==
  ASSUME RadioInv, UNCHANGED <<link, http, srv, sets, lastErr, tasks, con, alone, careless>>
  PROVE  RadioInv'
  BY DEF RadioInv, RadioTypes, LinkOK, ServerBegins, InTurn, BeingConnected, ItsOwn, Wifi, Which, Busy, Opens,
         Phrases, ActiveSure

LEMMA DeferredRadio == ASSUME RadioInv, Deferred PROVE RadioInv'
  <1>1. UNCHANGED careless
    BY DEF Deferred
  <1>2. CASE tasks = <<>>
    <2>1. UNCHANGED <<link, http, srv, sets, lastErr, tasks, con, alone, careless>>
      BY <1>2 DEF Deferred, task, server
    <2> QED BY <2>1, RadioStays
  <1>3. CASE tasks # <<>> /\ Head(tasks).do = "connect" /\ ConnectTask
    <2>1. CASE InUse
      BY <1>1, <1>3, <2>1, InUseRadio
    <2>2. CASE ~(lastErr # "Working" /\ IsLinked(link)) /\ ConnectIdle
      BY <1>1, <1>3, <2>2, ConnectIdleRadio
    <2>3. CASE CalPSKDone \/ CalPSKWaits
      BY <1>1, <1>3, <2>3, CalPSKRadio
    <2>4. CASE \E taken \in BOOLEAN : ConnectPass(taken)
      BY <1>1, <1>3, <2>4, ConnectPassRadio
    <2>5. CASE LinkedPass
      BY <1>1, <1>3, <2>5, LinkedPassRadio
    <2>6. CASE SetupPass
      BY <1>1, <1>3, <2>6, SetupPassRadio
    <2>7. CASE DisconnectPass
      BY <1>1, <1>3, <2>7, DisconnectRadio
    <2> QED BY <1>3, <2>1, <2>2, <2>3, <2>4, <2>5, <2>6, <2>7 DEF ConnectTask
  <1>4. CASE tasks # <<>> /\ Head(tasks).do = "disconnect" /\ DisconnectTask
    BY <1>1, <1>4, DisconnectRadio
  <1>5. CASE tasks # <<>> /\ Head(tasks).do = "scan" /\ ScanTask
    BY <1>1, <1>5, ScanRadio
  <1> QED BY <1>2, <1>3, <1>4, <1>5 DEF Deferred

-----------------------------------------------------------------------------
(* The server, the chip, the client and RadioInv.                          *)

LEMMA HttpRadio == ASSUME RadioInv, Http PROVE RadioInv'
  <1> USE DEF RadioInv
  <1>1. UNCHANGED <<http, tasks, con, lastErr, sets, alone, careless>>
    BY DEF Http, task, client
  <1>2. CASE http # "HTTPEnabled"
    <2>1. UNCHANGED <<link, srv>>
      BY <1>2 DEF Http
    <2> QED BY <1>1, <2>1, RadioStays
  <1>3. CASE http = "HTTPEnabled"
    <2>1. sets["active"] \in ParamSets /\ sets.active.ssid \in Networks /\ Opens(sets.active) \in BOOLEAN
      BY OpensType DEF RadioTypes, SetNames, ParamSets
    <2>2. /\ link' \in Links /\ LinkOK(link')
          /\ link'.at = link.at \/ link'.at = sets.active.ssid
          /\ srv' = "DYNAMICIPBEGIN" => link'.wf = "connected"
      <3>1. CASE BeginPass
        <4>1. link.wf = "connected"
          BY <1>3, <3>1 DEF BeginPass, ServerBegins
        <4> QED BY <3>1, <4>1, IPBeginOK DEF BeginPass, RadioTypes
      <3>2. CASE WaitPass \/ CheckPass \/ RestPass \/ TimeOut
        BY <1>3, <3>2 DEF WaitPass, CheckPass, RestPass, TimeOut, Restart, RadioTypes
      <3>3. CASE ShutPass
        <4>1. PICK r : r = WfDisconnect(link)
          OBVIOUS
        <4>2. /\ r.link \in Links /\ r.link.at = link.at
              /\ r.st # "ok" => LinkOK(r.link) /\ r.link.wf = link.wf
              /\ r.st = "ok" => IPEnd(r.link) \in Links /\ LinkOK(IPEnd(r.link)) /\ IPEnd(r.link).at = link.at
          BY <4>1, WfDisconnectOK DEF RadioTypes
        <4> QED BY <3>3, <4>1, <4>2 DEF ShutPass
      <3>4. ASSUME NEW taken \in BOOLEAN, ReconnectPass(taken)
            PROVE  /\ link' \in Links /\ LinkOK(link')
                   /\ link'.at = link.at \/ link'.at = sets.active.ssid
                   /\ srv' = "DYNAMICIPBEGIN" => link'.wf = "connected"
        <4>1. PICK r : r = WfConnect(link, sets.active.ssid, Opens(sets.active), taken)
          OBVIOUS
        <4>2. Tries(link, r.link, sets.active.ssid, Opens(sets.active))
          BY <2>1, <4>1, WfConnectOK DEF RadioTypes
        <4>3. link' = r.link /\ srv = "WIFICONNECT"
          BY <3>4, <4>1 DEF ReconnectPass
        <4>4. srv' = "DYNAMICIPBEGIN" => Connected(r)
          BY <3>4, <4>1 DEF ReconnectPass, Restart
        <4> QED BY <4>2, <4>3, <4>4 DEF Tries, Connected
      <3>5. CASE srv = "WIFICONNECT" /\ UNCHANGED <<srv, link>>
        BY <3>5 DEF RadioTypes
      <3> QED BY <1>3, <3>1, <3>2, <3>3, <3>4, <3>5 DEF Http
    <2>3. RadioTypes' /\ LinkOK(link)'
      BY <1>1, <2>2 DEF RadioTypes
    <2>4. ServerBegins'
      BY <1>1, <1>3, <2>2 DEF ServerBegins
    <2>5. InTurn' /\ Phrases'
      BY <1>1 DEF InTurn, BeingConnected, Phrases, Which
    <2>6. ItsOwn'
      BY <1>1, <1>3 DEF ItsOwn
    <2>7. ActiveSure'
      BY <1>1, <2>2 DEF ActiveSure
    <2> QED BY <2>3, <2>4, <2>5, <2>6, <2>7
  <1> QED BY <1>2, <1>3

LEMMA ChipRadio == ASSUME RadioInv, ChipAnswers \/ ChipIsQuiet \/ LinkDrops PROVE RadioInv'
  <1> USE DEF RadioInv
  <1>1. UNCHANGED <<http, srv, tasks, con, lastErr, sets, alone, careless>>
    BY DEF ChipAnswers, ChipIsQuiet, LinkDrops, Chip, task, server, client
  <1>2. link' \in Answers(link) \cup {link, Dropped(link)}
    BY DEF ChipAnswers, ChipIsQuiet, LinkDrops, Chip
  <1>3. /\ link' \in Links /\ LinkOK(link') /\ link'.wf = link.wf /\ link'.at = link.at
        /\ link'.up => link.up \/ (link.busy = "connect" /\ link.opens)
        /\ Busy(link') => link'.busy = link.busy /\ link'.opens = link.opens
    BY <1>2, ChipOK DEF RadioTypes
  <1>4. RadioTypes' /\ LinkOK(link)' /\ ServerBegins' /\ InTurn' /\ Phrases' /\ ActiveSure'
    BY <1>1, <1>3 DEF RadioTypes, ServerBegins, InTurn, BeingConnected, Phrases, Which, ActiveSure
  <1>5. Wifi' = Wifi /\ (Opens(Wifi)' <=> Opens(Wifi))
    BY <1>1 DEF Wifi, Which, Opens
  <1>6. ItsOwn'
    BY <1>1, <1>3, <1>5 DEF ItsOwn, Busy
  <1> QED BY <1>4, <1>6

\* The working set is changed: one that is being connected makes the client careless.
LEMMA WorkingRadio ==
  ASSUME RadioInv, NEW p \in ParamSets, sets' = [sets EXCEPT !["working"] = p], p.ssid # None,
         careless' \in BOOLEAN, careless \/ BeingConnected("working") => careless',
         ~careless' => (p.type # "phrase" => p.phrase = "none"),
         UNCHANGED <<link, http, srv, tasks, con, lastErr, alone>>
  PROVE  RadioInv'
  <1> USE DEF RadioInv
  <1>1. sets' \in [SetNames -> ParamSets] /\ sets'["working"] = p /\ sets'["active"] = sets["active"]
    BY DEF RadioTypes, SetNames
  <1>2. RadioTypes' /\ LinkOK(link)' /\ ServerBegins' /\ ActiveSure'
    BY <1>1 DEF RadioTypes, ServerBegins, ActiveSure
  <1>3. InTurn'
    BY <1>1 DEF InTurn, BeingConnected, SetNames
  <1>4. ItsOwn'
    <2> SUFFICES ASSUME alone, con # "Idle", ~careless'
                 PROVE  ItsOwn'
      BY DEF ItsOwn
    <2>1. tasks # <<>> /\ BeingConnected(Which) /\ Which \in SetNames
      BY HeadTask DEF InTurn
    <2>2. Which = "active" /\ Which' = Which
      BY <2>1 DEF SetNames, Which
    <2>3. Wifi' = Wifi
      BY <1>1, <2>2 DEF Wifi
    <2>4. Opens(Wifi)' <=> Opens(Wifi)
      BY <2>3 DEF Opens
    <2> QED BY <2>3, <2>4 DEF ItsOwn, Busy
  <1>5. Phrases'
    BY <1>1 DEF Phrases, SetNames, Which
  <1> QED BY <1>2, <1>3, <1>4, <1>5

LEMMA SetParamRadio ==
  ASSUME RadioInv, NEW g \in Given, SetParam(g), UNCHANGED <<link, http, srv, con, lastErr, alone>>
  PROVE  RadioInv'
  <1>1. /\ g.ssid \in Nets /\ g.type \in {"open", "phrase"} /\ g.phrase \in {"right", "wrong"} /\ g.auto \in BOOLEAN
        /\ g.ssid # None
    BY WiFiAssumption
  <1>2. sets \in [SetNames -> ParamSets] /\ sets["working"] \in ParamSets /\ careless \in BOOLEAN
    BY DEF RadioInv, RadioTypes, SetNames
  <1>3. PICK p : p = [sets["working"] EXCEPT !.ssid = g.ssid, !.type = g.type, !.auto = g.auto,
                                    !.phrase = IF g.type = "phrase" THEN g.phrase ELSE @]
    OBVIOUS
  <1>4. p \in ParamSets /\ p.ssid = g.ssid /\ p.type = g.type /\ (g.type = "open" => p.phrase = sets.working.phrase)
    BY <1>1, <1>2, <1>3 DEF ParamSets, Types, Networks
  <1>5. sets' = [sets EXCEPT !["working"] = p]
    BY <1>2, <1>3 DEF SetParam, SetNames
  <1>6. careless' = (careless \/ BeingConnected("working") \/ (g.type = "open" /\ sets.working.phrase # "none"))
        /\ UNCHANGED tasks
    BY DEF SetParam
  <1>7. careless' \in BOOLEAN
    BY <1>6
  <1>8. ~careless' => (p.type # "phrase" => p.phrase = "none")
    BY <1>1, <1>4, <1>6
  <1>9. p.ssid # None /\ (careless \/ BeingConnected("working") => careless')
    BY <1>1, <1>4, <1>6
  <1> QED BY <1>4, <1>5, <1>6, <1>7, <1>8, <1>9, WorkingRadio

LEMMA QueueRadio ==
  ASSUME RadioInv, NEW list \in Seq(TaskSet), Queue(list),
         \A w \in SetNames : (\E i \in DOMAIN list : list[i] = Task("connect", w)) => sets[w].ssid # None,
         UNCHANGED <<link, http, srv, sets, lastErr, con, alone, careless>>
  PROVE  RadioInv'
  <1> USE DEF RadioInv
  <1>1. /\ tasks' \in Seq(TaskSet)
        /\ tasks # <<>> => tasks' # <<>> /\ Head(tasks') = Head(tasks)
        /\ \A w \in SetNames : BeingConnected(w)' =>
             BeingConnected(w) \/ \E i \in DOMAIN list : list[i] = Task("connect", w)
    BY TasksQueued
  <1>2. RadioTypes' /\ LinkOK(link)' /\ ServerBegins' /\ ActiveSure'
    BY <1>1 DEF RadioTypes, ServerBegins, ActiveSure
  <1>3. InTurn'
    BY <1>1 DEF InTurn
  <1>4. con # "Idle" => Which' = Which /\ Wifi' = Wifi
    BY <1>1 DEF InTurn, Which, Wifi
  <1>5. Opens(Wifi') <=> Opens(Wifi')
    OBVIOUS
  <1>6. ItsOwn' /\ Phrases'
    BY <1>4 DEF ItsOwn, Busy, Opens, Phrases
  <1> QED BY <1>2, <1>3, <1>6

\* The lists of tasks that are queued.
LEMMA Behind ==
  ASSUME NEW S, NEW a \in Seq(S), NEW x \in S
  PROVE  /\ a \o <<x>> \in Seq(S)
         /\ \A i \in DOMAIN (a \o <<x>>) : (i \in DOMAIN a /\ (a \o <<x>>)[i] = a[i]) \/ (a \o <<x>>)[i] = x
  <1>1. <<x>> \in Seq(S) /\ Len(<<x>>) = 1 /\ <<x>>[1] = x
    OBVIOUS
  <1>2. a \o <<x>> \in Seq(S) /\ Len(a \o <<x>>) = Len(a) + 1
    BY <1>1
  <1>3. ASSUME NEW i \in DOMAIN (a \o <<x>>)
        PROVE  (i \in DOMAIN a /\ (a \o <<x>>)[i] = a[i]) \/ (a \o <<x>>)[i] = x
    <2>1. i \in 1 .. Len(a) + 1 /\ Len(a) \in Nat
      BY <1>2
    <2>2. CASE i <= Len(a)
      BY <1>1, <2>1, <2>2
    <2>3. CASE i = Len(a) + 1
      BY <1>1, <2>1, <2>3
    <2> QED BY <2>1, <2>2, <2>3
  <1> QED BY <1>2, <1>3

LEMMA ForcedList ==
  ASSUME NEW force \in BOOLEAN
  PROVE  /\ Forced(force) \in Seq(TaskSet)
         /\ \A i \in DOMAIN Forced(force) : \A w : Forced(force)[i] # Task("connect", w)
  <1>1. PICK d : d = Task("disconnect", "active")
    OBVIOUS
  <1>2. d \in TaskSet /\ \A w : d # Task("connect", w)
    BY <1>1 DEF Task, TaskSet, SetNames
  <1>3. Forced(force) = IF force THEN <<d>> ELSE <<>>
    BY <1>1 DEF Forced
  <1>4. CASE force
    BY <1>2, <1>3, <1>4
  <1>5. CASE ~force
    BY <1>2, <1>3, <1>5
  <1> QED BY <1>4, <1>5

LEMMA OnePassRadio ==
  ASSUME RadioInv, OnePass, UNCHANGED <<link, http, srv, con, lastErr, alone>>
  PROVE  RadioInv'
  <1>1. CASE \E g \in Given : SetParam(g)
    BY <1>1, SetParamRadio
  <1>2. ASSUME NEW force \in BOOLEAN, WiFiScan(force) PROVE RadioInv'
    <2>1. PICK x : x = Task("scan", "active")
      OBVIOUS
    <2>2. x \in TaskSet /\ \A w : x # Task("connect", w)
      BY <2>1 DEF Task, TaskSet, SetNames
    <2>3. PICK list : list = Forced(force) \o <<x>>
      OBVIOUS
    <2>4. list \in Seq(TaskSet) /\ \A i \in DOMAIN list : \A w : list[i] # Task("connect", w)
      BY <2>2, <2>3, Behind, ForcedList
    <2>5. Queue(list) /\ UNCHANGED <<sets, careless>>
      BY <1>2, <2>1, <2>3 DEF WiFiScan
    <2> QED BY <2>4, <2>5, QueueRadio
  <1>3. ASSUME NEW force \in BOOLEAN, NEW which \in SetNames, NicConnect(which, force) PROVE RadioInv'
    <2>1. PICK x : x = Task("connect", which)
      OBVIOUS
    <2>2. x \in TaskSet /\ \A w : x = Task("connect", w) => w = which
      BY <2>1 DEF Task, TaskSet
    <2>3. PICK list : list = Forced(force) \o <<x>>
      OBVIOUS
    <2>4. list \in Seq(TaskSet) /\ \A i \in DOMAIN list : \A w : list[i] = Task("connect", w) => w = which
      BY <2>2, <2>3, Behind, ForcedList
    <2>5. Queue(list) /\ sets[which].ssid # None /\ UNCHANGED <<sets, careless>>
      BY <1>3, <2>1, <2>3 DEF NicConnect
    <2> QED BY <2>4, <2>5, QueueRadio
  <1>4. CASE NicDisconnect
    <2>1. Queue(Forced(TRUE)) /\ UNCHANGED <<sets, careless>>
      BY <1>4 DEF NicDisconnect
    <2> QED BY <2>1, ForcedList, QueueRadio
  <1> QED BY <1>1, <1>2, <1>3, <1>4 DEF OnePass, SetNames

\* Parameters are read from a file.
LEMMA ReadRadio ==
  ASSUME RadioInv, ClientTypes, Stages, cmd # NoCmd, Read, UNCHANGED <<link, http, srv, con, lastErr, alone>>
  PROVE  RadioInv'
  <1>1. cmd.net \in Nets /\ cmd.net # None /\ UNCHANGED tasks
        /\ files[cmd.name] \in {Absent, Empty} \cup Contents
    BY WiFiAssumption DEF ClientTypes, Cmds, Read
  <1>2. sets \in [SetNames -> ParamSets] /\ sets["working"] \in ParamSets /\ careless \in BOOLEAN
    BY DEF RadioInv, RadioTypes, SetNames
  <1>3. CASE UNCHANGED <<sets, careless>>
    BY <1>1, <1>3, RadioStays
  <1>4. CASE ~UNCHANGED <<sets, careless>>
    <2>1. PICK x : x = files[cmd.name]
      OBVIOUS
    <2>2. /\ x # Empty
          /\ sets' = [sets EXCEPT !.working = [ssid |-> cmd.net, type |-> x.type, key |-> x.key, auto |-> x.auto,
                                               phrase |-> @.phrase, sure |-> x.sure]]
          /\ careless' = (careless \/ BeingConnected("working") \/ sets.working.phrase # "none")
      BY <1>4, <2>1 DEF Read
    <2>3. x \in Contents
      BY <1>1, <2>1, <2>2 DEF Stages, Read, There, ClientTypes, Cmds
    <2>4. PICK p : p = [ssid |-> cmd.net, type |-> x.type, key |-> x.key, auto |-> x.auto,
                        phrase |-> sets["working"].phrase, sure |-> x.sure]
      OBVIOUS
    <2>5. p \in ParamSets /\ p.ssid # None /\ p.phrase = sets["working"].phrase
      BY <1>1, <1>2, <2>3, <2>4 DEF Contents, ParamSets, Networks
    <2>6. sets' = [sets EXCEPT !["working"] = p]
      BY <2>2, <2>4
    <2>7. careless' \in BOOLEAN /\ (careless \/ BeingConnected("working") => careless')
          /\ (~careless' => p.phrase = "none")
      BY <2>2, <2>5
    <2> QED BY <1>1, <2>5, <2>6, <2>7, WorkingRadio
  <1> QED BY <1>3, <1>4

LEMMA JsonRadio == ASSUME RadioInv, ClientTypes, Stages, NewCommand \/ CommandPass \/ NoPass PROVE RadioInv'
  <1> USE DEF Json
  <1>1. UNCHANGED <<link, http, srv, con, lastErr, alone>>
    BY DEF NewCommand, CommandPass, NoPass, server
  <1>2. CASE NewCommand
    <2>1. CASE OnePass
      BY <1>1, <2>1, OnePassRadio
    <2>2. CASE Begins
      <3>1. UNCHANGED <<tasks, sets, careless>>
        BY <2>2 DEF Begins, Save, Load, Delete, Begin
      <3> QED BY <1>1, <3>1, RadioStays
    <2> QED BY <1>2, <2>1, <2>2 DEF NewCommand
  <1>3. CASE CommandPass
    <2>1. CASE Read
      BY <1>1, <1>3, <2>1, ReadRadio DEF CommandPass
    <2>2. CASE KeepsSets
      <3>1. UNCHANGED <<tasks, sets, careless>>
        BY <2>2 DEF KeepsSets
      <3> QED BY <1>1, <3>1, RadioStays
    <2>3. Read \/ KeepsSets
      BY <1>3 DEF CommandPass, Pass, Write
    <2> QED BY <2>1, <2>2, <2>3
  <1>4. CASE NoPass
    <2>1. UNCHANGED <<tasks, sets, careless>>
      BY <1>4 DEF NoPass, client
    <2> QED BY <1>1, <2>1, RadioStays
  <1> QED BY <1>2, <1>3, <1>4

LEMMA NextRadio == ASSUME RadioInv, ClientTypes, Stages, [Next]_vars PROVE RadioInv'
  <1>1. CASE HttpRests
    <2>1. UNCHANGED <<link, http, srv, sets, lastErr, tasks, con, alone, careless>>
      BY <1>1 DEF HttpRests, task, client, server
    <2> QED BY <2>1, RadioStays
  <1>2. CASE UNCHANGED vars
    <2>1. UNCHANGED <<link, http, srv, sets, lastErr, tasks, con, alone, careless>>
      BY <1>2 DEF vars
    <2> QED BY <2>1, RadioStays
  <1> QED BY <1>1, <1>2, DeferredRadio, HttpRadio, ChipRadio, JsonRadio DEF Next

-----------------------------------------------------------------------------
(* The commands that take several passes and FilesInv.                     *)

\* A command in progress.
LEMMA InProgress ==
  ASSUME FilesInv, cmd # NoCmd
  PROVE  /\ cmd \in Cmds /\ cmd.name \in Names /\ cmd.net \in Nets
         /\ files \in [Names -> {Absent, Empty} \cup Contents]
         /\ cmd.op \in {"save", "load", "delete"}
         /\ \A a \in BOOLEAN : <<cmd.net, a>> \in Names
  BY DEF FilesInv, ClientTypes, Cmds, Names

LEMMA ActiveSet ==
  ASSUME RadioInv
  PROVE  /\ sets.active \in ParamSets
         /\ sets.active.ssid # None => OwnName(sets.active) \in Names /\ OtherName(sets.active) \in Names
         /\ OwnName(sets.active) # OtherName(sets.active)
  <1>1. sets.active \in ParamSets
    BY DEF RadioInv, RadioTypes, SetNames
  <1>2. sets.active.ssid \in Networks /\ sets.active.auto \in BOOLEAN
    BY <1>1 DEF ParamSets
  <1>3. sets.active.ssid # None => OwnName(sets.active) \in Names /\ OtherName(sets.active) \in Names
    BY <1>2 DEF OwnName, OtherName, Names, Networks
  <1>4. OwnName(sets.active) # OtherName(sets.active)
    <2>1. sets.active.auto # ~sets.active.auto
      BY <1>2
    <2> QED BY <2>1 DEF OwnName, OtherName
  <1> QED BY <1>1, <1>3, <1>4

\* A file that does not say what it opens may be put in the place of another.
LEMMA FilesStayTrue ==
  ASSUME FilesInv, \/ files' = files
                   \/ \E n \in Names, x \in {Absent, Empty} : files' = [files EXCEPT ![n] = x]
  PROVE  files' \in [Names -> {Absent, Empty} \cup Contents] /\ FilesTrue'
  <1> USE DEF FilesInv
  <1>1. CASE files' = files
    BY <1>1 DEF ClientTypes, FilesTrue
  <1>2. ASSUME NEW n \in Names, NEW x \in {Absent, Empty}, files' = [files EXCEPT ![n] = x]
        PROVE  files' \in [Names -> {Absent, Empty} \cup Contents] /\ FilesTrue'
    <2>1. files' \in [Names -> {Absent, Empty} \cup Contents] /\ files'[n] = x /\ \A f \in Names : f # n => files'[f] = files[f]
      BY <1>2 DEF ClientTypes
    <2> QED BY <2>1 DEF FilesTrue
  <1> QED BY <1>1, <1>2

\* After an error nothing is said of the files any more.
LEMMA CommandFails ==
  ASSUME FilesInv, cmd # NoCmd, NEW c \in Cmds, NEW s \in {"FILEclose", "Done"}, cmd' = Failed(c, s),
         c.op = cmd.op, s = "FILEclose" => cmd.op # "delete", UNCHANGED sets,
         files' \in [Names -> {Absent, Empty} \cup Contents], FilesTrue'
  PROVE  FilesInv'
  <1>1. cmd' \in Cmds /\ cmd'.st = "error" /\ cmd'.at = s /\ cmd'.op = cmd.op
    BY DEF Failed, Cmds
  <1>2. ClientTypes'
    BY <1>1 DEF ClientTypes
  <1>3. Stages'
    BY <1>1 DEF FilesInv, Stages
  <1>4. Progress'
    BY <1>1 DEF Progress
  <1> QED BY <1>2, <1>3, <1>4 DEF FilesInv

LEMMA ExistsFiles ==
  ASSUME RadioInv, FilesInv, cmd # NoCmd, Exists, UNCHANGED sets
  PROVE  FilesInv'
  <1>1. cmd \in Cmds /\ cmd.op \in {"save", "load", "delete"} /\ cmd.at = "FILEexist" /\ There /\ UNCHANGED files
    BY InProgress DEF Exists
  <1>2. files' \in [Names -> {Absent, Empty} \cup Contents] /\ FilesTrue'
    BY <1>1, FilesStayTrue
  <1>3. CASE cmd' = Failed(cmd, "Done")
    BY <1>1, <1>2, <1>3, CommandFails
  <1>4. CASE cmd' = At(cmd, IF cmd.op = "load" THEN "FILEopen" ELSE "FILEdelete")
    <2>1. /\ cmd' \in Cmds /\ cmd'.op = cmd.op /\ cmd'.net = cmd.net /\ cmd'.name = cmd.name
          /\ cmd'.first = cmd.first /\ cmd'.st = cmd.st /\ cmd'.same = cmd.same
          /\ cmd'.at = IF cmd.op = "load" THEN "FILEopen" ELSE "FILEdelete"
      BY <1>1, <1>4 DEF At, Cmds
    <2>2. ClientTypes'
      BY <1>2, <2>1 DEF ClientTypes
    <2>3. Stages'
      BY <1>1, <2>1 DEF FilesInv, Stages, There
    <2>4. Progress'
      <3> SUFFICES ASSUME cmd.st = "ok", cmd.same
                   PROVE  /\ cmd.op = "save" => SaveDone'
                          /\ cmd.op = "load" => LoadDone'
                          /\ cmd.op = "delete" => DeleteDone'
        BY <2>1 DEF Progress
      <3>1. /\ cmd.op = "save" => SaveDone
            /\ cmd.op = "load" => LoadDone
            /\ cmd.op = "delete" => DeleteDone
        BY DEF FilesInv, Progress
      <3>2. cmd.op = "save" => SaveDone'
        BY <1>1, <2>1, <3>1 DEF SaveDone
      <3>3. ASSUME cmd.op = "load" PROVE LoadDone'
        <4>1. cmd.name = <<cmd.net, TRUE \in Held(cmd.net)>>
          <5>1. CASE cmd.name = <<cmd.net, TRUE>>
            <6>1. TRUE \in Held(cmd.net)
              BY <1>1, <5>1 DEF Held, There
            <6> QED BY <5>1, <6>1
          <5>2. CASE cmd.name = <<cmd.net, FALSE>> /\ files[<<cmd.net, TRUE>>] = Absent
            <6>1. (TRUE \in Held(cmd.net)) = FALSE
              BY <5>2 DEF Held
            <6> QED BY <5>2, <6>1
          <5> QED BY <1>1, <3>1, <3>3, <5>1, <5>2 DEF LoadDone
        <4> QED BY <1>1, <2>1, <3>3, <4>1 DEF LoadDone, LoadName, Held
      <3>4. cmd.op = "delete" => DeleteDone'
        BY <1>1, <2>1, <3>1 DEF DeleteDone
      <3> QED BY <3>2, <3>3, <3>4
    <2> QED BY <1>2, <2>2, <2>3, <2>4 DEF FilesInv
  <1> QED BY <1>3, <1>4 DEF Exists, Uses

\* A save goes on with the name of the active set: WriteNow, and the way past an error of
\* fsexists.
LEMMA NamedForActive ==
  ASSUME RadioInv, FilesInv, cmd # NoCmd, cmd.op = "save", NEW c \in Cmds, c.op = "save", c.net = cmd.net,
         c.same /\ c.st = "ok" => files'[OtherName(sets.active)] = Absent,
         \/ cmd' = At(Named(c, <<sets.active.ssid, sets.active.auto>>), "FILEopen")
         \/ /\ cmd' = Failed(Named(c, <<sets.active.ssid, sets.active.auto>>), c.at)
            /\ c.at \in {"FILEexist", "FILEdelete"},
         UNCHANGED sets, files' \in [Names -> {Absent, Empty} \cup Contents], FilesTrue'
  PROVE  FilesInv'
  <1>1. sets.active.ssid # None
    BY DEF FilesInv, Stages
  <1>2. OwnName(sets.active) \in Names
    BY <1>1, ActiveSet
  <1>3. PICK n : n = OwnName(sets.active)
    OBVIOUS
  <1>4. CASE cmd' = At(Named(c, n), "FILEopen")
    <2>1. /\ cmd' \in Cmds /\ cmd'.op = "save" /\ cmd'.name = n /\ cmd'.at = "FILEopen" /\ cmd'.same = c.same
          /\ cmd'.st = c.st
      BY <1>2, <1>3, <1>4 DEF At, Named, Cmds
    <2>2. ClientTypes'
      BY <2>1 DEF ClientTypes
    <2>3. Stages'
      BY <1>1, <1>3, <2>1 DEF Stages
    <2>4. Progress'
      BY <2>1 DEF Progress, SaveDone
    <2> QED BY <2>2, <2>3, <2>4 DEF FilesInv
  <1>5. CASE cmd' = Failed(Named(c, n), c.at) /\ c.at \in {"FILEexist", "FILEdelete"}
    <2>1. /\ cmd' \in Cmds /\ cmd'.op = "save" /\ cmd'.at \in {"FILEexist", "FILEdelete"} /\ cmd'.st = "error"
      BY <1>2, <1>3, <1>5 DEF Failed, Named, Cmds
    <2>2. ClientTypes'
      BY <2>1 DEF ClientTypes
    <2>3. Stages'
      BY <1>1, <2>1 DEF Stages
    <2>4. Progress'
      BY <2>1 DEF Progress
    <2> QED BY <2>2, <2>3, <2>4 DEF FilesInv
  <1> QED BY <1>3, <1>4, <1>5 DEF OwnName

\* The second name of a load or a delete is tried, or there is none left.
LEMMA NextNameFiles ==
  ASSUME RadioInv, FilesInv, cmd # NoCmd, cmd.op # "save", cmd.at = "FILEexist", NEW c \in Cmds, c.op = cmd.op,
         c.net = cmd.net, c.name = cmd.name, c.first = cmd.first, c.at = cmd.at, c.st = cmd.st,
         c.same => cmd.same /\ ~There, cmd' = NextName(c), UNCHANGED <<files, sets>>
  PROVE  FilesInv'
  <1>1. cmd \in Cmds /\ <<cmd.net, FALSE>> \in Names
    BY InProgress
  <1>2. files' \in [Names -> {Absent, Empty} \cup Contents] /\ FilesTrue'
    BY FilesStayTrue
  <1>3. CASE c.first
    <2>1. /\ cmd' \in Cmds /\ cmd'.op = cmd.op /\ cmd'.net = cmd.net /\ cmd'.name = <<cmd.net, FALSE>>
          /\ cmd'.first = FALSE /\ cmd'.at = "FILEexist" /\ cmd'.st = cmd.st /\ cmd'.same = c.same
      BY <1>1, <1>3 DEF NextName, Named, Cmds
    <2>2. ClientTypes' /\ Stages'
      BY <1>2, <2>1 DEF ClientTypes, Stages
    <2>3. Progress'
      <3> SUFFICES ASSUME cmd.st = "ok", c.same
                   PROVE  (cmd.op = "load" => LoadDone') /\ (cmd.op = "delete" => DeleteDone')
        BY <2>1 DEF Progress
      <3>1. (cmd.op = "load" => LoadDone) /\ (cmd.op = "delete" => DeleteDone)
        BY DEF FilesInv, Progress
      <3>2. files[cmd.name] = Absent
        BY DEF There
      <3>3. files[<<cmd.net, TRUE>>] = Absent
        BY <1>1, <1>3, <3>1, <3>2 DEF LoadDone, DeleteDone, Cmds
      <3> QED BY <2>1, <3>3 DEF LoadDone, DeleteDone
    <2> QED BY <1>2, <2>2, <2>3 DEF FilesInv
  <1>4. CASE ~c.first /\ c.op = "delete" /\ c.deleted
    <2>1. /\ cmd' \in Cmds /\ cmd'.op = "delete" /\ cmd'.net = cmd.net /\ cmd'.at = "Done" /\ cmd'.st = cmd.st
          /\ cmd'.same = c.same
      BY <1>1, <1>4 DEF NextName, At, Cmds
    <2>2. ClientTypes' /\ Stages'
      BY <1>2, <2>1 DEF ClientTypes, Stages
    <2>3. Progress'
      <3> SUFFICES ASSUME cmd.st = "ok", c.same PROVE DeleteDone'
        BY <2>1 DEF Progress
      <3>1. DeleteDone
        BY <1>4 DEF FilesInv, Progress
      <3>2. files[<<cmd.net, FALSE>>] = Absent /\ files[<<cmd.net, TRUE>>] = Absent
        BY <1>4, <3>1 DEF DeleteDone, There
      <3> QED BY <2>1, <3>2 DEF DeleteDone
    <2> QED BY <1>2, <2>2, <2>3 DEF FilesInv
  <1>5. CASE ~c.first /\ ~(c.op = "delete" /\ c.deleted)
    <2>1. cmd' = Failed(c, "Done")
      BY <1>5 DEF NextName
    <2> QED BY <1>2, <2>1, CommandFails
  <1> QED BY <1>3, <1>4, <1>5

LEMMA ExistsNotFiles ==
  ASSUME RadioInv, FilesInv, cmd # NoCmd, ExistsNot, UNCHANGED sets
  PROVE  FilesInv'
  <1>1. cmd \in Cmds /\ cmd.op \in {"save", "load", "delete"} /\ cmd.at = "FILEexist" /\ UNCHANGED files
    BY InProgress DEF ExistsNot
  <1>2. files' \in [Names -> {Absent, Empty} \cup Contents] /\ FilesTrue'
    BY <1>1, FilesStayTrue
  <1>3. PICK c : c = [cmd EXCEPT !.same = FALSE]
    OBVIOUS
  <1>4. /\ c \in Cmds /\ c.op = cmd.op /\ c.net = cmd.net /\ c.name = cmd.name /\ c.first = cmd.first
        /\ c.at = cmd.at /\ c.st = cmd.st /\ ~c.same
    BY <1>1, <1>3 DEF Cmds
  <1>5. CASE ~There /\ cmd.op = "save" /\ WriteNow(cmd)
    <2>1. cmd.same /\ cmd.st = "ok" => files[OtherName(sets.active)] = Absent
      BY <1>1, <1>5 DEF FilesInv, Progress, SaveDone, There
    <2>2. \/ cmd' = At(Named(cmd, <<sets.active.ssid, sets.active.auto>>), "FILEopen")
          \/ cmd' = Failed(Named(cmd, <<sets.active.ssid, sets.active.auto>>), cmd.at)
      BY <1>5 DEF WriteNow, Uses
    <2> QED BY <1>1, <1>2, <1>5, <2>1, <2>2, NamedForActive
  <1>6. CASE There /\ cmd.op = "save" /\ cmd' = At(Named(c, <<sets.active.ssid, sets.active.auto>>), "FILEopen")
    BY <1>2, <1>4, <1>6, NamedForActive
  <1>7. CASE ~There /\ cmd.op # "save" /\ cmd' = NextName(cmd)
    BY <1>1, <1>7, NextNameFiles
  <1>8. CASE There /\ cmd.op # "save" /\ cmd' = NextName(c)
    BY <1>1, <1>4, <1>8, NextNameFiles
  <1> QED BY <1>1, <1>3, <1>4, <1>5, <1>6, <1>7, <1>8 DEF ExistsNot

LEMMA UnlinkFiles ==
  ASSUME RadioInv, FilesInv, cmd # NoCmd, Unlink, UNCHANGED sets
  PROVE  FilesInv'
  <1>1. /\ cmd \in Cmds /\ cmd.name \in Names /\ cmd.op \in {"save", "load", "delete"} /\ cmd.at = "FILEdelete"
        /\ <<cmd.net, FALSE>> \in Names /\ cmd.op # "load"
    BY InProgress DEF Unlink, FilesInv, Stages
  <1>2. files' = files \/ files' = [files EXCEPT ![cmd.name] = Absent]
    BY DEF Unlink, FileIs
  <1>3. files' \in [Names -> {Absent, Empty} \cup Contents] /\ FilesTrue'
    BY <1>1, <1>2, FilesStayTrue
  <1>4. PICK c : c = [cmd EXCEPT !.deleted = TRUE]
    OBVIOUS
  <1>5. /\ c \in Cmds /\ c.op = cmd.op /\ c.net = cmd.net /\ c.name = cmd.name /\ c.first = cmd.first
        /\ c.at = cmd.at /\ c.st = cmd.st /\ c.same = cmd.same
    BY <1>1, <1>4 DEF Cmds
  <1>6. CASE cmd' = Failed(cmd, "Done")
    BY <1>1, <1>3, <1>6, CommandFails
  <1>7. CASE FileIs(Absent) /\ cmd.op = "save" /\ WriteNow(c)
    <2>1. files' = [files EXCEPT ![cmd.name] = Absent]
      BY <1>7 DEF FileIs
    <2>2. cmd.same /\ cmd.st = "ok" => files'[OtherName(sets.active)] = Absent
      <3> SUFFICES ASSUME cmd.same, cmd.st = "ok" PROVE files'[OtherName(sets.active)] = Absent
        OBVIOUS
      <3>1. cmd.name = OtherName(sets.active)
        BY <1>1, <1>7 DEF FilesInv, Progress, SaveDone
      <3> QED BY <1>1, <2>1, <3>1, InProgress
    <2>3. \/ cmd' = At(Named(c, <<sets.active.ssid, sets.active.auto>>), "FILEopen")
          \/ cmd' = Failed(Named(c, <<sets.active.ssid, sets.active.auto>>), c.at)
      BY <1>7 DEF WriteNow, Uses
    <2> QED BY <1>1, <1>3, <1>5, <1>7, <2>2, <2>3, NamedForActive
  <1>8. CASE /\ FileIs(Absent) /\ cmd.op = "delete"
             /\ cmd' = IF c.first THEN At(Named(c, <<c.net, FALSE>>), "FILEexist") ELSE At(c, "Done")
    <2>1. /\ files'[cmd.name] = Absent
          /\ \A n \in Names : n # cmd.name => files'[n] = files[n]
      BY <1>1, <1>8, InProgress DEF FileIs
    <2>2. /\ cmd' \in Cmds /\ cmd'.op = "delete" /\ cmd'.net = cmd.net /\ cmd'.st = cmd.st /\ cmd'.same = cmd.same
          /\ \/ cmd.first /\ cmd'.name = <<cmd.net, FALSE>> /\ cmd'.at = "FILEexist"
             \/ ~cmd.first /\ cmd'.at = "Done"
      BY <1>1, <1>5, <1>8 DEF At, Named, Cmds
    <2>3. ClientTypes' /\ Stages'
      BY <1>3, <2>2 DEF ClientTypes, Stages
    <2>4. Progress'
      <3> SUFFICES ASSUME cmd.same, cmd.st = "ok" PROVE DeleteDone'
        BY <2>2 DEF Progress
      <3>1. DeleteDone
        BY <1>8 DEF FilesInv, Progress
      <3>2. <<cmd.net, TRUE>> \in Names
        BY InProgress
      <3>3. files'[<<cmd.net, TRUE>>] = Absent
        BY <1>1, <2>1, <3>1, <3>2 DEF DeleteDone
      <3>4. ~cmd.first => files'[<<cmd.net, FALSE>>] = Absent
        BY <1>1, <2>1, <3>1 DEF DeleteDone
      <3> QED BY <2>2, <3>3, <3>4 DEF DeleteDone
    <2> QED BY <1>3, <2>3, <2>4 DEF FilesInv
  <1> QED BY <1>1, <1>4, <1>6, <1>7, <1>8 DEF Unlink

LEMMA OpenFiles ==
  ASSUME RadioInv, FilesInv, cmd # NoCmd, Open, UNCHANGED sets
  PROVE  FilesInv'
  <1>1. /\ cmd \in Cmds /\ cmd.name \in Names /\ cmd.op \in {"save", "load"} /\ cmd.at = "FILEopen"
    BY InProgress DEF Open, FilesInv, Stages
  <1>2. files' = files \/ files' = [files EXCEPT ![cmd.name] = Empty]
    BY DEF Open, FileIs
  <1>3. files' \in [Names -> {Absent, Empty} \cup Contents] /\ FilesTrue'
    BY <1>1, <1>2, FilesStayTrue
  <1>4. CASE cmd' = Failed(cmd, "Done")
    BY <1>1, <1>3, <1>4, CommandFails
  <1>5. CASE cmd.op = "load" /\ cmd' = At(cmd, "FILEread") /\ files' = files
    <2>1. /\ cmd' \in Cmds /\ cmd'.op = "load" /\ cmd'.net = cmd.net /\ cmd'.name = cmd.name
          /\ cmd'.st = cmd.st /\ cmd'.same = cmd.same /\ cmd'.at = "FILEread"
      BY <1>1, <1>5 DEF At, Cmds
    <2>2. ClientTypes' /\ Stages'
      BY <1>1, <1>3, <1>5, <2>1 DEF ClientTypes, FilesInv, Stages, There
    <2>3. Progress'
      BY <1>1, <1>5, <2>1 DEF FilesInv, Progress, LoadDone, LoadName, Held
    <2> QED BY <1>3, <2>2, <2>3 DEF FilesInv
  <1>6. CASE cmd.op = "save" /\ cmd' = At(cmd, "FILEwrite") /\ files' = [files EXCEPT ![cmd.name] = Empty]
    <2>1. /\ cmd' \in Cmds /\ cmd'.op = "save" /\ cmd'.name = cmd.name
          /\ cmd'.st = cmd.st /\ cmd'.same = cmd.same /\ cmd'.at = "FILEwrite"
      BY <1>1, <1>6 DEF At, Cmds
    <2>2. ClientTypes' /\ Stages'
      BY <1>1, <1>3, <1>6, <2>1 DEF ClientTypes, FilesInv, Stages
    <2>3. Progress'
      <3> SUFFICES ASSUME cmd.st = "ok", cmd.same PROVE files'[OtherName(sets.active)] = Absent
        BY <2>1 DEF Progress, SaveDone
      <3>1. cmd.name = OwnName(sets.active) /\ files[OtherName(sets.active)] = Absent
        BY <1>1, <1>6 DEF FilesInv, Stages, Progress, SaveDone
      <3>2. OtherName(sets.active) # cmd.name /\ OtherName(sets.active) \in Names
        BY <1>6, <3>1, ActiveSet DEF FilesInv, Stages
      <3> QED BY <1>6, <3>1, <3>2, InProgress
    <2> QED BY <1>3, <2>2, <2>3 DEF FilesInv
  <1> QED BY <1>1, <1>4, <1>5, <1>6 DEF Open, FileIs

\* The file gets the active set, and says of it what is true.
LEMMA WriteFiles ==
  ASSUME RadioInv, FilesInv, cmd # NoCmd, Write
  PROVE  FilesInv'
  <1>1. /\ cmd \in Cmds /\ cmd.name \in Names /\ cmd.op = "save" /\ cmd.at = "FILEwrite" /\ UNCHANGED sets
        /\ files \in [Names -> {Absent, Empty} \cup Contents]
    BY InProgress DEF Write, KeepsSets, FilesInv, Stages
  <1>2. CASE files' = files /\ \E s \in {"FILEclose", "Done"} : cmd' = Failed(cmd, s)
    <2>1. files' \in [Names -> {Absent, Empty} \cup Contents] /\ FilesTrue'
      BY <1>2, FilesStayTrue
    <2> QED BY <1>1, <1>2, <2>1, CommandFails
  <1>3. CASE cmd' = At(cmd, "FILEclose") /\ FileIs(Saved([sets.active EXCEPT !.sure = @ /\ cmd.same]))
    <2>1. PICK x : x = Saved([sets.active EXCEPT !.sure = @ /\ cmd.same])
      OBVIOUS
    <2>2. /\ x \in Contents /\ x.type = sets.active.type /\ x.key = sets.active.key /\ x.auto = sets.active.auto
          /\ x.sure = (sets.active.sure /\ cmd.same)
      BY <1>1, <2>1, ActiveSet DEF Saved, ParamSets, Contents, Cmds
    <2>3. cmd.same => x = Saved(sets.active)
      BY <2>1, ActiveSet DEF Saved, ParamSets
    <2>4. /\ files' \in [Names -> {Absent, Empty} \cup Contents] /\ files'[cmd.name] = x
          /\ \A n \in Names : n # cmd.name => files'[n] = files[n]
      BY <1>1, <1>3, <2>1, <2>2 DEF FileIs
    <2>5. FilesTrue'
      <3>1. ASSUME x.sure
            PROVE  /\ Opens([ssid |-> cmd.name[1], type |-> x.type, key |-> x.key])
                   /\ x.auto = cmd.name[2]
        <4>1. sets.active.sure /\ cmd.same
          BY <2>2, <3>1
        <4>2. cmd.name = <<sets.active.ssid, sets.active.auto>>
          BY <1>1, <4>1 DEF FilesInv, Stages, OwnName
        <4>3. Opens(sets.active)
          BY <4>1 DEF RadioInv, ActiveSure
        <4> QED BY <2>2, <4>2, <4>3 DEF Opens
      <3> QED BY <2>4, <3>1 DEF FilesInv, FilesTrue
    <2>6. /\ cmd' \in Cmds /\ cmd'.op = "save" /\ cmd'.st = cmd.st /\ cmd'.same = cmd.same /\ cmd'.at = "FILEclose"
      BY <1>1, <1>3 DEF At, Cmds
    <2>7. ClientTypes' /\ Stages'
      BY <1>1, <2>4, <2>6 DEF ClientTypes, FilesInv, Stages
    <2>8. Progress'
      <3> SUFFICES ASSUME cmd.st = "ok", cmd.same
                   PROVE  /\ files'[OtherName(sets.active)] = Absent
                          /\ files'[OwnName(sets.active)] = Saved(sets.active)
        BY <1>1, <2>6 DEF Progress, SaveDone
      <3>1. cmd.name = OwnName(sets.active) /\ files[OtherName(sets.active)] = Absent /\ sets.active.ssid # None
        BY <1>1 DEF FilesInv, Stages, Progress, SaveDone
      <3>2. OtherName(sets.active) # cmd.name /\ OtherName(sets.active) \in Names
        BY <3>1, ActiveSet
      <3> QED BY <2>3, <2>4, <3>1, <3>2
    <2> QED BY <2>5, <2>7, <2>8 DEF FilesInv
  <1> QED BY <1>2, <1>3 DEF Write

\* The working set gets what is in the file.
LEMMA ReadFiles ==
  ASSUME RadioInv, FilesInv, cmd # NoCmd, Read
  PROVE  FilesInv'
  <1>1. /\ cmd \in Cmds /\ cmd.name \in Names /\ cmd.op = "load" /\ cmd.at = "FILEread" /\ UNCHANGED files /\ There
        /\ files \in [Names -> {Absent, Empty} \cup Contents]
    BY InProgress DEF Read, FilesInv, Stages
  <1>2. files' \in [Names -> {Absent, Empty} \cup Contents] /\ FilesTrue'
    BY <1>1, FilesStayTrue
  <1>3. CASE cmd' = Failed(cmd, "FILEclose")
    <2>1. /\ cmd' \in Cmds /\ cmd'.op = "load" /\ cmd'.st = "error" /\ cmd'.at = "FILEclose"
      BY <1>1, <1>3 DEF Failed, Cmds
    <2>2. ClientTypes' /\ Stages' /\ Progress'
      BY <1>2, <2>1 DEF ClientTypes, Stages, Progress
    <2> QED BY <1>2, <2>2 DEF FilesInv
  <1>4. CASE cmd' # Failed(cmd, "FILEclose")
    <2>1. PICK x : x = files[cmd.name]
      OBVIOUS
    <2>2. /\ x # Empty /\ cmd' = At(cmd, "FILEclose")
          /\ sets' = [sets EXCEPT !.working = [ssid |-> cmd.net, type |-> x.type, key |-> x.key, auto |-> x.auto,
                                               phrase |-> @.phrase, sure |-> x.sure]]
      BY <1>4, <2>1 DEF Read
    <2>3. x \in Contents
      BY <1>1, <2>1, <2>2 DEF There
    <2>4. /\ cmd' \in Cmds /\ cmd'.op = "load" /\ cmd'.net = cmd.net /\ cmd'.st = cmd.st /\ cmd'.same = cmd.same
          /\ cmd'.at = "FILEclose"
      BY <1>1, <2>2 DEF At, Cmds
    <2>5. ClientTypes' /\ Stages'
      BY <1>2, <2>4 DEF ClientTypes, Stages
    <2>6. Progress'
      <3> SUFFICES ASSUME cmd.st = "ok", cmd.same PROVE DidLoad'
        BY <2>4 DEF Progress, LoadDone
      <3>1. cmd.name = <<cmd.net, TRUE \in Held(cmd.net)>>
        BY <1>1 DEF FilesInv, Progress, LoadDone, LoadName
      <3>2. PICK w : w = sets'.working
        OBVIOUS
      <3>3. w.ssid = cmd.net /\ w.type = x.type /\ w.key = x.key /\ w.auto = x.auto /\ w.sure = x.sure
        <4>1. "working" \in DOMAIN sets
          BY DEF RadioInv, RadioTypes, SetNames
        <4> QED BY <2>2, <3>2, <4>1
      <3>4. Saved(w) = x
        BY <2>3, <3>3 DEF Saved, Contents
      <3>5. Held(cmd.net)' = Held(cmd.net)
        BY <1>1, <2>4 DEF Held
      <3>6. (TRUE \in Held(cmd.net))' = (TRUE \in Held(cmd.net)) /\ cmd'.net = cmd.net
        BY <2>4, <3>5
      <3>7. <<w.ssid, TRUE \in Held(cmd.net)>> = cmd.name
        BY <3>1, <3>3
      <3>8. files'[<<w.ssid, TRUE \in Held(cmd.net)>>] = Saved(w)
        BY <1>1, <2>1, <3>4, <3>7
      <3> QED BY <3>2, <3>3, <3>5, <3>6, <3>8 DEF DidLoad
    <2> QED BY <1>2, <2>5, <2>6 DEF FilesInv
  <1> QED BY <1>3, <1>4

LEMMA CloseFiles ==
  ASSUME RadioInv, FilesInv, cmd # NoCmd, Close, UNCHANGED sets
  PROVE  FilesInv'
  <1>1. cmd \in Cmds /\ cmd.at = "FILEclose" /\ UNCHANGED files /\ cmd.op \in {"save", "load"}
    BY InProgress DEF Close, FilesInv, Stages
  <1>2. files' \in [Names -> {Absent, Empty} \cup Contents] /\ FilesTrue'
    BY <1>1, FilesStayTrue
  <1>3. CASE cmd' = Failed(cmd, "Done")
    BY <1>1, <1>2, <1>3, CommandFails
  <1>4. CASE cmd' = At(cmd, "Done")
    <2>1. /\ cmd' \in Cmds /\ cmd'.op = cmd.op /\ cmd'.net = cmd.net /\ cmd'.st = cmd.st /\ cmd'.same = cmd.same
          /\ cmd'.at = "Done"
      BY <1>1, <1>4 DEF At, Cmds
    <2>2. ClientTypes' /\ Stages'
      BY <1>1, <1>2, <2>1 DEF ClientTypes, FilesInv, Stages
    <2>3. Progress'
      BY <1>1, <2>1 DEF FilesInv, Progress, SaveDone, LoadDone, DidLoad, Held
    <2> QED BY <1>2, <2>2, <2>3 DEF FilesInv
  <1> QED BY <1>3, <1>4 DEF Close

\* No command, or one that begins.
LEMMA NoneFiles ==
  ASSUME FilesInv, cmd' = NoCmd, UNCHANGED files
  PROVE  FilesInv'
  <1>1. files' \in [Names -> {Absent, Empty} \cup Contents] /\ FilesTrue'
    BY FilesStayTrue
  <1> QED BY <1>1 DEF FilesInv, ClientTypes, Stages, Progress

LEMMA BeginsFiles ==
  ASSUME RadioInv, FilesInv, Begins
  PROVE  FilesInv'
  <1>1. UNCHANGED <<files, sets>>
    BY DEF Begins, Save, Load, Delete, Begin
  <1>2. files' \in [Names -> {Absent, Empty} \cup Contents] /\ FilesTrue'
    BY <1>1, FilesStayTrue
  <1>3. CASE Save
    <2>1. PICK n : n = OtherName(sets.active)
      OBVIOUS
    <2>2. sets.active.ssid # None /\ sets.active.ssid \in Nets /\ n \in Names /\ cmd' = Cmd("save", sets.active.ssid, n)
      BY <1>3, <2>1, ActiveSet DEF Save, Begin, ParamSets, Networks
    <2>3. cmd' \in Cmds /\ cmd'.op = "save" /\ cmd'.at = "FILEexist" /\ cmd'.name = n
      BY <2>2 DEF Cmd, Cmds
    <2>4. ClientTypes' /\ Stages' /\ Progress'
      BY <1>1, <1>2, <2>1, <2>2, <2>3 DEF ClientTypes, Stages, Progress, SaveDone
    <2> QED BY <1>2, <2>4 DEF FilesInv
  <1>4. ASSUME NEW net \in Nets, Load(net) \/ Delete(net)
        PROVE  FilesInv'
    <2>1. PICK op \in {"load", "delete"} : cmd' = Cmd(op, net, <<net, TRUE>>)
      BY <1>4 DEF Load, Delete, Begin
    <2>2. cmd' \in Cmds /\ cmd'.op = op /\ cmd'.net = net /\ cmd'.at = "FILEexist" /\ cmd'.name = <<net, TRUE>>
          /\ cmd'.first
      BY <2>1 DEF Cmd, Cmds, Names
    <2>3. ClientTypes' /\ Stages' /\ Progress'
      BY <1>2, <2>2 DEF ClientTypes, Stages, Progress, LoadDone, DeleteDone
    <2> QED BY <1>2, <2>3 DEF FilesInv
  <1> QED BY <1>3, <1>4 DEF Begins

\* Nothing of the commands, the files and the sets.
LEMMA FilesStay == ASSUME FilesInv, UNCHANGED <<cmd, files, sets>> PROVE FilesInv'
  BY DEF FilesInv, ClientTypes, Stages, There, FilesTrue, Opens, Progress, SaveDone, LoadDone, LoadName, DidLoad,
         Held, DeleteDone

LEMMA JsonFiles == ASSUME RadioInv, FilesInv, NewCommand \/ CommandPass \/ NoPass PROVE FilesInv'
  <1> USE DEF Json
  <1>1. CASE NewCommand
    <2>1. CASE OnePass
      <3>1. cmd' = NoCmd /\ UNCHANGED files
        BY <1>1, <2>1 DEF NewCommand, OnePass, SetParam, WiFiScan, NicConnect, NicDisconnect, Answered
      <3> QED BY <3>1, NoneFiles
    <2>2. CASE Begins
      BY <2>2, BeginsFiles
    <2> QED BY <1>1, <2>1, <2>2 DEF NewCommand
  <1>2. CASE CommandPass
    <2>1. cmd # NoCmd /\ Pass
      BY <1>2 DEF CommandPass
    <2>2. CASE Answer
      BY <2>2, NoneFiles DEF Answer
    <2> QED BY <2>1, <2>2, ExistsFiles, ExistsNotFiles, UnlinkFiles, OpenFiles, WriteFiles, ReadFiles, CloseFiles
            DEF Pass, KeepsSets
  <1>3. CASE NoPass
    <2>1. UNCHANGED <<cmd, files, sets>>
      BY <1>3 DEF NoPass, client
    <2> QED BY <2>1, FilesStay
  <1> QED BY <1>1, <1>2, <1>3

\* The active set goes on naming a network.
LEMMA ActiveNamed ==
  ASSUME RadioInv, Deferred, sets.active.ssid # None
  PROVE  sets'.active.ssid # None
  <1>1. CASE sets' = sets
    BY <1>1
  <1>2. CASE sets' # sets
    <2>1. tasks # <<>> /\ Head(tasks).do = "connect" /\ (CalPSKDone \/ SetupPass)
      BY <1>2 DEF Deferred, task, ConnectTask, InUse, ConnectIdle, CalPSKWaits, ConnectPass, LinkedPass, DisconnectPass,
                  DisconnectTask, ScanTask
    <2>2. Which \in SetNames /\ Wifi \in ParamSets /\ BeingConnected(Which) /\ sets \in [SetNames -> ParamSets]
      BY <2>1, HeadTask DEF RadioInv, RadioTypes
    <2>3. Wifi.ssid # None
      BY <2>2 DEF RadioInv, InTurn, Wifi
    <2>4. CASE CalPSKDone
      <3>1. PICK k : sets' = [sets EXCEPT ![Which] = WithKey(@, k)]
        BY <2>4 DEF CalPSKDone
      <3>2. PICK p : p = WithKey(Wifi, k)
        OBVIOUS
      <3>3. p.ssid = Wifi.ssid
        BY <2>2, <3>2 DEF WithKey, ParamSets
      <3>4. sets' = [sets EXCEPT ![Which] = p]
        BY <3>1, <3>2 DEF Wifi
      <3>5. sets'["active"] = IF Which = "active" THEN p ELSE sets["active"]
        BY <2>2, <3>4 DEF SetNames
      <3> QED BY <2>3, <3>3, <3>5
    <2>5. CASE SetupPass
      <3>1. sets' = MadeActive(sets, Which)
        BY <1>2, <2>5 DEF SetupPass
      <3>2. PICK p : p = [Wifi EXCEPT !.sure = alone /\ ~careless]
        OBVIOUS
      <3>3. p.ssid = Wifi.ssid
        BY <2>2, <3>2 DEF ParamSets
      <3>4. sets'["active"] = p
        BY <2>2, <3>1, <3>2 DEF MadeActive, SetNames, Wifi
      <3> QED BY <2>3, <3>3, <3>4
    <2> QED BY <2>1, <2>4, <2>5
  <1> QED BY <1>1, <1>2

LEMMA DeferredFiles == ASSUME RadioInv, FilesInv, Deferred PROVE FilesInv'
  <1>1. UNCHANGED files /\ cmd' = IF cmd # NoCmd /\ sets' # sets THEN [cmd EXCEPT !.same = FALSE] ELSE cmd
    BY DEF Deferred
  <1>2. CASE cmd = NoCmd
    BY <1>1, <1>2, NoneFiles
  <1>3. CASE cmd # NoCmd /\ sets' = sets
    BY <1>1, <1>3, FilesStay
  <1>4. CASE cmd # NoCmd /\ sets' # sets
    <2>1. files' \in [Names -> {Absent, Empty} \cup Contents] /\ FilesTrue'
      BY <1>1, FilesStayTrue
    <2>2. cmd \in Cmds
      BY <1>4, InProgress
    <2>3. /\ cmd' \in Cmds /\ cmd'.op = cmd.op /\ cmd'.at = cmd.at /\ cmd'.name = cmd.name /\ ~cmd'.same
      BY <1>1, <1>4, <2>2 DEF Cmds
    <2>4. cmd.op = "save" => sets'.active.ssid # None
      BY <1>4, ActiveNamed DEF FilesInv, Stages
    <2>5. ClientTypes' /\ Progress'
      BY <2>1, <2>3 DEF ClientTypes, Progress
    <2>6. Stages'
      BY <1>1, <1>4, <2>3, <2>4 DEF FilesInv, Stages, There
    <2> QED BY <2>1, <2>5, <2>6 DEF FilesInv
  <1> QED BY <1>2, <1>3, <1>4

LEMMA NextFiles == ASSUME RadioInv, FilesInv, [Next]_vars PROVE FilesInv'
  <1>1. CASE Http \/ HttpRests \/ ChipAnswers \/ ChipIsQuiet \/ LinkDrops \/ UNCHANGED vars
    <2>1. UNCHANGED <<cmd, files, sets>>
      BY <1>1 DEF Http, HttpRests, ChipAnswers, ChipIsQuiet, LinkDrops, Chip, vars, task, client
    <2> QED BY <2>1, FilesStay
  <1> QED BY <1>1, DeferredFiles, JsonFiles DEF Next

LEMMA InitFiles == Init => FilesInv
  <1> SUFFICES ASSUME Init PROVE FilesInv
    OBVIOUS
  <1>1. cmd = NoCmd /\ files = [f \in Names |-> IF f \in Found THEN KeyFile(f[1], f[2]) ELSE Absent]
    BY DEF Init
  <1>2. ASSUME NEW f \in Names
        PROVE  /\ KeyFile(f[1], f[2]) \in Contents
               /\ Opens([ssid |-> f[1], type |-> "key", key |-> f[1]])
    BY DEF KeyFile, Contents, Types, Networks, Names, Opens
  <1>3. files \in [Names -> {Absent, Empty} \cup Contents]
    BY <1>1, <1>2
  <1>4. FilesTrue
    BY <1>1, <1>2 DEF FilesTrue, KeyFile
  <1> QED BY <1>1, <1>3, <1>4 DEF FilesInv, ClientTypes, Stages, Progress

-----------------------------------------------------------------------------
(* What holds.                                                             *)

LEMMA WiFiInv == Spec => [](RadioInv /\ FilesInv)
  <1>1. Init => RadioInv /\ FilesInv
    BY InitRadio, InitFiles
  <1>2. RadioInv /\ FilesInv /\ [Next]_vars => (RadioInv /\ FilesInv)'
    BY NextRadio, NextFiles DEF FilesInv
  <1> QED BY <1>1, <1>2, PTL DEF Spec

\* Every variable keeps the values the program gives it.
THEOREM WiFiTypes == Spec => [](RadioTypes /\ ClientTypes)
  <1>1. RadioInv /\ FilesInv => RadioTypes /\ ClientTypes
    BY DEF RadioInv, FilesInv
  <1> QED BY <1>1, WiFiInv, PTL

\* A set that was made active by a connection begun with the server off and the radio
\* idle keeps no passphrase, the link is to its network while it is running, and a file
\* saved from it opens the network it is named for (DeferredTasks.cpp:251,
\* ProcessServer.cpp:225, Parse.cpp:1852, 1891).
THEOREM NetworksTrue == Spec => []SetsTrue
  <1>1. RadioInv => ActiveTrue
    <2> SUFFICES ASSUME RadioInv, sets.active.sure
                 PROVE  /\ sets.active.phrase = "none" /\ sets.active.type # "phrase"
                        /\ lastErr = "Running" => link.at = sets.active.ssid
      BY DEF ActiveTrue
    <2>1. sets.active.phrase = "none" /\ Opens(sets.active) /\ (lastErr = "Running" => link.at = sets.active.ssid)
      BY DEF RadioInv, ActiveSure
    <2> QED BY <2>1 DEF Opens
  <1>2. RadioInv /\ FilesInv => SetsTrue
    BY <1>1 DEF FilesInv, SetsTrue
  <1> QED BY <1>2, WiFiInv, PTL

\* A save, a load or a delete that nothing came in the way of and that answers without an
\* error left the files and the sets as it was told to (Parse.cpp:1852, 2075, 2259).
THEOREM CommandsDone == Spec => []DoneAsTold
  <1>1. ASSUME RadioInv, FilesInv, cmd # NoCmd, cmd.at = "Done", cmd.st = "ok", cmd.same
        PROVE  Did
    <2>1. cmd.op \in {"save", "load", "delete"}
      BY <1>1, InProgress
    <2>2. CASE cmd.op = "save"
      <3>1. PICK p : p = sets.active
        OBVIOUS
      <3>2. /\ files[OtherName(p)] = Absent /\ files[OwnName(p)] = Saved(p)
            /\ p \in ParamSets
        BY <1>1, <2>2, <3>1, ActiveSet DEF FilesInv, Progress, SaveDone
      <3>3. p.auto \in BOOLEAN /\ p.type \in Types
        BY <3>2 DEF ParamSets
      <3>4. Saved(p).type = p.type /\ Absent.type = "no file" /\ p.type # "no file"
        BY <3>3 DEF Saved, Absent, Types
      <3>5. Held(p.ssid) = {p.auto}
        <4>1. ASSUME NEW a \in BOOLEAN PROVE files[<<p.ssid, a>>] # Absent <=> a = p.auto
          <5>1. CASE a = p.auto
            BY <3>2, <3>4, <5>1 DEF OwnName
          <5>2. CASE a # p.auto
            <6>1. a = ~p.auto
              BY <3>3, <5>2
            <6> QED BY <3>2, <5>2, <6>1 DEF OtherName
          <5> QED BY <5>1, <5>2
        <4> QED BY <3>3, <4>1 DEF Held
      <3> QED BY <2>2, <3>1, <3>2, <3>5 DEF Did, DidSave, OwnName
    <2>3. CASE cmd.op = "load"
      BY <1>1, <2>3 DEF FilesInv, Progress, LoadDone, Did
    <2>4. CASE cmd.op = "delete"
      BY <1>1, <2>4 DEF FilesInv, Progress, DeleteDone, Did, Held
    <2> QED BY <2>1, <2>2, <2>3, <2>4
  <1>2. RadioInv /\ FilesInv => DoneAsTold
    BY <1>1 DEF DoneAsTold
  <1> QED BY <1>2, WiFiInv, PTL

=============================================================================
