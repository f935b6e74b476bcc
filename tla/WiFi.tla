-------------------------------- MODULE WiFi --------------------------------
(***************************************************************************)
(* Connecting to a network and keeping its parameters.  The client sets    *)
(* up the working set of parameters, by hand or from a file, asks for a    *)
(* connection with the working or the active set, and saves the active set *)
(* (the nic and wifi commands of Parse.cpp).  Deferred tasks connect,      *)
(* disconnect and scan (DeferredTasks.cpp, WiFi.cpp); when a connection is *)
(* made the set becomes the active one.  The HTTP server is enabled with   *)
(* it, and connects again by itself when it loses the link                 *)
(* (ProcessServer.cpp).                                                    *)
(*                                                                         *)
(* The super loop calls the deferred task, the server, the network stack   *)
(* (where the events of the chip arrive) and the JSON command in this      *)
(* order; one step is one of these calls.                                  *)
(***************************************************************************)
EXTENDS Integers, Sequences, WifiLink

CONSTANTS
  Nets,         \* networks, by their SSID
  OpenNets,     \* those that need no key
  Given,        \* parameters a client may set: ssid, type, phrase, auto
  Found,        \* saved parameters that are there from earlier, by their names
  MaxTasks,     \* bound: tasks queued
  MaxCmds,      \* bound: JSON commands
  MaxMishaps    \* bound: links dropped, timeouts, calls that fail

ASSUME WiFiAssumption ==
  /\ None \notin Nets /\ OpenNets \subseteq Nets
  /\ Given \subseteq [ssid : Nets, type : {"open", "phrase"}, phrase : {"right", "wrong"}, auto : BOOLEAN]
  /\ Found \subseteq Nets \X BOOLEAN
  /\ MaxTasks \in Nat /\ MaxCmds \in Nat /\ MaxMishaps \in Nat

VARIABLES
  turn,      \* whom the super loop calls next
  link,      \* the radio, see WifiLink
  http,      \* HTTPState
  srv,       \* state of ProcessServer
  sets,      \* wifiActive and wifiWorking
  lastErr,   \* wifiActive.lastErrState
  tasks,     \* defTask
  con,       \* curState of WiFiConnect
  scn,       \* curState of WiFiScan
  cmd,       \* the JSON command that takes several passes
  files,     \* the saved parameters on the volume
  cmds, mishaps,
  alone,     \* history: the connection was begun with the server off and the chip idle
  careless,  \* history: the client changed a set while it was being connected, or
             \* set one without a passphrase over one that has one
  trap       \* the ASSERT that stopped the firmware, or "none"

vars == <<turn, link, http, srv, sets, lastErr, tasks, con, scn, cmd, files, cmds, mishaps,
          alone, careless, trap>>
client == <<cmd, files, cmds, careless>>
task   == <<tasks, con, scn, lastErr, sets, alone>>
server == <<http, srv>>

Turns == <<"deferred", "http", "chip", "json">>
Names == Nets \X BOOLEAN             \* <ssid>.WF0 and <ssid>.WF1, the latter to connect by itself
NoSet == [ssid |-> None, type |-> "open", key |-> None, auto |-> FALSE, phrase |-> "none", sure |-> FALSE]
NoCmd == [op |-> "none"]

\* Whether a network takes these parameters; key is the SSID the key was made for
\* with the right passphrase.
Opens(p) == IF p.type = "open" THEN p.ssid \in OpenNets ELSE p.type = "key" /\ p.key = p.ssid

\* What is written to a file: the set up to lastErrState, without SSID and passphrase.
Saved(p) == [type |-> p.type, key |-> p.key, auto |-> p.auto, sure |-> p.sure]
Absent == [type |-> "no file"]
Empty  == [type |-> "nothing"]
KeyFile(n, a) == [type |-> "key", key |-> n, auto |-> a, sure |-> TRUE]

\* The UI loop begins with nothing connected; files may be there from earlier.
Init ==
  /\ turn = "deferred"
  /\ link = Initialized /\ http = "Idle" /\ srv = "DYNAMICIPBEGIN"
  /\ sets = [active |-> NoSet, working |-> NoSet] /\ lastErr = "Idle"
  /\ tasks = <<>> /\ con = "Idle" /\ scn = "Idle" /\ cmd = NoCmd
  /\ files = [f \in Names |-> IF f \in Found THEN KeyFile(f[1], f[2]) ELSE Absent]
  /\ cmds = 0 /\ mishaps = 0
  /\ alone = TRUE /\ careless = FALSE /\ trap = "none"

Call(who, next) == trap = "none" /\ turn = who /\ turn' = next
Mishap == mishaps < MaxMishaps /\ mishaps' = mishaps + 1
Fine   == UNCHANGED mishaps

\* Whether the chip takes a request.
Takes(taken) == IF taken THEN Fine ELSE Mishap

\* ASSERT(c)
Assert(c, what) == trap' = IF c THEN "none" ELSE what

-----------------------------------------------------------------------------
(* The deferred task at the head of the queue, DEFTask::PeriodicTasks.     *)

Which == Head(tasks).set
Wifi  == sets[Which]

\* What case WIFIConnect makes of the state WiFiConnect returns.
Goes(s)   == con' = s /\ lastErr' = "Working" /\ UNCHANGED tasks
Fails     == con' = "Idle" /\ lastErr' = "error" /\ tasks' = Tail(tasks)

\* HTTPEnable(false); HTTPEnable(true), once HTTPSetup is done
HttpOff == http' = (IF http = "Idle" THEN "Idle" ELSE "Done") /\ UNCHANGED srv
HttpOn  == http' = "HTTPEnabled" /\ srv' = IF http = "HTTPEnabled" THEN srv ELSE "DYNAMICIPBEGIN"

\* WiFiDisconnect, which is called until it is done.
WiFiDisconnect(done, waits) ==
  LET r == WfDisconnect(link) IN
  /\ HttpOff
  /\ \/ r.st = "ok" /\ link' = IPEnd(r.link) /\ done
     \/ r.st # "ok" /\ link' = r.link /\ waits

\* "can't connect if active"
InUse ==
  /\ lastErr # "Working" /\ IsLinked(link)
  /\ lastErr' = "error" /\ tasks' = Tail(tasks)
  /\ UNCHANGED <<con, sets, alone, link, server, mishaps, trap>>

ConnectIdle ==
  /\ con = "Idle"
  /\ Goes(IF Wifi.type = "phrase" THEN "WIFICalPSK" ELSE "WIFIConnect")
  /\ alone' = (http # "HTTPEnabled" /\ ~Busy(link))
  /\ Assert(Wifi.type = "phrase" => Wifi.phrase # "none", "no passphrase")
  /\ UNCHANGED <<sets, link, server, mishaps>>

\* The passphrase is made a key and not kept.  A set that is changed meanwhile may
\* leave a mixture of two keys.
WithKey(p, k) == [p EXCEPT !.type = "key", !.key = k, !.phrase = "none"]
Keys(p) == {IF p.phrase = "right" THEN p.ssid ELSE None} \cup (IF careless THEN {None} ELSE {})
CalPSKDone ==
  /\ con = "WIFICalPSK" /\ Goes("WIFIConnect")
  /\ \E k \in Keys(Wifi) : sets' = [sets EXCEPT ![Which] = WithKey(@, k)]
  /\ UNCHANGED <<alone, link, server, mishaps, trap>>
CalPSKWaits ==
  /\ con = "WIFICalPSK" /\ Goes("WIFICalPSK")
  /\ UNCHANGED <<sets, alone, link, server, mishaps, trap>>

ConnectPass(taken) ==
  LET r == WfConnect(link, Wifi.ssid, Opens(Wifi), taken) IN
  /\ con = "WIFIConnect"
  /\ IF Wifi.type = "phrase"
     THEN Assert(FALSE, "no such type") /\ Goes("WIFIConnect") /\ UNCHANGED link
     ELSE /\ link' = r.link /\ UNCHANGED trap
          /\ \/ r.st = "error" /\ ~Connected(r) /\ Fails
             \/ r.st = "error" /\ Connected(r)  /\ Goes("WIFIDisconnect")
             \/ r.st # "error" /\ Goes(IF Connected(r) THEN "WIFIConnectLinked" ELSE "WIFIConnect")
  /\ Takes(taken)
  /\ UNCHANGED <<sets, alone, server>>

LinkedOrWaits == IF IsLinked(link) THEN "WIFIConnectSetupHTTP" ELSE con   \* mutant: the status is not looked at
LinkedOrLost ==
  CASE IsLinked(link)                                 -> "WIFIConnectSetupHTTP"
    [] ~IsLinked(link) /\ LinkStatus(link) = "error" -> "WIFIDisconnect"
    [] ~IsLinked(link) /\ LinkStatus(link) # "error" -> con
LinkedPass ==
  /\ con = "WIFIConnectLinked" /\ Goes(LinkedOrLost)
  /\ UNCHANGED <<sets, alone, link, server, mishaps, trap>>

\* The set that was connected becomes the active one.
WorkingActive(a, w) ==             \* mutant: whichever was connected
  [a EXCEPT !.active = [a.working EXCEPT !.sure = alone /\ ~careless]]
MadeActive(a, w) == [a EXCEPT !.active = [a[w] EXCEPT !.sure = alone /\ ~careless]]

SetupPass ==
  /\ con = "WIFIConnectSetupHTTP"
  /\ \/ http = "Idle" /\ http' = "Done" /\ srv' = "DYNAMICIPBEGIN" /\ Goes(con) /\ UNCHANGED sets
     \/ /\ http # "Idle" /\ HttpOn
        /\ con' = "Idle" /\ lastErr' = "Running" /\ tasks' = Tail(tasks)
        /\ sets' = MadeActive(sets, Which)
  /\ UNCHANGED <<alone, link, mishaps, trap>>

DisconnectPass ==
  /\ con = "WIFIDisconnect"
  /\ WiFiDisconnect(Fails, Goes(con))
  /\ UNCHANGED <<sets, alone, mishaps, trap>>

ConnectTask ==
  \/ InUse
  \/ /\ ~(lastErr # "Working" /\ IsLinked(link))
     /\ \/ ConnectIdle \/ CalPSKDone \/ CalPSKWaits \/ LinkedPass \/ SetupPass \/ DisconnectPass
        \/ \E taken \in BOOLEAN : ConnectPass(taken)

DisconnectTask ==
  /\ WiFiDisconnect(lastErr' = "Idle" /\ tasks' = Tail(tasks), UNCHANGED <<lastErr, tasks>>)
  /\ UNCHANGED <<con, sets, alone, mishaps, trap>>

\* WiFiScan; the number of networks found is not kept here.
ScanTask ==
  /\ \/ /\ scn = "Idle" /\ UNCHANGED <<link, mishaps>>
        /\ IF IsLinked(link) THEN tasks' = Tail(tasks) /\ UNCHANGED scn
           ELSE scn' = "WIFIScan" /\ UNCHANGED tasks
     \/ /\ scn = "WIFIScan"
        /\ \E taken \in BOOLEAN : LET r == WfScan(link, taken) IN
             /\ link' = r.link /\ Takes(taken)
             /\ IF r.st = "pending" THEN UNCHANGED <<scn, tasks>>
                ELSE scn' = "Idle" /\ tasks' = Tail(tasks)
  /\ UNCHANGED <<con, lastErr, sets, alone, server, trap>>

Deferred ==
  /\ Call("deferred", "http")
  /\ IF tasks = <<>> THEN UNCHANGED <<task, link, server, mishaps, trap>>
     ELSE LET do == Head(tasks).do IN
          \/ do = "connect" /\ ConnectTask /\ UNCHANGED scn
          \/ do = "disconnect" /\ DisconnectTask /\ UNCHANGED scn
          \/ do = "scan" /\ ScanTask
  /\ cmd' = IF cmd # NoCmd /\ sets' # sets THEN [cmd EXCEPT !.same = FALSE] ELSE cmd
  /\ UNCHANGED <<files, cmds, careless>>

-----------------------------------------------------------------------------
(* HTTPTask: ProcessServer while it is enabled.  RESTARTREST, SHUTDOWN and *)
(* ERROR only lead to WIFIDISCONNECT, and what listens is CHECKING.        *)

Restart == srv' = "WIFIDISCONNECT"

BeginPass == srv = "DYNAMICIPBEGIN" /\ link' = IPBegin(link) /\ srv' = "LINKED"

\* Waits for the link and for its address.
WaitPass ==
  /\ srv \in {"LINKED", "INITIALIZE"} /\ UNCHANGED link
  /\ \/ IsLinked(link) /\ srv' \in {"INITIALIZE"} \cup (IF srv = "INITIALIZE" THEN {"CHECKING"} ELSE {})
     \/ ~IsLinked(link) /\ IF LinkStatus(link) = "error" THEN Restart ELSE UNCHANGED srv

\* Whether nothing listens any more is up to the network.
CheckPass ==
  /\ srv = "CHECKING" /\ UNCHANGED link
  /\ \/ UNCHANGED srv
     \/ LinkStatus(link) = "error" /\ Restart

ShutPass == LET r == WfDisconnect(link) IN
  /\ srv = "WIFIDISCONNECT"
  /\ IF r.st = "ok" THEN link' = IPEnd(r.link) /\ srv' = "RESTFORAWHILE"
     ELSE link' = r.link /\ UNCHANGED srv

RestPass == srv = "RESTFORAWHILE" /\ srv' = "WIFICONNECT" /\ UNCHANGED link

ReconnectPass(taken) == LET p == sets.active
                            r == WfConnect(link, p.ssid, Opens(p), taken) IN
  /\ srv = "WIFICONNECT" /\ p.type # "phrase"
  /\ link' = r.link
  /\ CASE r.st = "error"                      -> Restart
       [] r.st # "error" /\ Connected(r)      -> srv' = "DYNAMICIPBEGIN"
       [] r.st # "error" /\ ~Connected(r)     -> UNCHANGED srv

\* Any of its waits may time out but the rest.
TimeOut == srv \in {"LINKED", "INITIALIZE", "CHECKING", "WIFICONNECT"} /\ Restart /\ UNCHANGED link

Http ==
  /\ Call("http", "chip")
  /\ IF http # "HTTPEnabled" THEN UNCHANGED <<srv, link, mishaps, trap>>
     ELSE \/ (BeginPass \/ WaitPass \/ CheckPass \/ ShutPass \/ RestPass) /\ UNCHANGED <<mishaps, trap>>
          \/ \E taken \in BOOLEAN : ReconnectPass(taken) /\ Takes(taken) /\ UNCHANGED trap
          \/ TimeOut /\ Mishap /\ UNCHANGED trap
          \/ /\ srv = "WIFICONNECT" /\ Assert(sets.active.type # "phrase", "no such type")
             /\ sets.active.type = "phrase" /\ UNCHANGED <<srv, link, mishaps>>
  /\ UNCHANGED <<task, client, http>>

\* The pause takes 30 to 60 s, and the way to WIFIDISCONNECT a pass or two.
HttpRests ==
  /\ Call("http", "chip") /\ http = "HTTPEnabled" /\ srv \in {"RESTFORAWHILE", "WIFIDISCONNECT"}
  /\ UNCHANGED <<task, client, server, link, mishaps, trap>>

-----------------------------------------------------------------------------
(* DEIPcK::periodicTasks: what the chip has to say.                        *)

Chip(l) ==
  /\ Call("chip", "json") /\ link' = l
  /\ UNCHANGED <<task, client, server, trap>>

ChipAnswers == \E l \in Answers(link) : Chip(l) /\ Fine
ChipIsQuiet == Chip(link) /\ Fine
LinkDrops   == link.up /\ Chip(Dropped(link)) /\ Mishap

-----------------------------------------------------------------------------
(* A JSON command that is done in one pass.                                *)

Answered == UNCHANGED <<cmd, files, trap, mishaps>>
Queue(list) == Len(tasks) + Len(list) <= MaxTasks /\ tasks' = tasks \o list
Task(do, set) == [do |-> do, set |-> set]
Forced(force) == IF force THEN <<Task("disconnect", "active")>> ELSE <<>>

BeingConnected(set) == \E i \in DOMAIN tasks : tasks[i] = Task("connect", set)

SetParam(p) ==
  /\ sets' = [sets EXCEPT !.working.ssid = p.ssid, !.working.type = p.type, !.working.auto = p.auto,
                          !.working.phrase = IF p.type = "phrase" THEN p.phrase ELSE @]
  /\ careless' = (careless \/ BeingConnected("working") \/ (p.type = "open" /\ sets.working.phrase # "none"))
  /\ UNCHANGED tasks /\ Answered

\* A command that is refused changes nothing.
NicConnect(which, force) ==
  /\ sets[which].ssid # None /\ (force \/ ~IsLinked(link))
  /\ Queue(Forced(force) \o <<Task("connect", which)>>)
  /\ UNCHANGED <<sets, careless>> /\ Answered

NicDisconnect ==
  /\ IsLinked(link) /\ Queue(Forced(TRUE))
  /\ UNCHANGED <<sets, careless>> /\ Answered

WiFiScan(force) ==
  /\ force \/ ~IsLinked(link)
  /\ Queue(Forced(force) \o <<Task("scan", "active")>>)
  /\ UNCHANGED <<sets, careless>> /\ Answered

-----------------------------------------------------------------------------
(* A JSON command that takes several passes.  Its path is a pointer into   *)
(* the file table, where SetUsage leaves the path it was last given; that  *)
(* other callers of SetUsage stay away meanwhile is assumed here.          *)
(*                                                                         *)
(*   net      the SSID of a load or a delete                               *)
(*   name     rgpv[7], or the file in use once it is WRITING               *)
(*   first    rgu32[7] of a load or a delete, the first name is tried      *)
(*   deleted  rgu32[6], a file was deleted                                 *)
(*   st       statusCode                                                   *)
(*   same     history: no deferred task changed a set meanwhile and no    *)
(*            error of fsexists was taken for a file that is not there     *)

Cmd(op, net, name) == [op |-> op, at |-> "FILEexist", net |-> net, name |-> name,
                       first |-> TRUE, deleted |-> FALSE, st |-> "ok", same |-> TRUE]
Begin(c) == cmd' = c /\ UNCHANGED <<tasks, sets, careless, files, mishaps>>

OwnName(p)   == <<p.ssid, p.auto>>      \* mutant: the file to write is deleted
OtherName(p) == <<p.ssid, ~p.auto>>
Save == LET p == sets.active IN
  /\ p.ssid # None /\ lastErr # "error"
  /\ Assert(p.phrase = "none", "passphrase in the clear")
  /\ Begin(Cmd("save", p.ssid, OtherName(p)))
Load(n)   == Begin(Cmd("load", n, <<n, TRUE>>)) /\ UNCHANGED trap
Delete(n) == Begin(Cmd("delete", n, <<n, TRUE>>)) /\ UNCHANGED trap

At(c, s)   == [c EXCEPT !.at = s]
Failed(c, s) == [c EXCEPT !.at = s, !.st = "error"]
Named(c, n)  == [c EXCEPT !.name = n]

There == files[cmd.name] # Absent
FileIs(x) == files' = [files EXCEPT ![cmd.name] = x]
KeepsSets == UNCHANGED <<sets, careless, tasks>>

\* SetUsage, which leaves its path in the buffer whether it succeeds or not.
Uses(c, ok, failed) == \/ cmd' = ok /\ Fine
                       \/ cmd' = failed /\ Mishap

\* fsexists finds the file.
Exists ==
  /\ cmd.at = "FILEexist" /\ There
  /\ Uses(cmd, At(cmd, IF cmd.op = "load" THEN "FILEopen" ELSE "FILEdelete"), Failed(cmd, "Done"))
  /\ UNCHANGED files

\* The file to write is named for the set that is active now.
WriteNow(c) == LET t == Named(c, <<sets.active.ssid, sets.active.auto>>) IN
  Uses(c, At(t, "FILEopen"), Failed(t, c.at))

NextName(c) ==
  IF c.first THEN Named([c EXCEPT !.first = FALSE], <<c.net, FALSE>>)
  ELSE IF c.op = "delete" /\ c.deleted THEN At(c, "Done") ELSE Failed(c, "Done")

\* It does not, or fails: any error is taken for that.
ExistsNot ==
  /\ cmd.at = "FILEexist"
  /\ \/ ~There /\ IF cmd.op = "save" THEN WriteNow(cmd) ELSE cmd' = NextName(cmd) /\ Fine
     \/ LET c == [cmd EXCEPT !.same = FALSE] IN
        There /\ Mishap /\ cmd' = IF c.op = "save" THEN At(Named(c, <<sets.active.ssid, sets.active.auto>>), "FILEopen")
                                   ELSE NextName(c)
  /\ UNCHANGED files

Unlink == LET c == [cmd EXCEPT !.deleted = TRUE] IN
  /\ cmd.at = "FILEdelete"
  /\ \/ /\ There /\ FileIs(Absent)
        /\ IF c.op = "save" THEN WriteNow(c)
           ELSE Fine /\ cmd' = IF c.first THEN At(Named(c, <<c.net, FALSE>>), "FILEexist") ELSE At(c, "Done")
     \/ ~There /\ Fine /\ cmd' = Failed(cmd, "Done") /\ UNCHANGED files
     \/ There /\ Mishap /\ cmd' = Failed(cmd, "Done") /\ UNCHANGED files

Open ==
  /\ cmd.at = "FILEopen"
  /\ \/ /\ Fine
        /\ cmd' = At(cmd, IF cmd.op = "save" THEN "FILEwrite" ELSE "FILEread")
        /\ IF cmd.op = "save" THEN FileIs(Empty) ELSE UNCHANGED files
     \/ Mishap /\ cmd' = Failed(cmd, "Done") /\ UNCHANGED files

\* FILEseek with the transfer behind it.  After a short write the file is taken
\* out of the table while it is open, which is an ASSERT.
Write ==
  /\ cmd.at = "FILEwrite" /\ KeepsSets
  /\ \/ /\ cmd' = At(cmd, "FILEclose") /\ Fine /\ UNCHANGED trap
        /\ FileIs(Saved([sets.active EXCEPT !.sure = @ /\ cmd.same]))
     \/ cmd' = Failed(cmd, "FILEclose") /\ Mishap /\ UNCHANGED <<files, trap>>
     \/ cmd' = Failed(cmd, "Done") /\ Mishap /\ UNCHANGED files /\ Assert(FALSE, "open file")

\* fsread waits until it has all it was asked for: at the end of a file that was left
\* short there is no more.
Read == LET x == files[cmd.name] IN
  /\ cmd.at = "FILEread" /\ UNCHANGED <<tasks, files, trap>>
  /\ \/ /\ x # Empty /\ Fine /\ cmd' = At(cmd, "FILEclose")
        /\ sets' = [sets EXCEPT !.working = [ssid |-> cmd.net, type |-> x.type, key |-> x.key, auto |-> x.auto,
                                             phrase |-> @.phrase, sure |-> x.sure]]
        /\ careless' = (careless \/ BeingConnected("working") \/ sets.working.phrase # "none")
     \/ Mishap /\ cmd' = Failed(cmd, "FILEclose") /\ UNCHANGED <<sets, careless>>

Close ==
  /\ cmd.at = "FILEclose" /\ UNCHANGED files
  /\ \/ cmd' = At(cmd, "Done") /\ Fine /\ UNCHANGED trap
     \/ cmd' = Failed(cmd, "Done") /\ Mishap /\ Assert(FALSE, "open file")

Answer == cmd.at = "Done" /\ cmd' = NoCmd /\ Fine /\ UNCHANGED files

Pass ==
  \/ (Exists \/ ExistsNot \/ Unlink \/ Open \/ Answer) /\ KeepsSets /\ UNCHANGED trap
  \/ Write \/ Read
  \/ Close /\ KeepsSets

-----------------------------------------------------------------------------
OnePass ==
  \/ \E p \in Given : SetParam(p)
  \/ \E force \in BOOLEAN : WiFiScan(force) \/ \E which \in {"active", "working"} : NicConnect(which, force)
  \/ NicDisconnect

Begins == Save \/ \E n \in Nets : Load(n) \/ Delete(n)

Json(A) ==
  /\ Call("json", "deferred") /\ A
  /\ UNCHANGED <<link, server, lastErr, con, scn, alone>>

NewCommand  == Json(cmd = NoCmd /\ cmds < MaxCmds /\ cmds' = cmds + 1 /\ (OnePass \/ Begins))
CommandPass == Json(cmd # NoCmd /\ Pass /\ UNCHANGED cmds)
\* Nothing was asked, or the file system thread has not answered yet.
NoPass      == Json(UNCHANGED <<client, tasks, sets, mishaps, trap>>)

Next == Deferred \/ Http \/ HttpRests \/ ChipAnswers \/ ChipIsQuiet \/ LinkDrops
        \/ NewCommand \/ CommandPass \/ NoPass

Spec == Init /\ [][Next]_vars

\* The super loop goes round; the chip, the passphrase calculation and the file
\* system thread finish what they were given, and the server's pause is over.
KeyMade  == Deferred /\ con = "WIFICalPSK" /\ con' # con
RestOver == Http /\ srv = "RESTFORAWHILE" /\ srv' # srv

FairSpec == Spec /\ WF_vars(Next) /\ SF_vars(ChipAnswers) /\ SF_vars(KeyMade)
                 /\ SF_vars(RestOver) /\ SF_vars(CommandPass)

-----------------------------------------------------------------------------
\* A set that was made active by a connection that was begun with the server off and
\* the radio idle keeps no passphrase in the clear, and while it is running with a
\* link, the link is to its network; the server connects to it again and a save
\* keeps it (DeferredTasks.cpp:251, ProcessServer.cpp:225, Parse.cpp:1891).
ActiveTrue == sets.active.sure =>
  /\ sets.active.phrase = "none" /\ sets.active.type # "phrase"
  /\ lastErr = "Running" /\ IsLinked(link) => link.at = sets.active.ssid

\* A file that was saved from such a set opens the network it is named for, and
\* says the same of connecting by itself as its name (Parse.cpp:1852).
FilesTrue == \A f \in Names : LET x == files[f] IN
  x \notin {Absent, Empty} /\ x.sure =>
    /\ Opens([ssid |-> f[1], type |-> x.type, key |-> x.key])
    /\ x.auto = f[2]

\* What is said of a network, in the active set and in the files, is true.
SetsTrue == ActiveTrue /\ FilesTrue

\* What a command did to the files and the sets when it answers without an error:
\* a save leaves one file for the network, with the active set in it; a delete
\* leaves none; a load makes the working set what is in a file, that of the name
\* to connect by itself when there are two (Parse.cpp:1852, 2075, 2259).
Held(n)   == {a \in BOOLEAN : files[<<n, a>>] # Absent}
DidSave   == LET p == sets.active IN
  /\ Held(p.ssid) = {p.auto}
  /\ files[<<p.ssid, p.auto>>] = Saved(p)
DidLoad   == LET w == sets.working
                 a == TRUE \in Held(cmd.net) IN
  w.ssid = cmd.net /\ files[<<w.ssid, a>>] = Saved(w)
Did == CASE cmd.op = "save"   -> DidSave
         [] cmd.op = "load"   -> DidLoad
         [] cmd.op = "delete" -> Held(cmd.net) = {}
DoneAsTold == cmd # NoCmd /\ cmd.at = "Done" /\ cmd.st = "ok" /\ cmd.same => Did

\* Every queued task and every command comes to an end, and the JSON answer of wait
\* "until" with it (Parse.cpp:1640); but for a load from the file a failed save left.
LoadsNothing == cmd # NoCmd /\ cmd.at = "FILEread" /\ files[cmd.name] = Empty
AllDone == <>[](trap = "none" => tasks = <<>> /\ (cmd = NoCmd \/ LoadsNothing))
=============================================================================
