------------------------------ MODULE WifiLink ------------------------------
(***************************************************************************)
(* The radio as the firmware sees it: the state the WINC1500 adaptor keeps *)
(* of the chip (WINC1500/WINC1500Adaptor.c, WiFiStubs.c), the state DEWFcK *)
(* keeps of the adaptor, and whether the IP stack is begun on it (DEIPcK). *)
(* There is one of each, and the deferred tasks and the HTTP server call   *)
(* them in turn.  A handler takes the link l and gives a Result, the link  *)
(* after the call and the class of its IPSTATUS.                           *)
(*                                                                         *)
(*   up, at      connectionStatus is connected, and the network it is or   *)
(*               was last tried with                                       *)
(*   opens       the network takes the parameters of the attempt           *)
(*   busy        fMRFBusy, and the request the chip is working on          *)
(*   err         connectionError, once the chip is done                    *)
(*   scan        scanResult.u8ch = 0xFF: a scan was begun and not told of  *)
(*   wf          _wfState                                                  *)
(*   adp, begun  _pLLAdp is there, _fBegun                                 *)
(***************************************************************************)
CONSTANT None      \* no network

Result(l, st) == [link |-> l, st |-> st]

\* After WiFiInit.
Initialized == [up |-> FALSE, at |-> None, opens |-> FALSE, busy |-> "no", err |-> "none",
                scan |-> FALSE, wf |-> "idle", adp |-> TRUE, begun |-> FALSE]

Busy(l) == l.busy # "no"

\* DEIPcK::isLinked and the adaptor's IsLinked; without an adaptor the caller's
\* status stays as it was, ipsSuccess.
IsLinked(l) == l.adp /\ l.up /\ ~Busy(l)
LinkStatus(l) ==
  CASE ~l.adp \/ IsLinked(l)                     -> "ok"
    [] l.adp /\ l.busy = "connect"               -> "pending"
    [] l.adp /\ ~Busy(l) /\ l.err = "assoc"      -> "pending"
    [] OTHER                                     -> "error"

\* The adaptor's Connect.  An error that nobody was told of is told first; while
\* the chip is busy the caller waits for what it is doing, whoever asked for it.
Connect(l, ssid, opens, taken) ==
  CASE ~Busy(l) /\ l.err # "none" -> Result([l EXCEPT !.up = FALSE, !.err = "none"], "error")
    [] ~Busy(l) /\ l.err = "none" /\ ~l.up /\ taken ->
         Result([l EXCEPT !.busy = "connect", !.at = ssid, !.opens = opens], "pending")
    [] ~Busy(l) /\ l.err = "none" /\ ~l.up /\ ~taken -> Result(l, "error")
    [] OTHER -> Result(l, LinkStatus(l))

\* It answers TRUE when wf is connected afterwards, also when that is an error.
WfConnect(l, ssid, opens, taken) ==
  LET r == Connect([l EXCEPT !.adp = TRUE], ssid, opens, taken)
  IN  IF l.wf \in {"connected", "scanning"} THEN Result([l EXCEPT !.adp = TRUE], "error")
      ELSE Result([r.link EXCEPT !.wf = CASE r.st = "ok"      -> "connected"
                                          [] r.st = "error"   -> "idle"
                                          [] r.st = "pending" -> @], r.st)
Connected(r) == r.link.wf = "connected"

\* Whether the link is down is asked before whether the chip is busy.
WfDisconnect(l) ==
  CASE ~l.up            -> Result([l EXCEPT !.wf = "idle"], "ok")
    [] l.up /\ Busy(l)  -> Result(l, "pending")
    [] l.up /\ ~Busy(l) -> Result([l EXCEPT !.busy = "disconnect"], "pending")

\* The adaptor's StartScan behind DEWFcK::wfScan.
StartScan(l, taken) ==
  CASE l.scan /\ Busy(l)  -> Result(l, "pending")
    [] l.scan /\ ~Busy(l) -> Result([l EXCEPT !.scan = FALSE], "ok")
    [] ~l.scan /\ (l.up \/ Busy(l) \/ ~taken) -> Result(l, "error")
    [] ~l.scan /\ ~l.up /\ ~Busy(l) /\ taken  -> Result([l EXCEPT !.busy = "scan", !.scan = TRUE], "pending")

WfScan(l, taken) ==
  LET r == StartScan([l EXCEPT !.adp = TRUE], taken)
  IN  IF l.wf = "connected" THEN Result([l EXCEPT !.adp = TRUE], "error")
      ELSE Result([r.link EXCEPT !.wf = CASE r.st = "ok"      -> "scanReady"
                                          [] r.st = "error"   -> "idle"
                                          [] r.st = "pending" -> "scanning"], r.st)

\* DEIPcK::begin and end
IPBegin(l) == [l EXCEPT !.adp = TRUE, !.begun = TRUE]
IPEnd(l)   == IF l.begun THEN [l EXCEPT !.adp = FALSE, !.begun = FALSE] ELSE l

\* wifi_event_cb: what the chip may answer to what it was asked, and a link
\* that the access point drops.  A drop carries no error.
Answers(l) ==
  LET free == [l EXCEPT !.busy = "no", !.opens = FALSE]
  IN  CASE l.busy = "connect" -> {[free EXCEPT !.err = e] : e \in {"refused", "assoc"}}
                                   \cup (IF l.opens THEN {[free EXCEPT !.up = TRUE]} ELSE {})
        [] l.busy = "disconnect" -> {[free EXCEPT !.up = FALSE]}
        [] l.busy = "scan"       -> {free}
        [] l.busy = "no"         -> {}
Dropped(l) == [l EXCEPT !.up = FALSE, !.busy = "no"]
=============================================================================
