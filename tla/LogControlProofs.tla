------------------------- MODULE LogControlProofs -------------------------
(***************************************************************************)
(* What LogControl keeps, for any parameters, any queue, any number of old *)
(* files and whatever the events: a stopped log does not run, and as long  *)
(* as a run is not asked for again before the last one is out of the queue *)
(* a run holds exactly what it uses, deletes no file it was to keep, and   *)
(* fails no ASSERT.                                                        *)
(***************************************************************************)
EXTENDS LogControl, SequenceTheorems, TLAPS

-----------------------------------------------------------------------------
(* The types, and what a pass of DeferredLogRun may come to.               *)

LogType   == [state : {"Idle", "Pending", "Running", "Finishing", "Stopped"},
              stcd : {"STCDNormal", "STCDForce", "STCDError"},
              vol : Vols, fLogOnBoot : BOOLEAN, adc : {"Idle", "Running", "Finishing"}]
UsageType == [Doings -> {Nobody, "run", "start", "list", "delete"}]
TaskType  == {"FileLog", "FileDelete", "ResetInstruments"}
Traps     == {"none", "timer on", "clear while open", "log file open"}
RunType   == [cur : RunStates, log : LogType, usage : UsageType, fileOpen : BOOLEAN, trap : Traps]

RunCmds    == [name : {"run"}, at : {"FILEopendir", "FILEreaddir", "FILEclosedir", "Done"},
               p : Params, ok : BOOLEAN]
ListCmds   == [name : {"list"}, at : {"FILEopendir", "FILEreaddir", "FILEclosedir"}]
DeleteCmds == [name : {"delete"}, at : {"FILEexist"}]

Types ==
  /\ log \in LogType /\ cur \in RunStates /\ usage \in UsageType
  /\ timerOn \in BOOLEAN /\ drained \in BOOLEAN /\ fileOpen \in BOOLEAN
  /\ dirBy \in {Nobody, "run", "start", "list"}
  /\ files \in 0 .. MaxFiles /\ errs \in 0 .. MaxErr
  /\ cmd \in {NoCmd} \cup RunCmds \cup ListCmds \cup DeleteCmds
  /\ tasks \in Seq(TaskType) /\ Len(tasks) <= MaxTasks
  /\ cmd.name \in {"run", "delete"} => Len(tasks) < MaxTasks
  /\ stopped \in BOOLEAN /\ spare \in BOOLEAN /\ trap \in Traps
  /\ cur \in {"Waiting", "FILEdelete"} => files > 0

\* The states between the two ends of the search, and all that need the card.
DirStates == {"FILEVerify", "FILEopendir", "FILEreaddir", "Waiting", "FILEdelete", "FILEclosedir"}
SdStates  == DirStates \cup {"WaitingForResources", "FILEgetsize", "FILEopen", "FILEseek",
                             "FILEwrite", "FILEclose"}

\* Up to where the first file of the log is made.
Early == {"Idle", "WaitingForResources", "FILEVerify", "FILEopendir", "FILEreaddir", "FILEclosedir",
          "FILEgetsize", "FILEopen"}

LEMMA NowType == Types => Now \in RunType
BY DEF Types, Now, RunType

\* What the end of a pass does to the log and to the state.
LEMMA EndPassType ==
  ASSUME NEW s \in RunType, NEW fr \in {"ok", "error"}
  PROVE  LET e == EndPass(s, fr) IN
         /\ e \in RunType
         /\ e.log.vol = s.log.vol /\ e.log.adc = s.log.adc
         /\ \/ e.log.state = s.log.state
            \/ s.log.state = "Pending" /\ fr = "error" /\ e.log.state = "Stopped"
         /\ e.log.state = "Pending" => e.cur = s.cur
         /\ e.cur = "Finishing" => e.log.state = "Pending"
         /\ e.cur \in {"Waiting", "FILEdelete"} => e.cur = s.cur
         /\ e.cur \in Early => s.cur \in Early \cup {"Waiting", "FILEdelete"}
         /\ s.cur # "Idle" => e.cur # "Idle"
<1> DEFINE e == OnError(s, fr)
           c == Cleanup(e)
<1>1. /\ e \in RunType /\ e.cur = s.cur
      /\ e.log.vol = s.log.vol /\ e.log.adc = s.log.adc
      /\ \/ e.log.state = s.log.state
         \/ s.log.state = "Pending" /\ fr = "error" /\ e.log.state = "Stopped"
  BY DEF OnError, RunType, LogType
<1>2. /\ c \in RunType /\ c.log = e.log
      /\ c.cur \notin {"Finishing", "Waiting", "FILEdelete"} /\ c.cur # "Idle"
      /\ c.cur \in Early => e.cur \in Early \cup {"Waiting", "FILEdelete"}
  <2> HIDE DEF e
  <2>1. CASE e.cur \in {"Idle", "Done", "WaitingForResources", "FILEgetsize", "FILEVerify", "FILEopendir",
                        "FILEclosedir"}
    BY <1>1, <2>1, ZenonT(30) DEF Cleanup, Go, Clear, RunType, RunStates, UsageType, Doings, Traps, Early
  <2>2. CASE e.cur \in {"FILEdelete", "Waiting", "FILEreaddir", "FILEopen"}
    BY <1>1, <2>2, ZenonT(30) DEF Cleanup, Go, Clear, RunType, RunStates, UsageType, Doings, Traps, Early
  <2>3. CASE e.cur \in {"FILEclose", "FILEseek", "FILEwrite", "Finishing"}
    BY <1>1, <2>3, ZenonT(30) DEF Cleanup, Go, Clear, RunType, RunStates, UsageType, Doings, Traps, Early
  <2> QED BY <1>1, <2>1, <2>2, <2>3 DEF RunType, RunStates
<1>3. EndPass(s, fr) = IF e.log.state # "Pending" THEN c ELSE e
  BY DEF EndPass
<1> HIDE DEF e, c
<1> QED BY <1>1, <1>2, <1>3

-----------------------------------------------------------------------------
(* The invariant.                                                          *)

\* Who reads from the directory object.
ReadStates == {"FILEreaddir", "Waiting", "FILEdelete", "FILEclosedir"}

\* HoldsWhatItUses of a run that is somewhere in a pass, and what it needs: a
\* run is set up with its target idle, and looks for files only on the card.
HasFile(s) ==
  \/ s.cur \in {"FILEseek", "FILEwrite", "FILEclose"}
  \/ s.log.vol = "VOLSD" /\ (s.cur = "Finishing" \/ s.log.adc # "Idle")
Uses(s) ==
  /\ s.usage["DIRECTORY"] = "run" <=> s.cur \in DirStates
  /\ s.usage["DELETING"] = "run" <=> s.cur = "FILEdelete"
  /\ s.usage["LOGGING"] # Nobody <=> (HasFile(s) \/ s.cur = "FILEopen")
  /\ s.fileOpen <=> HasFile(s)
  /\ s.cur # "Idle" => s.log.adc = "Idle"
  /\ s.cur \in SdStates => s.log.vol = "VOLSD"

LEMMA EndPassUses ==
  ASSUME NEW s \in RunType, NEW fr \in {"ok", "error"}, Uses(s), s.cur # "FILEclose", s.log.adc = "Idle",
         s.cur = "Finishing" => s.log.vol = "VOLSD" \/ (s.log.state = "Pending" /\ fr = "ok")
  PROVE  LET e == EndPass(s, fr) IN
         /\ Uses(e) /\ e.trap = s.trap
         /\ s.usage["DIRECTORY"] # "run" => e.usage["DIRECTORY"] = s.usage["DIRECTORY"]
         /\ s.usage["DELETING"] # "run" => e.usage["DELETING"] = s.usage["DELETING"]
         /\ e.cur \in ReadStates => s.cur \in ReadStates
         /\ e.cur = "FILEclose" => e.log.state # "Pending"
<1> DEFINE e == OnError(s, fr)
           c == Cleanup(e)
<1>1. /\ e \in RunType /\ e.cur = s.cur /\ e.usage = s.usage /\ e.fileOpen = s.fileOpen
      /\ e.log.vol = s.log.vol /\ e.log.adc = s.log.adc /\ e.trap = s.trap
      /\ s.log.state = "Pending" /\ fr = "ok" => e.log.state = "Pending"
  BY DEF OnError, RunType, LogType
<1>2. Uses(e)
  BY <1>1 DEF Uses, HasFile
<1>3. ASSUME e.log.state # "Pending"
      PROVE  /\ Uses(c) /\ c.trap = e.trap
             /\ e.usage["DIRECTORY"] # "run" => c.usage["DIRECTORY"] = e.usage["DIRECTORY"]
             /\ e.usage["DELETING"] # "run" => c.usage["DELETING"] = e.usage["DELETING"]
             /\ c.cur \in ReadStates => e.cur \in ReadStates
             /\ c.log = e.log
  <2> HIDE DEF e
  <2> USE DEF Uses, HasFile, RunType, UsageType, Doings, Nobody, DirStates, SdStates, ReadStates
  <2>1. CASE e.cur \in {"Idle", "Done", "WaitingForResources", "FILEgetsize"}
    <3>1. c = Go(e, "Done")
      BY <2>1 DEF Cleanup
    <3> QED BY <1>1, <1>2, <2>1, <3>1 DEF Go
  <2>2. CASE e.cur \in {"FILEVerify", "FILEopendir", "FILEclosedir"}
    <3>1. c = Go(Clear(e, "DIRECTORY"), "Done")
      BY <2>2 DEF Cleanup
    <3> QED BY <1>1, <1>2, <2>2, <3>1 DEF Go, Clear
  <2>3. CASE e.cur = "FILEdelete"
    <3>1. c = Go(Clear(e, "DELETING"), "FILEclosedir")
      BY <2>3 DEF Cleanup
    <3> QED BY <1>1, <1>2, <2>3, <3>1 DEF Go, Clear
  <2>4. CASE e.cur \in {"Waiting", "FILEreaddir"}
    <3>1. c = Go(e, "FILEclosedir")
      BY <2>4 DEF Cleanup
    <3> QED BY <1>1, <1>2, <2>4, <3>1 DEF Go
  <2>5. CASE e.cur = "FILEopen"
    <3>1. c = Go(Clear(e, "LOGGING"), "Done")
      BY <2>5 DEF Cleanup
    <3>2. ~e.fileOpen /\ ~HasFile(e)
      BY <1>1, <1>2, <2>5
    <3>3. c = [e EXCEPT !.usage["LOGGING"] = Nobody, !.trap = e.trap, !.cur = "Done"]
      BY <3>1, <3>2, Zenon DEF Go, Clear
    <3> QED BY <1>1, <1>2, <2>5, <3>2, <3>3
  <2>6. CASE e.cur \in {"FILEseek", "FILEwrite", "Finishing"}
    <3>1. c = Go(e, "FILEclose")
      BY <2>6 DEF Cleanup
    <3> QED BY <1>1, <1>2, <1>3, <2>6, <3>1 DEF Go
  <2> QED BY <1>1, <2>1, <2>2, <2>3, <2>4, <2>5, <2>6 DEF RunStates
<1>4. EndPass(s, fr) = IF e.log.state # "Pending" THEN c ELSE e
  BY DEF EndPass
<1> HIDE DEF e, c
<1> QED BY <1>1, <1>2, <1>3, <1>4

\* What is in the queue.
Has(q, t)  == \E i \in 1 .. Len(q) : q[i] = t
Once(q, t) == \A i, j \in 1 .. Len(q) : q[i] = t /\ q[j] = t => i = j

LEMMA TailHas ==
  ASSUME NEW q \in Seq(TaskType), q # <<>>
  PROVE  /\ Tail(q) \in Seq(TaskType) /\ Len(Tail(q)) <= Len(q)
         /\ \A t : Has(Tail(q), t) => Has(q, t)
         /\ \A t : Once(q, t) => Once(Tail(q), t)
         /\ \A t : Once(q, t) /\ Head(q) = t => ~Has(Tail(q), t)
<1>1. /\ Tail(q) \in Seq(TaskType) /\ Len(Tail(q)) = Len(q) - 1 /\ Len(q) \in Nat /\ Len(q) > 0
      /\ \A i \in 1 .. Len(q) - 1 : i + 1 \in 1 .. Len(q) /\ Tail(q)[i] = q[i + 1]
      /\ Head(q) = q[1]
  BY HeadTailProperties, EmptySeq
<1> QED BY <1>1 DEF Has, Once

LEMMA AppendHas ==
  ASSUME NEW q \in Seq(TaskType), NEW u \in TaskType
  PROVE  /\ Append(q, u) \in Seq(TaskType) /\ Len(Append(q, u)) = Len(q) + 1
         /\ \A t : Has(Append(q, u), t) <=> Has(q, t) \/ t = u
         /\ \A t : Once(q, t) /\ (t = u => ~Has(q, t)) => Once(Append(q, u), t)
         /\ q # <<>> => Append(q, u) # <<>> /\ Head(Append(q, u)) = Head(q)
<1>1. /\ Append(q, u) \in Seq(TaskType) /\ Len(Append(q, u)) = Len(q) + 1 /\ Len(q) \in Nat
      /\ \A i \in 1 .. Len(q) : Append(q, u)[i] = q[i]
      /\ Append(q, u)[Len(q) + 1] = u
  BY AppendProperties
<1>2. q # <<>> => Append(q, u) # <<>> /\ Head(Append(q, u)) = Head(q)
  BY HeadTailProperties, EmptySeq, <1>1
<1>3. \A t : Has(Append(q, u), t) <=> Has(q, t) \/ t = u
  BY <1>1 DEF Has
<1>4. \A t : Once(q, t) /\ (t = u => ~Has(q, t)) => Once(Append(q, u), t)
  BY <1>1 DEF Has, Once
<1> QED BY <1>1, <1>2, <1>3, <1>4

-----------------------------------------------------------------------------
(* What a pass of DeferredLogRun comes to before its end, in every state.  *)

Fits(s, fr) ==
  /\ s \in RunType /\ fr \in {"ok", "error"} /\ Pass(s, fr)
  /\ s.log = log
  /\ files' \in 0 .. MaxFiles /\ errs' \in 0 .. MaxErr /\ dirBy' \in {Nobody, "run"} \cup {dirBy}
  /\ s.cur \in {"Waiting", "FILEdelete"} =>
       files' > 0 /\ (cur = s.cur \/ cur = "Waiting" \/ (cur = "FILEreaddir" /\ files > 0))
  /\ s.cur \in Early => (cur \in Early /\ (files = 0 => files' = 0)) \/ cur = "FILEdelete"
  /\ cur = "Idle" => log.state = "Pending"
  /\ s.cur = "Idle" => fr = "error" /\ log.state = "Pending"
  /\ s.cur = "Finishing" => cur = "FILEwrite" \/ (log.state = "Pending" /\ fr = "ok")
  /\ s.cur = "FILEclose" => "FILEclose" \in Faults
  /\ Uses(Now) /\ (log.state = "Pending" => log.adc = "Idle") =>
       /\ Uses(s) /\ s.trap = trap
       /\ usage["DIRECTORY"] \notin {Nobody, "run"} => s.usage["DIRECTORY"] = usage["DIRECTORY"]
       /\ usage["DELETING"] \notin {Nobody, "run"} => s.usage["DELETING"] = usage["DELETING"]
       /\ s.cur \in ReadStates => dirBy' = "run" \/ (cur \in ReadStates /\ dirBy' = dirBy)
       /\ dirBy' = dirBy \/ usage["DIRECTORY"] = "run"

\* Nothing comes of the pass but what its end makes of it.
LEMMA StaysFits ==
  ASSUME Types, NEW fr \in {"ok", "error"}, Pass(Now, fr), UNCHANGED <<dirBy, files>>, errs' \in 0 .. MaxErr,
         cur \notin {"Finishing", "Done"}, cur = "FILEclose" => "FILEclose" \in Faults,
         cur = "Idle" => log.state = "Pending" /\ fr = "error"
  PROVE  Fits(Now, fr)
<1>1. /\ Now \in RunType /\ Now.cur = cur /\ Now.log = log /\ Now.usage = usage /\ Now.trap = trap
  BY NowType DEF Now
<1> QED BY <1>1 DEF Fits, Types

\* A pass of DeferredLogRun that ends the task at once.
Refused ==
  /\ cur = "Idle" /\ (timerOn \/ log.state # "Pending")
  /\ TaskOver
  /\ trap' = IF timerOn THEN "timer on" ELSE trap
  /\ UNCHANGED <<log, timerOn, drained, cur, usage, fileOpen, dirBy, files, cmd, errs, stopped, spare>>

LEMMA RunFits ==
  ASSUME Types, DeferredLogRun
  PROVE  Refused \/ RunFinishing \/ RunDone \/ \E s, fr : Fits(s, fr)
<1>0. /\ Now \in RunType /\ Now.cur = cur /\ Now.log = log /\ Now.usage = usage /\ Now.trap = trap
      /\ Now.fileOpen = fileOpen
  BY NowType DEF Now
<1>t. /\ log \in LogType /\ usage \in UsageType /\ fileOpen \in BOOLEAN /\ trap \in Traps
      /\ files \in 0 .. MaxFiles /\ errs \in 0 .. MaxErr /\ (cur \in {"Waiting", "FILEdelete"} => files > 0)
      /\ MaxFiles \in Nat \ {0} /\ MaxErr \in Nat
  BY LogControlAssumption DEF Types
<1>e. ASSUME NEW at, CallFails(at), cur = at, at \notin {"Finishing", "Done"},
             at = "Idle" => log.state = "Pending"
      PROVE  \E s, fr : Fits(s, fr)
  <2>1. /\ Pass(Now, "error") /\ UNCHANGED <<dirBy, files>> /\ errs' \in 0 .. MaxErr
        /\ cur = "FILEclose" => "FILEclose" \in Faults
    BY <1>e, <1>t DEF CallFails, Fails
  <2>2. cur \notin {"Finishing", "Done"} /\ (cur = "Idle" => log.state = "Pending")
    BY <1>e
  <2>3. Fits(Now, "error")
    BY <2>1, <2>2, StaysFits, Zenon
  <2> QED BY <2>3
<1>q. ASSUME Quiet(Now) \/ TimedOut, cur \notin {"Idle", "Finishing", "Done", "FILEclose"}
      PROVE  \E s, fr : Fits(s, fr)
  <2>1. PICK fr \in {"ok", "error"} : Pass(Now, fr) /\ UNCHANGED <<dirBy, files, errs>>
    BY <1>q DEF Quiet, TimedOut
  <2>2. Fits(Now, fr)
    BY <1>q, <1>t, <2>1, StaysFits
  <2> QED BY <2>2
<1>1. CASE RunIdle
  <2>1. CASE timerOn \/ log.state # "Pending"
    BY <1>1, <2>1 DEF RunIdle, Refused
  <2>2. CASE ~timerOn /\ log.state = "Pending"
    <3>1. CASE log.vol = "VOLSD" /\ Quiet(Go(Now, "WaitingForResources"))
      <4> DEFINE s == Go(Now, "WaitingForResources")
      <4>g. cur = "Idle" /\ Pass(s, "ok") /\ UNCHANGED <<dirBy, files, errs>>
        BY <1>1, <3>1 DEF RunIdle, Quiet
      <4>1. /\ s \in RunType /\ s.cur = "WaitingForResources" /\ s.log = log /\ s.trap = trap
           /\ s.usage = usage /\ s.fileOpen = fileOpen
        BY <1>0, <1>t DEF Go, Take, Clear, RunType, RunStates, UsageType, Doings, Nobody, Traps
      <4> HIDE DEF s
      <4>2. Fits(s, "ok")
        BY <1>0, <1>t, <2>2, <3>1, <4>g, <4>1
           DEF Fits, Uses, HasFile, DirStates, SdStates, ReadStates, Early, UsageType, Doings, Nobody
      <4> QED BY <4>2
    <3>2. CASE log.vol = "VOLSD" /\ CallFails("Idle")
      BY <1>1, <2>2, <3>2, <1>e DEF RunIdle
    <3>3. CASE log.vol # "VOLSD" /\ Quiet(Go(Now, "Finishing"))
      <4> DEFINE s == Go(Now, "Finishing")
      <4>g. cur = "Idle" /\ Pass(s, "ok") /\ UNCHANGED <<dirBy, files, errs>>
        BY <1>1, <3>3 DEF RunIdle, Quiet
      <4>1. /\ s \in RunType /\ s.cur = "Finishing" /\ s.log = log /\ s.trap = trap
           /\ s.usage = usage /\ s.fileOpen = fileOpen
        BY <1>0, <1>t DEF Go, Take, Clear, RunType, RunStates, UsageType, Doings, Nobody, Traps
      <4> HIDE DEF s
      <4>2. Fits(s, "ok")
        BY <1>0, <1>t, <2>2, <3>3, <4>g, <4>1
           DEF Fits, Uses, HasFile, DirStates, SdStates, ReadStates, Early, UsageType, Doings, Nobody
      <4> QED BY <4>2
    <3> QED BY <1>1, <2>2, <3>1, <3>2, <3>3 DEF RunIdle, Starts
  <2> QED BY <2>1, <2>2
<1>2. CASE RunWaitingForResources
  <2> DEFINE s == Go(Take(Now, "DIRECTORY"), IF log.fLogOnBoot THEN "FILEVerify" ELSE "FILEopendir")
  <2>1. CASE usage.DIRECTORY = Nobody /\ Quiet(s)
    <3>1. /\ s \in RunType /\ s.cur = (IF log.fLogOnBoot THEN "FILEVerify" ELSE "FILEopendir")
          /\ s.log = log /\ s.trap = trap
          /\ s.usage = [usage EXCEPT !["DIRECTORY"] = "run"] /\ s.fileOpen = fileOpen
      BY <1>0, <1>t DEF Go, Take, Clear, RunType, RunStates, UsageType, Doings, Nobody, Traps
    <3> HIDE DEF s
    <3>2. cur = "WaitingForResources" /\ usage.DIRECTORY = Nobody /\ Pass(s, "ok")
          /\ UNCHANGED <<dirBy, files, errs>>
      BY <1>2, <2>1 DEF RunWaitingForResources, Quiet
    <3>3. Fits(s, "ok")
      BY <1>0, <1>t, <3>1, <3>2
         DEF Fits, Uses, HasFile, DirStates, SdStates, ReadStates, Early, UsageType, Doings, Nobody
    <3> QED BY <3>3
  <2> QED BY <1>2, <2>1, <1>e, <1>q DEF RunWaitingForResources
<1>3. CASE RunVerify
  <2> DEFINE s == Go(Now, "FILEopendir")
  <2>1. CASE Pass(s, "ok") /\ files' = 0 /\ UNCHANGED <<dirBy, errs>>
    <3>1. /\ s \in RunType /\ s.cur = "FILEopendir" /\ s.log = log /\ s.trap = trap
          /\ s.usage = usage /\ s.fileOpen = fileOpen
      BY <1>0, <1>t DEF Go, Take, Clear, RunType, RunStates, UsageType, Doings, Nobody, Traps
    <3> HIDE DEF s
    <3>2. cur = "FILEVerify" /\ Pass(s, "ok") /\ files' = 0 /\ UNCHANGED <<dirBy, errs>>
      BY <1>3, <2>1 DEF RunVerify
    <3>3. Fits(s, "ok")
      BY <1>0, <1>t, <3>1, <3>2
         DEF Fits, Uses, HasFile, DirStates, SdStates, ReadStates, Early, UsageType, Doings, Nobody
    <3> QED BY <3>3
  <2> QED BY <1>3, <2>1, <1>e, <1>q DEF RunVerify
<1>4. CASE RunOpendir
  <2> DEFINE s == Go(Now, "FILEreaddir")
  <2>1. CASE Pass(s, "ok") /\ dirBy' = "run" /\ UNCHANGED <<files, errs>>
    <3>1. /\ s \in RunType /\ s.cur = "FILEreaddir" /\ s.log = log /\ s.trap = trap
          /\ s.usage = usage /\ s.fileOpen = fileOpen
      BY <1>0, <1>t DEF Go, Take, Clear, RunType, RunStates, UsageType, Doings, Nobody, Traps
    <3> HIDE DEF s
    <3>2. cur = "FILEopendir" /\ Pass(s, "ok") /\ dirBy' = "run" /\ UNCHANGED <<files, errs>>
      BY <1>4, <2>1 DEF RunOpendir
    <3>3. Fits(s, "ok")
      BY <1>0, <1>t, <3>1, <3>2
         DEF Fits, Uses, HasFile, DirStates, SdStates, ReadStates, Early, UsageType, Doings, Nobody
    <3> QED BY <3>3
  <2> QED BY <1>4, <2>1, <1>e, <1>q DEF RunOpendir
<1>5. CASE RunReaddir
  <2> DEFINE s == Go(Now, "Waiting")
  <2>1. CASE files > 0 /\ Quiet(s)
    <3>1. /\ s \in RunType /\ s.cur = "Waiting" /\ s.log = log /\ s.trap = trap
          /\ s.usage = usage /\ s.fileOpen = fileOpen
      BY <1>0, <1>t DEF Go, Take, Clear, RunType, RunStates, UsageType, Doings, Nobody, Traps
    <3> HIDE DEF s
    <3>2. cur = "FILEreaddir" /\ files > 0 /\ Pass(s, "ok") /\ UNCHANGED <<dirBy, files, errs>>
      BY <1>5, <2>1 DEF RunReaddir, Quiet
    <3>3. Fits(s, "ok")
      BY <1>0, <1>t, <3>1, <3>2
         DEF Fits, Uses, HasFile, DirStates, SdStates, ReadStates, Early, UsageType, Doings, Nobody
    <3> QED BY <3>3
  <2> DEFINE r == Go(Now, "FILEclosedir")
  <2>2. CASE files = 0 /\ Quiet(r)
    <3>1. /\ r \in RunType /\ r.cur = "FILEclosedir" /\ r.log = log /\ r.trap = trap
          /\ r.usage = usage /\ r.fileOpen = fileOpen
      BY <1>0, <1>t DEF Go, RunType, RunStates
    <3> HIDE DEF r
    <3>2. cur = "FILEreaddir" /\ files = 0 /\ Pass(r, "ok") /\ UNCHANGED <<dirBy, files, errs>>
      BY <1>5, <2>2 DEF RunReaddir, Quiet
    <3>3. Fits(r, "ok")
      BY <1>0, <1>t, <3>1, <3>2
         DEF Fits, Uses, HasFile, DirStates, SdStates, ReadStates, Early, UsageType, Doings, Nobody
    <3> QED BY <3>3
  <2> QED BY <1>5, <2>1, <2>2, <1>e, <1>q DEF RunReaddir
<1>6. CASE RunWaiting
  <2> DEFINE s == Go(Take(Now, "DELETING"), "FILEdelete")
  <2>1. CASE usage.DELETING = Nobody /\ Quiet(s)
    <3>1. /\ s \in RunType /\ s.cur = "FILEdelete" /\ s.log = log /\ s.trap = trap
          /\ s.usage = [usage EXCEPT !["DELETING"] = "run"] /\ s.fileOpen = fileOpen
      BY <1>0, <1>t DEF Go, Take, Clear, RunType, RunStates, UsageType, Doings, Nobody, Traps
    <3> HIDE DEF s
    <3>2. cur = "Waiting" /\ usage.DELETING = Nobody /\ Pass(s, "ok") /\ UNCHANGED <<dirBy, files, errs>>
      BY <1>6, <2>1 DEF RunWaiting, Quiet
    <3>3. Fits(s, "ok")
      BY <1>0, <1>t, <3>1, <3>2
         DEF Fits, Uses, HasFile, DirStates, SdStates, ReadStates, Early, UsageType, Doings, Nobody
    <3> QED BY <3>3
  <2> QED BY <1>6, <2>1, <1>e, <1>q DEF RunWaiting
<1>7. CASE RunDelete
  <2> DEFINE s == Go(Clear(Now, "DELETING"), "FILEreaddir")
  <2>1. CASE Pass(s, "ok") /\ files' = files - 1 /\ UNCHANGED <<dirBy, errs>>
    <3>1. /\ s \in RunType /\ s.cur = "FILEreaddir" /\ s.log = log /\ s.trap = trap
          /\ s.usage = [usage EXCEPT !["DELETING"] = Nobody] /\ s.fileOpen = fileOpen
      BY <1>0, <1>t DEF Go, Take, Clear, RunType, RunStates, UsageType, Doings, Nobody, Traps
    <3> HIDE DEF s
    <3>2. cur = "FILEdelete" /\ Pass(s, "ok") /\ files' = files - 1 /\ UNCHANGED <<dirBy, errs>>
      BY <1>7, <2>1 DEF RunDelete
    <3>3. Fits(s, "ok")
      BY <1>0, <1>t, <3>1, <3>2
         DEF Fits, Uses, HasFile, DirStates, SdStates, ReadStates, Early, UsageType, Doings, Nobody
    <3> QED BY <3>3
  <2> QED BY <1>7, <2>1, <1>e, <1>q DEF RunDelete
<1>8. CASE RunClosedir
  <2> DEFINE s == Go(Clear(Now, "DIRECTORY"), "FILEgetsize")
  <2>1. CASE Pass(s, "ok") /\ dirBy' = Nobody /\ UNCHANGED <<files, errs>>
    <3>1. /\ s \in RunType /\ s.cur = "FILEgetsize" /\ s.log = log /\ s.trap = trap
          /\ s.usage = [usage EXCEPT !["DIRECTORY"] = Nobody] /\ s.fileOpen = fileOpen
      BY <1>0, <1>t DEF Go, Take, Clear, RunType, RunStates, UsageType, Doings, Nobody, Traps
    <3> HIDE DEF s
    <3>2. cur = "FILEclosedir" /\ Pass(s, "ok") /\ dirBy' = Nobody /\ UNCHANGED <<files, errs>>
      BY <1>8, <2>1 DEF RunClosedir
    <3>3. Fits(s, "ok")
      BY <1>0, <1>t, <3>1, <3>2
         DEF Fits, Uses, HasFile, DirStates, SdStates, ReadStates, Early, UsageType, Doings, Nobody
    <3> QED BY <3>3
  <2> QED BY <1>8, <2>1, <1>e, <1>q DEF RunClosedir
<1>9. CASE RunGetsize
  <2> DEFINE r == [Now EXCEPT !.trap = IF fileOpen THEN "log file open" ELSE @]
             s == Go(Take(r, "LOGGING"), "FILEopen")
  <2>0. /\ r \in RunType /\ r.cur = cur /\ r.log = log /\ r.trap = IF fileOpen THEN "log file open" ELSE trap
        /\ r.usage = usage /\ r.fileOpen = fileOpen
    BY <1>0, <1>t DEF RunType, Traps
  <2>1. CASE usage.LOGGING = Nobody /\ Quiet(s)
    <3>1. /\ s \in RunType /\ s.cur = "FILEopen" /\ s.log = log /\ s.trap = r.trap
          /\ s.usage = [usage EXCEPT !["LOGGING"] = "run"] /\ s.fileOpen = fileOpen
      BY <2>0 DEF Go, Take, RunType, RunStates, UsageType, Doings, Nobody
    <3> HIDE DEF r, s
    <3>2. cur = "FILEgetsize" /\ usage.LOGGING = Nobody /\ Pass(s, "ok") /\ UNCHANGED <<dirBy, files, errs>>
      BY <1>9, <2>1 DEF RunGetsize, Quiet
    <3>3. Fits(s, "ok")
      BY <1>0, <1>t, <2>0, <3>1, <3>2, ZenonT(30)
         DEF Fits, Uses, HasFile, DirStates, SdStates, ReadStates, Early, UsageType, Doings, Nobody
    <3> QED BY <3>3
  <2>2. CASE Pass(r, "error") /\ UNCHANGED <<dirBy, files, errs>>
    <3> HIDE DEF r
    <3>1. cur = "FILEgetsize"
      BY <1>9 DEF RunGetsize
    <3>2. Fits(r, "error")
      BY <1>0, <1>t, <2>0, <2>2, <3>1, ZenonT(30)
         DEF Fits, Uses, HasFile, DirStates, SdStates, ReadStates, Early, UsageType, Doings, Nobody
    <3> QED BY <3>2
  <2> QED BY <1>9, <2>1, <2>2, <1>e DEF RunGetsize
<1>10. CASE RunOpen
  <2> DEFINE s == [Go(Now, "FILEseek") EXCEPT !.fileOpen = TRUE]
  <2>1. CASE Pass(s, "ok") /\ files' = (IF files = 0 THEN 1 ELSE files) /\ UNCHANGED <<dirBy, errs>>
    <3>1. /\ s \in RunType /\ s.cur = "FILEseek" /\ s.log = log /\ s.trap = trap
          /\ s.usage = usage /\ s.fileOpen = TRUE
      BY <1>0, <1>t DEF Go, Take, Clear, RunType, RunStates, UsageType, Doings, Nobody, Traps
    <3> HIDE DEF s
    <3>2. cur = "FILEopen" /\ Pass(s, "ok") /\ files' = (IF files = 0 THEN 1 ELSE files) /\ UNCHANGED <<dirBy, errs>>
      BY <1>10, <2>1 DEF RunOpen
    <3>3. Fits(s, "ok")
      BY <1>0, <1>t, <3>1, <3>2
         DEF Fits, Uses, HasFile, DirStates, SdStates, ReadStates, Early, UsageType, Doings, Nobody
    <3> QED BY <3>3
  <2> QED BY <1>10, <2>1, <1>e, <1>q DEF RunOpen
<1>11. CASE RunSeek
  <2> DEFINE s == Go(Now, "FILEwrite")
  <2>1. CASE Quiet(s)
    <3>1. /\ s \in RunType /\ s.cur = "FILEwrite" /\ s.log = log /\ s.trap = trap
          /\ s.usage = usage /\ s.fileOpen = fileOpen
      BY <1>0, <1>t DEF Go, Take, Clear, RunType, RunStates, UsageType, Doings, Nobody, Traps
    <3> HIDE DEF s
    <3>2. cur = "FILEseek" /\ Pass(s, "ok") /\ UNCHANGED <<dirBy, files, errs>>
      BY <1>11, <2>1 DEF RunSeek, Quiet
    <3>3. Fits(s, "ok")
      BY <1>0, <1>t, <3>1, <3>2
         DEF Fits, Uses, HasFile, DirStates, SdStates, ReadStates, Early, UsageType, Doings, Nobody
    <3> QED BY <3>3
  <2> QED BY <1>11, <2>1, <1>e, <1>q DEF RunSeek
<1>12. CASE RunWrite
  <2> DEFINE s == Go(Now, "Finishing")
  <2>1. CASE Quiet(s)
    <3>1. /\ s \in RunType /\ s.cur = "Finishing" /\ s.log = log /\ s.trap = trap
          /\ s.usage = usage /\ s.fileOpen = fileOpen
      BY <1>0, <1>t DEF Go, Take, Clear, RunType, RunStates, UsageType, Doings, Nobody, Traps
    <3> HIDE DEF s
    <3>2. cur = "FILEwrite" /\ Pass(s, "ok") /\ UNCHANGED <<dirBy, files, errs>>
      BY <1>12, <2>1 DEF RunWrite, Quiet
    <3>3. Fits(s, "ok")
      BY <1>0, <1>t, <3>1, <3>2
         DEF Fits, Uses, HasFile, DirStates, SdStates, ReadStates, Early, UsageType, Doings, Nobody
    <3> QED BY <3>3
  <2> QED BY <1>12, <2>1, <1>e, <1>q DEF RunWrite
<1>13. CASE RunClose
  <2> DEFINE s == Go(Clear([Now EXCEPT !.fileOpen = FALSE], "LOGGING"), "Done")
  <2>1. CASE Quiet(s)
    <3>1. /\ s \in RunType /\ s.cur = "Done" /\ s.log = log /\ s.trap = trap
          /\ s.usage = [usage EXCEPT !["LOGGING"] = Nobody] /\ s.fileOpen = FALSE
      BY <1>0, <1>t DEF Go, Take, Clear, RunType, RunStates, UsageType, Doings, Nobody, Traps
    <3> HIDE DEF s
    <3>2. cur = "FILEclose" /\ Pass(s, "ok") /\ UNCHANGED <<dirBy, files, errs>>
      BY <1>13, <2>1 DEF RunClose, Quiet
    <3>3. Fits(s, "ok")
      BY <1>0, <1>t, <3>1, <3>2
         DEF Fits, Uses, HasFile, DirStates, SdStates, ReadStates, Early, UsageType, Doings, Nobody
    <3> QED BY <3>3
  <2> QED BY <1>13, <2>1, <1>e, <1>q DEF RunClose
<1> QED BY <1>1, <1>2, <1>3, <1>4, <1>5, <1>6, <1>7, <1>8, <1>9, <1>10, <1>11, <1>12, <1>13
        DEF DeferredLogRun

\* What such a pass leaves behind, in every state and in one that holds what it uses.
LEMMA PassStep ==
  ASSUME Types, NEW s, NEW fr, Fits(s, fr)
  PROVE  /\ log' \in LogType /\ cur' \in RunStates /\ usage' \in UsageType
         /\ fileOpen' \in BOOLEAN /\ trap' \in Traps
         /\ UNCHANGED <<timerOn, drained, cmd, tasks, stopped, spare>>
         /\ files' \in 0 .. MaxFiles /\ errs' \in 0 .. MaxErr /\ dirBy' \in {Nobody, "run", dirBy}
         /\ log'.vol = log.vol /\ log'.adc = log.adc
         /\ log'.state = log.state \/ (log.state = "Pending" /\ log'.state = "Stopped")
         /\ cur' = "Finishing" => log'.state = "Pending"
         /\ cur' \in {"Waiting", "FILEdelete"} =>
              files' > 0 /\ (cur \in {"Waiting", "FILEdelete"} \/ (cur = "FILEreaddir" /\ files > 0))
         /\ cur' \in Early =>
              cur \in {"Waiting", "FILEdelete"} \/ (cur \in Early /\ (files = 0 => files' = 0))
<1>1. /\ s \in RunType /\ fr \in {"ok", "error"} /\ Pass(s, fr) /\ s.log = log
      /\ files' \in 0 .. MaxFiles /\ errs' \in 0 .. MaxErr /\ dirBy' \in {Nobody, "run", dirBy}
  BY DEF Fits
<1> DEFINE e == EndPass(s, fr)
<1>2. /\ cur' = e.cur /\ log' = e.log /\ usage' = e.usage /\ fileOpen' = e.fileOpen /\ trap' = e.trap
      /\ UNCHANGED <<timerOn, drained, cmd, tasks, stopped, spare>>
  BY <1>1 DEF Pass
<1>3. /\ e \in RunType
      /\ e.log.vol = s.log.vol /\ e.log.adc = s.log.adc
      /\ e.log.state = s.log.state \/ (s.log.state = "Pending" /\ e.log.state = "Stopped")
      /\ e.cur = "Finishing" => e.log.state = "Pending"
      /\ e.cur \in {"Waiting", "FILEdelete"} => e.cur = s.cur
      /\ e.cur \in Early => s.cur \in Early \cup {"Waiting", "FILEdelete"}
  BY <1>1, EndPassType
<1> HIDE DEF e
<1>4. /\ log' \in LogType /\ cur' \in RunStates /\ usage' \in UsageType
      /\ fileOpen' \in BOOLEAN /\ trap' \in Traps
  BY <1>2, <1>3 DEF RunType
<1>5. /\ s.cur \in {"Waiting", "FILEdelete"} =>
           files' > 0 /\ (cur \in {"Waiting", "FILEdelete"} \/ (cur = "FILEreaddir" /\ files > 0))
      /\ s.cur \in Early => (cur \in Early /\ (files = 0 => files' = 0)) \/ cur = "FILEdelete"
  BY DEF Fits
<1>6. cur' \in Early =>
        cur \in {"Waiting", "FILEdelete"} \/ (cur \in Early /\ (files = 0 => files' = 0))
  BY <1>2, <1>3, <1>5 DEF Early, Types
<1> QED BY <1>1, <1>2, <1>3, <1>4, <1>5, <1>6

LEMMA PassUses ==
  ASSUME Types, NEW s, NEW fr, Fits(s, fr), "FILEclose" \notin Faults,
         Uses(Now), log.state = "Pending" => log.adc = "Idle"
  PROVE  /\ Uses(Now)' /\ trap' = trap
         /\ usage["DIRECTORY"] \notin {Nobody, "run"} =>
              usage'["DIRECTORY"] = usage["DIRECTORY"] /\ dirBy' = dirBy
         /\ usage["DELETING"] \notin {Nobody, "run"} => usage'["DELETING"] = usage["DELETING"]
         /\ cur' \in ReadStates => dirBy' = "run" \/ (cur \in ReadStates /\ dirBy' = dirBy)
<1>1. /\ s \in RunType /\ fr \in {"ok", "error"} /\ Pass(s, fr) /\ s.log = log /\ Uses(s)
      /\ s.trap = trap /\ s.cur # "FILEclose"
      /\ usage["DIRECTORY"] \notin {Nobody, "run"} =>
           s.usage["DIRECTORY"] = usage["DIRECTORY"] /\ dirBy' = dirBy
      /\ usage["DELETING"] \notin {Nobody, "run"} => s.usage["DELETING"] = usage["DELETING"]
      /\ s.cur \in ReadStates => dirBy' = "run" \/ (cur \in ReadStates /\ dirBy' = dirBy)
  BY DEF Fits
<1>2. /\ s.log.adc = "Idle"
      /\ s.cur = "Finishing" => s.log.vol = "VOLSD" \/ (s.log.state = "Pending" /\ fr = "ok")
  <2>1. cur = "FILEwrite" => log.vol = "VOLSD"
    BY DEF Uses, Now, SdStates
  <2>2. s.cur = "Idle" => log.state = "Pending"
    BY DEF Fits
  <2>3. s.cur = "Finishing" => cur = "FILEwrite" \/ (log.state = "Pending" /\ fr = "ok")
    BY DEF Fits
  <2>4. s.cur # "Idle" => s.log.adc = "Idle"
    BY <1>1 DEF Uses
  <2> QED BY <1>1, <2>1, <2>2, <2>3, <2>4
<1> DEFINE e == EndPass(s, fr)
<1>3. /\ Uses(e) /\ e.trap = s.trap
      /\ s.usage["DIRECTORY"] # "run" => e.usage["DIRECTORY"] = s.usage["DIRECTORY"]
      /\ s.usage["DELETING"] # "run" => e.usage["DELETING"] = s.usage["DELETING"]
      /\ e.cur \in ReadStates => s.cur \in ReadStates
  BY <1>1, <1>2, EndPassUses
<1>4. e \in RunType
  BY <1>1, EndPassType
<1>5. cur' = e.cur /\ log' = e.log /\ usage' = e.usage /\ fileOpen' = e.fileOpen /\ trap' = e.trap
  BY <1>1 DEF Pass
<1> HIDE DEF e
<1>6. Now' = e
  BY <1>4, <1>5 DEF Now, RunType
<1>7. Uses(Now)'
  BY <1>3, <1>6 DEF Uses, HasFile
<1> QED BY <1>1, <1>3, <1>5, <1>7

-----------------------------------------------------------------------------
(* The inductive invariant.                                                *)

\* Until the log is stopped in the last pass of its set up.
StopInv ==
  "stop last" \notin events =>
    /\ stopped => log.state \in {"Finishing", "Stopped"}
    /\ cur = "Finishing" => log.state = "Pending"
    /\ cmd.name = "run" => log.state \in {"Idle", "Stopped"}

\* No run is asked for before the last one is out of the queue.
Orderly == "run early" \notin events

\* One run at a time is in the queue, and DeferredLogRun is in the middle of it.
QueueInv ==
  /\ cur # "Idle" => tasks # <<>> /\ Head(tasks) = "FileLog"
  /\ Once(tasks, "FileLog")
  /\ cmd.name = "run" => log.state \in {"Idle", "Stopped"} /\ ~Has(tasks, "FileLog")
  /\ log.state \in {"Idle", "Pending", "Stopped"} => log.adc = "Idle"

\* What the run command found when it looked still holds when the log is set up.
KeepInv ==
  "create" \notin events =>
    /\ /\ cmd.name = "run" /\ (cmd.at = "Done" \/ (cmd.at = "FILEclosedir" /\ cmd.ok))
       /\ cmd.p.vol = "VOLSD" /\ ~cmd.p.fLogOnBoot /\ ~cmd.p.del
       => files = 0
    /\ spare => /\ cur \notin {"Waiting", "FILEdelete"}
                /\ Has(tasks, "FileLog") /\ cur \in Early => files = 0

\* A command that is past its fsopendir, and got it open.
HasOpened == cmd.at = "FILEreaddir" \/ (cmd.at = "FILEclosedir" /\ cmd.name = "run")

\* Who has an entry of fileTask, and who has the directory object.
EntryInv ==
  /\ Uses(Now)
  /\ cur \in ReadStates => dirBy = "run"
  /\ HasOpened => dirBy = usage["DIRECTORY"]
  /\ cmd.name = "run" /\ cmd.at # "Done" => usage["DIRECTORY"] = "start"
  /\ cmd.name = "list" => usage["DIRECTORY"] = "list"
  /\ cmd.name = "delete" => usage["DELETING"] = "delete"
  /\ Has(tasks, "FileDelete") => usage["DELETING"] = "delete" /\ cmd.name # "delete"
  /\ Once(tasks, "FileDelete")

\* The timer is off unless the log runs, and then no run is in the queue.
TimerInv ==
  "count" \notin events =>
    /\ trap = "none"
    /\ timerOn => log.state = "Running"
    /\ Has(tasks, "FileLog") => log.state # "Running"

-----------------------------------------------------------------------------
(* The types.                                                              *)

LEMMA InitTypes == Init => Types
<1> SUFFICES ASSUME Init PROVE Types
  OBVIOUS
<1>1. \A p \in Params : p.vol \in Vols /\ p.fLogOnBoot \in BOOLEAN
  BY LogControlAssumption
<1>2. log \in LogType /\ tasks \in Seq(TaskType) /\ Len(tasks) <= 1
  <2>1. CASE /\ log = [state |-> "Idle", stcd |-> "STCDNormal", vol |-> "VOLRAM",
                       fLogOnBoot |-> FALSE, adc |-> "Idle"]
             /\ tasks = <<>>
    BY <2>1 DEF LogType, Vols
  <2>2. ASSUME NEW p \in Params, tasks = <<"FileLog">>,
               log = [state |-> "Pending", stcd |-> "STCDNormal", vol |-> p.vol,
                      fLogOnBoot |-> TRUE, adc |-> "Idle"]
        PROVE  log \in LogType /\ tasks \in Seq(TaskType) /\ Len(tasks) <= 1
    BY <2>2, <1>1 DEF LogType, TaskType
  <2> QED BY <2>1, <2>2 DEF Init
<1> QED
  <2>1. usage \in UsageType /\ cur = "Idle" /\ cmd = NoCmd
    BY DEF Init, UsageType, Nobody
  <2>2. Len(tasks) <= MaxTasks /\ errs \in 0 .. MaxErr
    BY <1>2, LogControlAssumption, LenProperties DEF Init
  <2>3. cmd \in {NoCmd} \cup RunCmds \cup ListCmds \cup DeleteCmds /\ cmd.name = "none"
    BY <2>1 DEF NoCmd
  <2>4. /\ timerOn = FALSE /\ drained = TRUE /\ fileOpen = FALSE /\ dirBy = Nobody
        /\ files \in 0 .. MaxFiles /\ stopped = FALSE /\ spare = FALSE /\ trap = "none"
    BY DEF Init
  <2> QED BY <1>2, <2>1, <2>2, <2>3, <2>4 DEF Types, RunStates, Traps

LEMMA NextTypes ==
  ASSUME Types, [Next]_vars
  PROVE  Types'
<1>a. MaxTasks \in Nat \ {0} /\ MaxErr \in Nat /\ MaxFiles \in Nat \ {0}
  BY LogControlAssumption
<1>t. tasks # <<>> => Tail(tasks) \in Seq(TaskType) /\ Len(Tail(tasks)) <= Len(tasks)
                      /\ Len(Tail(tasks)) \in Nat /\ Len(tasks) \in Nat
  BY TailHas, LenProperties DEF Types
<1>p. \A u \in TaskType : Append(tasks, u) \in Seq(TaskType) /\ Len(Append(tasks, u)) = Len(tasks) + 1
  BY AppendHas DEF Types
<1>n. Len(tasks) \in Nat
  BY LenProperties DEF Types
<1>o. ASSUME TaskOver, tasks # <<>>, cmd' = cmd
      PROVE  /\ tasks' \in Seq(TaskType) /\ Len(tasks') <= MaxTasks
             /\ cmd'.name \in {"run", "delete"} => Len(tasks') < MaxTasks
  BY <1>o, <1>t, <1>a DEF TaskOver, Types
<1> USE DEF Types
<1>0. CASE UNCHANGED vars
  BY <1>0 DEF vars
<1>1. CASE DeferredLogRun
  <2>1. CASE Refused
    <3>1. tasks # <<>> /\ TaskOver /\ cmd' = cmd
      BY <1>1, <2>1 DEF Refused, DeferredLogRun
    <3> QED BY <2>1, <3>1, <1>o DEF Refused, Traps
  <2>2. CASE RunFinishing
    <3>1. tasks # <<>> /\ TaskOver /\ cmd' = cmd
      BY <1>1, <2>2 DEF RunFinishing, DeferredLogRun
    <3> QED BY <2>2, <3>1, <1>o DEF RunFinishing, LogType, RunStates
  <2>3. CASE RunDone
    <3>1. tasks # <<>> /\ TaskOver /\ cmd' = cmd
      BY <1>1, <2>3 DEF RunDone, DeferredLogRun
    <3> QED BY <2>3, <3>1, <1>o DEF RunDone, RunStates
  <2>4. ASSUME NEW s, NEW fr, Fits(s, fr) PROVE Types'
    <3> HIDE DEF Types
    <3>1. PICK x, y : Fits(x, y)
      BY <2>4
    <3> QED BY <2>4, PassStep DEF Types
  <2> QED BY <1>1, <2>1, <2>2, <2>3, <2>4, RunFits
<1>2. CASE FileDelete
  <2>1. tasks # <<>> /\ TaskOver /\ cmd' = cmd
    BY <1>2 DEF FileDelete
  <2> QED BY <1>2, <2>1, <1>o DEF FileDelete, UsageType, Doings, Nobody
<1>3. CASE ResetInstruments
  <2>1. tasks # <<>> /\ TaskOver /\ cmd' = cmd
    BY <1>3 DEF ResetInstruments
  <2> QED BY <1>3, <2>1, <1>o DEF ResetInstruments
<1>4. ASSUME NEW who \in {"start", "list"}, CmdOpendir(who) PROVE Types'
  <2>1. cmd.at = "FILEopendir" /\ cmd.name # "none"
    BY <1>4 DEF CmdOpendir
  <2>2. ASSUME NEW a \in {"FILEreaddir", "FILEclosedir"}, cmd' = [cmd EXCEPT !.at = a]
        PROVE  cmd' \in RunCmds \cup ListCmds /\ cmd'.name = cmd.name
    BY <2>1, <2>2 DEF NoCmd, RunCmds, ListCmds, DeleteCmds
  <2>3. CASE dirBy' = who /\ cmd' = [cmd EXCEPT !.at = "FILEreaddir"] /\ UNCHANGED usage
    BY <1>4, <1>n, <2>2, <2>3 DEF CmdOpendir
  <2>4. CASE CmdOver /\ usage' = [usage EXCEPT !["DIRECTORY"] = Nobody] /\ UNCHANGED dirBy
    BY <1>4, <1>n, <2>4 DEF CmdOpendir, CmdOver, UsageType, Doings, Nobody, NoCmd
  <2>5. CASE cmd' = [cmd EXCEPT !.at = "FILEclosedir"] /\ UNCHANGED <<usage, dirBy>>
    BY <1>4, <1>n, <2>2, <2>5 DEF CmdOpendir
  <2> QED BY <1>4, <2>3, <2>4, <2>5 DEF CmdOpendir
<1>5. CASE CmdReaddir
  <2>1. cmd \in RunCmds
    BY <1>5 DEF CmdReaddir, NoCmd, RunCmds, ListCmds, DeleteCmds
  <2>2. cmd' \in RunCmds /\ cmd'.name = cmd.name
    BY <1>5, <2>1 DEF CmdReaddir, RunCmds
  <2> QED BY <1>5, <2>2 DEF CmdReaddir
<1>6. CASE CmdClosedir
  BY <1>6, <1>a, <1>n DEF CmdClosedir, UsageType, Doings, Nobody, NoCmd, RunCmds, ListCmds, DeleteCmds
<1>7. CASE CmdDone
  <2>1. cmd \in RunCmds
    BY <1>7 DEF CmdDone, NoCmd, RunCmds, ListCmds, DeleteCmds
  <2>2. cmd.p \in Params /\ cmd.p.vol \in Vols /\ cmd.p.fLogOnBoot \in BOOLEAN /\ cmd.p.del \in BOOLEAN
    BY <2>1, LogControlAssumption DEF RunCmds
  <2>3. log' \in LogType
    BY <1>7, <2>2 DEF CmdDone, LogType
  <2>4. "FileLog" \in TaskType
    BY DEF TaskType
  <2>5. spare' \in BOOLEAN /\ stopped' \in BOOLEAN
    BY <1>7 DEF CmdDone
  <2>6. tasks' \in Seq(TaskType) /\ Len(tasks') <= MaxTasks
    BY <1>7, <1>n, <1>a, <1>p, <2>1, <2>4 DEF CmdDone, RunCmds
  <2>7. cmd' = NoCmd
    BY <1>7 DEF CmdDone, CmdOver
  <2> QED BY <1>7, <2>3, <2>5, <2>6, <2>7 DEF CmdDone, NoCmd
<1>r. CASE ListReaddir
  <2>1. cmd' \in ListCmds /\ cmd'.name = "list"
    BY <1>r DEF ListReaddir, NoCmd, RunCmds, ListCmds, DeleteCmds
  <2> QED BY <1>r, <2>1 DEF ListReaddir
<1>8. CASE ListClosedir
  BY <1>8, <1>a, <1>n DEF ListClosedir, CmdOver, UsageType, Doings, Nobody, NoCmd
<1>9. CASE DeleteExist
  <2>1. "FileDelete" \in TaskType /\ cmd.name = "delete"
    BY <1>9 DEF TaskType, DeleteExist
  <2>2. tasks' \in Seq(TaskType) /\ Len(tasks') <= MaxTasks
    <3>1. CASE tasks' = Append(tasks, "FileDelete")
      BY <1>n, <1>a, <1>p, <2>1, <3>1
    <3>2. CASE UNCHANGED tasks
      BY <3>2
    <3> QED BY <1>9, <3>1, <3>2 DEF DeleteExist
  <2> QED BY <1>9, <2>2 DEF DeleteExist, CmdOver, UsageType, Doings, Nobody, NoCmd
<1>10. CASE Drain
  BY <1>10, <1>a, <1>n DEF Drain
<1>11. CASE TargetFinishes
  <2>1. log' \in LogType
    BY <1>11 DEF TargetFinishes, LogType
  <2> QED BY <1>11, <2>1, ZenonT(30) DEF TargetFinishes
<1>12. CASE TargetIdle
  <2>1. log' \in LogType
    BY <1>12 DEF TargetIdle, LogType
  <2>2. usage' \in UsageType /\ fileOpen' \in BOOLEAN
    BY <1>12 DEF TargetIdle, UsageType, Nobody
  <2> QED BY <1>12, <2>1, <2>2 DEF TargetIdle
<1>13. CASE LogStopped
  BY <1>13, <1>a, <1>n DEF LogStopped, LogType
<1>14. ASSUME NEW p \in Params, RunCommand(p) PROVE Types'
  <2>1. PICK a \in {"FILEopendir", "Done"} :
          /\ cmd' = [name |-> "run", at |-> a, p |-> p, ok |-> TRUE]
          /\ usage' = [usage EXCEPT !["DIRECTORY"] = "start"] \/ usage' = usage
    BY <1>14 DEF RunCommand
  <2>2. cmd' \in RunCmds
    BY <2>1 DEF RunCmds
  <2>3. usage' \in UsageType
    BY <2>1 DEF UsageType, Doings
  <2> QED BY <1>14, <2>2, <2>3, <1>n DEF RunCommand
<1>15. CASE Halt
  BY <1>15, <1>a, <1>n, ZenonT(30) DEF Halt, LogType
<1>16. CASE ListCommand
  BY <1>16, <1>a, <1>n DEF ListCommand, UsageType, Doings, Nobody, NoCmd, ListCmds
<1>17. CASE DeleteCommand
  BY <1>17, <1>a, <1>n DEF DeleteCommand, UsageType, Doings, Nobody, NoCmd, DeleteCmds
<1>18. CASE CreateCommand
  BY <1>18, <1>a, <1>n DEF CreateCommand, NoCmd
<1>19. CASE ResetCommand
  <2>1. "ResetInstruments" \in TaskType
    BY DEF TaskType
  <2> QED BY <1>19, <1>n, <1>a, <1>p, <2>1 DEF ResetCommand, NoCmd
<1>20. CASE CountReached
  BY <1>20, <1>a, <1>n DEF CountReached, LogType
<1> QED BY <1>0, <1>1, <1>2, <1>3, <1>4, <1>5, <1>6, <1>7, <1>r, <1>8, <1>9, <1>10, <1>11, <1>12, <1>13, <1>14, <1>15, <1>16, <1>17, <1>18, <1>19, <1>20
        DEF Next, PeriodicTasks, Progress, ADCTargetsTask, Environment, LogStop, Button

-----------------------------------------------------------------------------
(* A stop is noticed, whatever else happens.                               *)

LEMMA NoCmdName == NoCmd.name = "none" /\ NoCmd.at = "Idle"
BY DEF NoCmd

\* The steps that leave the log and DeferredLogRun alone, and begin no run.
Aside ==
  \/ FileDelete \/ ResetInstruments \/ CmdReaddir \/ CmdClosedir \/ ListReaddir \/ ListClosedir \/ DeleteExist
  \/ Drain \/ ListCommand \/ DeleteCommand \/ CreateCommand \/ ResetCommand
  \/ \E who \in {"start", "list"} : CmdOpendir(who)

LEMMA AsideQueue ==
  ASSUME Types, Aside
  PROVE  /\ UNCHANGED <<log, cur, stopped, spare, trap, errs, fileOpen>>
         /\ cmd'.name = "run" => cmd.name = "run"
         /\ \/ tasks' = tasks
            \/ tasks # <<>> /\ Head(tasks) # "FileLog" /\ tasks' = Tail(tasks)
            \/ \E u \in {"FileDelete", "ResetInstruments"} : tasks' = Append(tasks, u)
<1>1. UNCHANGED <<log, cur, stopped, spare, trap, errs, fileOpen>>
  BY DEF Aside, FileDelete, ResetInstruments, CmdReaddir, CmdClosedir, ListReaddir, ListClosedir, DeleteExist, Drain,
         ListCommand, DeleteCommand, CreateCommand, ResetCommand, CmdOpendir
<1>2. cmd'.name = "run" => cmd.name = "run"
  <2>1. CASE FileDelete \/ ResetInstruments \/ Drain \/ CreateCommand \/ ResetCommand
    BY <2>1 DEF FileDelete, ResetInstruments, Drain, CreateCommand, ResetCommand
  <2>2. CASE CmdReaddir \/ CmdClosedir
    BY <2>2 DEF CmdReaddir, CmdClosedir
  <2>3. CASE ListClosedir \/ DeleteExist
    <3>1. cmd' = NoCmd
      BY <2>3 DEF ListReaddir, ListClosedir, DeleteExist, CmdOver
    <3> QED BY <3>1, NoCmdName
  <2>4. CASE ListCommand
    BY <2>4 DEF ListCommand
  <2>5. CASE DeleteCommand
    BY <2>5 DEF DeleteCommand
  <2>6. CASE \E who \in {"start", "list"} : CmdOpendir(who)
    <3>1. CASE cmd' = NoCmd
      BY <3>1, NoCmdName
    <3>2. ASSUME NEW a, cmd' = [cmd EXCEPT !.at = a] PROVE cmd'.name = cmd.name
      BY <3>2 DEF Types, NoCmd, RunCmds, ListCmds, DeleteCmds
    <3> QED BY <2>6, <3>1, <3>2 DEF CmdOpendir, CmdOver
  <2>7. CASE ListReaddir
    BY <2>7 DEF ListReaddir, Types, NoCmd, RunCmds, ListCmds, DeleteCmds
  <2> QED BY <2>1, <2>2, <2>3, <2>4, <2>5, <2>6, <2>7 DEF Aside
<1>3. \/ tasks' = tasks
      \/ tasks # <<>> /\ Head(tasks) # "FileLog" /\ tasks' = Tail(tasks)
      \/ \E u \in {"FileDelete", "ResetInstruments"} : tasks' = Append(tasks, u)
  <2>1. CASE FileDelete \/ ResetInstruments
    BY <2>1 DEF FileDelete, ResetInstruments, TaskOver
  <2>2. CASE DeleteExist \/ ResetCommand
    BY <2>2 DEF DeleteExist, ResetCommand
  <2>3. CASE CmdReaddir \/ CmdClosedir \/ ListReaddir \/ ListClosedir \/ Drain \/ ListCommand \/ DeleteCommand \/ CreateCommand
             \/ \E who \in {"start", "list"} : CmdOpendir(who)
    BY <2>3 DEF CmdReaddir, CmdClosedir, ListReaddir, ListClosedir, Drain, ListCommand, DeleteCommand, CreateCommand, CmdOpendir
  <2> QED BY <2>1, <2>2, <2>3 DEF Aside
<1> QED BY <1>1, <1>2, <1>3

LEMMA NextStop ==
  ASSUME Types, StopInv, [Next]_vars
  PROVE  StopInv'
<1> SUFFICES ASSUME "stop last" \notin events'
             PROVE  /\ stopped' => log'.state \in {"Finishing", "Stopped"}
                    /\ cur' = "Finishing" => log'.state = "Pending"
                    /\ cmd'.name = "run" => log'.state \in {"Idle", "Stopped"}
  BY DEF StopInv
<1>i. /\ "stop last" \notin events
      /\ stopped => log.state \in {"Finishing", "Stopped"}
      /\ cur = "Finishing" => log.state = "Pending"
      /\ cmd.name = "run" => log.state \in {"Idle", "Stopped"}
      /\ log \in LogType
  BY DEF StopInv, Next, vars, Types
<1>0. CASE UNCHANGED vars
  BY <1>0, <1>i DEF vars
<1>1. CASE DeferredLogRun
  <2>1. CASE Refused
    BY <1>i, <2>1 DEF Refused
  <2>2. CASE RunFinishing
    BY <1>i, <2>2 DEF RunFinishing, LogType
  <2>3. CASE RunDone
    BY <1>i, <2>3 DEF RunDone
  <2>4. ASSUME NEW s, NEW fr, Fits(s, fr)
        PROVE  /\ stopped' => log'.state \in {"Finishing", "Stopped"}
               /\ cur' = "Finishing" => log'.state = "Pending"
               /\ cmd'.name = "run" => log'.state \in {"Idle", "Stopped"}
    <3>1. /\ UNCHANGED <<cmd, stopped>> /\ (cur' = "Finishing" => log'.state = "Pending")
          /\ log'.state = log.state \/ (log.state = "Pending" /\ log'.state = "Stopped")
      BY <2>4, PassStep
    <3> QED BY <1>i, <3>1
  <2> QED BY <1>1, <2>1, <2>2, <2>3, <2>4, RunFits
<1>2. CASE Aside
  <2>1. UNCHANGED <<log, cur, stopped>> /\ (cmd'.name = "run" => cmd.name = "run")
    BY <1>2, AsideQueue
  <2> QED BY <1>i, <2>1
<1>3. CASE CmdDone
  BY <1>3, <1>i DEF CmdDone, CmdOver, NoCmd
<1>4. CASE TargetFinishes \/ TargetIdle
  <2>1. log'.state = log.state /\ UNCHANGED <<cur, stopped, cmd>>
    BY <1>4, <1>i DEF TargetFinishes, TargetIdle, LogType
  <2> QED BY <1>i, <2>1
<1>5. CASE LogStopped
  BY <1>5, <1>i DEF LogStopped, LogType
<1>6. ASSUME NEW p \in Params, RunCommand(p)
      PROVE  /\ stopped' => log'.state \in {"Finishing", "Stopped"}
             /\ cur' = "Finishing" => log'.state = "Pending"
             /\ cmd'.name = "run" => log'.state \in {"Idle", "Stopped"}
  BY <1>6, <1>i DEF RunCommand, InUse, LogType
<1>7. CASE LogStop \/ Button
  <2>1. cur # "Finishing" /\ cmd.name # "run"
    <3>1. CASE LogStop
      <4>1. cmd.name = "none"
        BY <3>1 DEF LogStop, NoCmd
      <4> QED BY <3>1, <4>1, <1>i DEF LogStop, StopKind
    <3>2. CASE Button
      BY <3>2, <1>i DEF Button
    <3> QED BY <1>7, <3>1, <3>2
  <2>2. /\ log'.state = "Finishing" /\ UNCHANGED <<cur, cmd>>
    BY <1>7, <1>i DEF LogStop, Button, Halt, LogType
  <2> QED BY <2>1, <2>2
<1>8. CASE CountReached
  BY <1>8, <1>i DEF CountReached, LogType
<1> QED BY <1>0, <1>1, <1>2, <1>3, <1>4, <1>5, <1>6, <1>7, <1>8
        DEF Next, PeriodicTasks, Progress, ADCTargetsTask, Environment, Aside

-----------------------------------------------------------------------------
(* One run at a time.                                                      *)

\* What a step aside makes of the queue, and what the end of a run does.
LEMMA QueueHas ==
  ASSUME Types, QueueInv
  PROVE  /\ Aside => /\ Has(tasks', "FileLog") => Has(tasks, "FileLog")
                     /\ Once(tasks', "FileLog")
                     /\ cur # "Idle" => tasks' # <<>> /\ Head(tasks') = "FileLog"
         /\ tasks # <<>> /\ Head(tasks) = "FileLog" =>
              /\ Has(tasks, "FileLog") /\ cmd.name # "run"
              /\ TaskOver => ~Has(tasks', "FileLog") /\ Once(tasks', "FileLog")
<1>1. tasks # <<>> /\ Head(tasks) = "FileLog" => Has(tasks, "FileLog") /\ cmd.name # "run"
  <2>1. tasks # <<>> => Head(tasks) = tasks[1] /\ 1 \in 1 .. Len(tasks)
    BY HeadTailProperties, EmptySeq, LenProperties DEF Types
  <2> QED BY <2>1 DEF Has, QueueInv
<1>2. tasks # <<>> /\ Head(tasks) = "FileLog" /\ TaskOver =>
        ~Has(tasks', "FileLog") /\ Once(tasks', "FileLog")
  BY TailHas DEF TaskOver, Types, QueueInv
<1>3. ASSUME Aside
      PROVE  /\ Has(tasks', "FileLog") => Has(tasks, "FileLog")
             /\ Once(tasks', "FileLog")
             /\ cur # "Idle" => tasks' # <<>> /\ Head(tasks') = "FileLog"
  <2>1. CASE tasks' = tasks
    BY <2>1 DEF QueueInv, Has, Once
  <2>2. CASE tasks # <<>> /\ Head(tasks) # "FileLog" /\ tasks' = Tail(tasks)
    BY <2>2, TailHas DEF QueueInv, Types
  <2>3. ASSUME NEW u \in {"FileDelete", "ResetInstruments"}, tasks' = Append(tasks, u)
        PROVE  /\ Has(tasks', "FileLog") => Has(tasks, "FileLog")
               /\ Once(tasks', "FileLog")
               /\ cur # "Idle" => tasks' # <<>> /\ Head(tasks') = "FileLog"
    <3>1. u \in TaskType /\ u # "FileLog" /\ tasks \in Seq(TaskType)
      BY DEF TaskType, Types
    <3> QED BY <2>3, <3>1, AppendHas DEF QueueInv
  <2> QED BY <1>3, <2>1, <2>2, <2>3, AsideQueue
<1> QED BY <1>1, <1>2, <1>3

LEMMA NextQueue ==
  ASSUME Types, Orderly, QueueInv, [Next]_vars
  PROVE  QueueInv'
<1>i. /\ cur # "Idle" => tasks # <<>> /\ Head(tasks) = "FileLog"
      /\ Once(tasks, "FileLog")
      /\ cmd.name = "run" => log.state \in {"Idle", "Stopped"} /\ ~Has(tasks, "FileLog")
      /\ log.state \in {"Idle", "Pending", "Stopped"} => log.adc = "Idle"
      /\ log \in LogType /\ tasks \in Seq(TaskType)
  BY DEF QueueInv, Types
<1>0. CASE UNCHANGED vars
  BY <1>0, <1>i DEF vars, QueueInv
<1>1. CASE DeferredLogRun
  <2>0. /\ tasks # <<>> /\ Head(tasks) = "FileLog" /\ cmd.name # "run"
        /\ TaskOver => Once(tasks', "FileLog")
    BY <1>1, QueueHas DEF DeferredLogRun
  <2>1. CASE Refused
    BY <1>i, <2>0, <2>1 DEF Refused, QueueInv
  <2>2. CASE RunFinishing
    <3>1. log'.state = "Running" /\ cur' = "Idle" /\ cmd' = cmd /\ TaskOver
      BY <1>i, <2>2 DEF RunFinishing, LogType
    <3> QED BY <2>0, <3>1 DEF QueueInv
  <2>3. CASE RunDone
    BY <1>i, <2>0, <2>3 DEF RunDone, QueueInv
  <2>4. ASSUME NEW s, NEW fr, Fits(s, fr) PROVE QueueInv'
    <3>1. /\ UNCHANGED <<cmd, tasks>> /\ log'.adc = log.adc
          /\ log'.state = log.state \/ (log.state = "Pending" /\ log'.state = "Stopped")
      BY <2>4, PassStep
    <3> QED BY <1>i, <2>0, <3>1 DEF QueueInv
  <2> QED BY <1>1, <2>1, <2>2, <2>3, <2>4, RunFits
<1>2. CASE Aside
  BY <1>2, <1>i, AsideQueue, QueueHas DEF QueueInv
<1>3. CASE CmdDone
  <2>1. /\ tasks' = Append(tasks, "FileLog") /\ log'.adc = "Idle" /\ cmd' = NoCmd /\ cur' = cur
        /\ ~Has(tasks, "FileLog")
    BY <1>3, <1>i DEF CmdDone, CmdOver
  <2>2. "FileLog" \in TaskType
    BY DEF TaskType
  <2>3. /\ Once(tasks', "FileLog")
        /\ tasks # <<>> => tasks' # <<>> /\ Head(tasks') = Head(tasks)
    BY <1>i, <2>1, <2>2, AppendHas
  <2> QED BY <1>i, <2>1, <2>3, NoCmdName DEF QueueInv
<1>4. CASE TargetFinishes \/ TargetIdle
  <2>1. /\ log'.state = log.state /\ UNCHANGED <<cur, tasks, cmd>>
        /\ log.adc # "Idle" \/ log'.adc = "Idle"
    BY <1>4, <1>i DEF TargetFinishes, TargetIdle, LogType
  <2> QED BY <1>i, <2>1 DEF QueueInv
<1>5. CASE LogStopped
  <2>1. log'.state = "Stopped" /\ log'.adc = "Idle" /\ UNCHANGED <<cur, tasks, cmd>> /\ log.state = "Finishing"
    BY <1>5, <1>i DEF LogStopped, LogType
  <2> QED BY <1>i, <2>1 DEF QueueInv
<1>6. ASSUME NEW p \in Params, RunCommand(p) PROVE QueueInv'
  <2>1. /\ log.state \in {"Idle", "Stopped"} /\ UNCHANGED <<log, cur, tasks>>
        /\ \A i \in DOMAIN tasks : tasks[i] # "FileLog"
    BY <1>6, <1>i DEF RunCommand, InUse, LogType, Orderly
  <2>2. ~Has(tasks, "FileLog")
    BY <1>i, <2>1, LenProperties DEF Has
  <2> QED BY <1>i, <2>1, <2>2 DEF QueueInv
<1>7. CASE LogStop \/ Button \/ CountReached
  <2>1. cmd.name # "run"
    BY <1>7, <1>i, NoCmdName DEF LogStop, Button, CountReached, QueueInv
  <2>2. log'.state = "Finishing" /\ UNCHANGED <<cur, tasks>>
    BY <1>7, <1>i DEF LogStop, Button, CountReached, Halt, LogType
  <2>3. cmd' = cmd
    BY <1>7 DEF LogStop, Button, CountReached, Halt
  <2> QED BY <1>i, <2>1, <2>2, <2>3 DEF QueueInv
<1> QED BY <1>0, <1>1, <1>2, <1>3, <1>4, <1>5, <1>6, <1>7
        DEF Next, PeriodicTasks, Progress, ADCTargetsTask, Environment, Aside

-----------------------------------------------------------------------------
(* What was to be kept is kept.                                            *)

LEMMA NextKeep ==
  ASSUME Types, QueueInv, KeepInv, [Next]_vars
  PROVE  KeepInv'
<1> DEFINE Found == cmd.name = "run" /\ (cmd.at = "Done" \/ (cmd.at = "FILEclosedir" /\ cmd.ok))
                    /\ cmd.p.vol = "VOLSD" /\ ~cmd.p.fLogOnBoot /\ ~cmd.p.del
           Kept == spare => /\ cur \notin {"Waiting", "FILEdelete"}
                            /\ Has(tasks, "FileLog") /\ cur \in Early => files = 0
<1> SUFFICES ASSUME "create" \notin events' PROVE (Found' => files' = 0) /\ Kept'
  BY DEF KeepInv
<1>i. /\ "create" \notin events /\ (Found => files = 0) /\ Kept
      /\ cmd.name = "run" => ~Has(tasks, "FileLog")
      /\ tasks \in Seq(TaskType) /\ cur \in RunStates
  BY DEF KeepInv, Next, vars, QueueInv, Types
<1>n. ASSUME cmd'.name # "run" PROVE ~Found'
  BY <1>n
<1>0. CASE UNCHANGED vars
  BY <1>0, <1>i DEF vars
<1>1. CASE DeferredLogRun
  <2>0. /\ Has(tasks, "FileLog") /\ cmd.name # "run" /\ (TaskOver => ~Has(tasks', "FileLog"))
    BY <1>1, QueueHas DEF DeferredLogRun
  <2>1. CASE Refused \/ RunFinishing \/ RunDone
    <3>1. TaskOver /\ cur' = "Idle" /\ cmd' = cmd
      BY <2>1 DEF Refused, RunFinishing, RunDone
    <3> QED BY <1>n, <2>0, <3>1
  <2>2. ASSUME NEW s, NEW fr, Fits(s, fr) PROVE ~Found' /\ Kept'
    <3>1. /\ UNCHANGED <<cmd, tasks, spare>>
          /\ cur' \in {"Waiting", "FILEdelete"} =>
               cur \in {"Waiting", "FILEdelete"} \/ (cur = "FILEreaddir" /\ files > 0)
          /\ cur' \in Early =>
               cur \in {"Waiting", "FILEdelete"} \/ (cur \in Early /\ (files = 0 => files' = 0))
      BY <2>2, PassStep
    <3>2. "FILEreaddir" \in Early
      BY DEF Early
    <3> QED BY <1>i, <1>n, <2>0, <3>1, <3>2
  <2> QED BY <1>1, <2>1, <2>2, RunFits
<1>2. CASE Aside
  <2>1. UNCHANGED <<cur, spare>> /\ (Has(tasks', "FileLog") => Has(tasks, "FileLog"))
    BY <1>2, AsideQueue, QueueHas
  <2>2. files' = files
    BY <1>2, <1>i DEF Aside, FileDelete, ResetInstruments, CmdReaddir, CmdClosedir, ListReaddir, ListClosedir, DeleteExist,
                      Drain, ListCommand, DeleteCommand, CreateCommand, ResetCommand, CmdOpendir
  <2>3. Found' => files = 0
    <3>1. CASE cmd' = cmd
      BY <1>i, <3>1
    <3>2. CASE cmd'.name # "run"
      BY <3>2
    <3>3. CASE CmdReaddir
      <4>1. cmd \in RunCmds
        BY <3>3 DEF CmdReaddir, Types, NoCmd, RunCmds, ListCmds, DeleteCmds
      <4>2. CASE (files = 0 \/ cmd.p.del) /\ cmd' = [cmd EXCEPT !.at = "FILEclosedir"]
        BY <4>1, <4>2 DEF RunCmds
      <4>3. CASE cmd' = [cmd EXCEPT !.at = "FILEclosedir", !.ok = FALSE]
        BY <4>1, <4>3 DEF RunCmds
      <4> QED BY <3>3, <4>2, <4>3 DEF CmdReaddir
    <3>4. CASE CmdClosedir
      <4>1. cmd \in RunCmds
        BY <3>4 DEF CmdClosedir, Types, NoCmd, RunCmds, ListCmds, DeleteCmds
      <4>2. CASE cmd.ok /\ cmd' = [cmd EXCEPT !.at = "Done"]
        BY <1>i, <3>4, <4>1, <4>2 DEF RunCmds, CmdClosedir
      <4>3. CASE cmd' = NoCmd
        BY <4>3, NoCmdName
      <4> QED BY <3>4, <4>2, <4>3 DEF CmdClosedir
    <3>5. CASE \E who \in {"start", "list"} : CmdOpendir(who)
      <4>1. CASE cmd' = NoCmd
        BY <4>1, NoCmdName
      <4>2. CASE cmd' = [cmd EXCEPT !.at = "FILEreaddir"]
        BY <4>2 DEF Types, NoCmd, RunCmds, ListCmds, DeleteCmds
      <4>3. ASSUME cmd.name = "list", cmd' = [cmd EXCEPT !.at = "FILEclosedir"] PROVE cmd'.name # "run"
        BY <4>3 DEF Types, NoCmd, RunCmds, ListCmds, DeleteCmds
      <4> QED BY <3>5, <4>1, <4>2, <4>3 DEF CmdOpendir, CmdOver
    <3>6. CASE ListClosedir \/ DeleteExist
      BY <3>6, NoCmdName DEF ListReaddir, ListClosedir, DeleteExist, CmdOver
    <3>7. CASE ListCommand \/ ListReaddir
      <4>1. ASSUME ListReaddir PROVE cmd'.name # "run"
        BY <4>1 DEF ListReaddir, Types, NoCmd, RunCmds, ListCmds, DeleteCmds
      <4> QED BY <3>7, <4>1 DEF ListCommand
    <3>8. CASE DeleteCommand
      BY <3>8 DEF DeleteCommand
    <3> QED BY <1>2, <3>1, <3>2, <3>3, <3>4, <3>5, <3>6, <3>7, <3>8
            DEF Aside, FileDelete, ResetInstruments, Drain, CreateCommand, ResetCommand
  <2> HIDE DEF Found
  <2> QED BY <1>i, <2>1, <2>2, <2>3
<1>3. CASE CmdDone
  <2>1. /\ cmd.name = "run" /\ cmd.at = "Done" /\ cmd' = NoCmd /\ UNCHANGED <<cur, files>>
        /\ spare' = (cmd.p.vol = "VOLSD" /\ ~cmd.p.fLogOnBoot /\ ~cmd.p.del)
    BY <1>3 DEF CmdDone, CmdOver
  <2>2. cur = "Idle"
    BY <1>i, <2>1, QueueHas DEF QueueInv
  <2> QED BY <1>i, <2>1, <2>2, NoCmdName
<1>4. CASE TargetFinishes \/ TargetIdle \/ LogStopped \/ LogStop \/ Button \/ CountReached
  <2>1. UNCHANGED <<cmd, cur, files, spare, tasks>>
    BY <1>4 DEF TargetFinishes, TargetIdle, LogStopped, LogStop, Button, Halt, CountReached
  <2> QED BY <1>i, <2>1
<1>5. ASSUME NEW p \in Params, RunCommand(p) PROVE (Found' => files' = 0) /\ Kept'
  <2>1. UNCHANGED <<cur, files, spare, tasks>>
    BY <1>5 DEF RunCommand
  <2>2. ~Found'
    <3>1. CASE p.vol = "VOLSD" /\ ~p.fLogOnBoot
      <4>1. cmd' = [name |-> "run", at |-> "FILEopendir", p |-> p, ok |-> TRUE]
        BY <1>5, <3>1 DEF RunCommand
      <4> QED BY <4>1
    <3>2. CASE ~(p.vol = "VOLSD" /\ ~p.fLogOnBoot)
      <4>1. cmd' = [name |-> "run", at |-> "Done", p |-> p, ok |-> TRUE]
        BY <1>5, <3>2 DEF RunCommand
      <4>2. cmd'.p = p
        BY <4>1
      <4> QED BY <3>2, <4>2
    <3> QED BY <3>1, <3>2
  <2> QED BY <1>i, <2>1, <2>2
<1> HIDE DEF Found, Kept
<1> QED BY <1>0, <1>1, <1>2, <1>3, <1>4, <1>5
        DEF Next, PeriodicTasks, Progress, ADCTargetsTask, Environment, Aside

-----------------------------------------------------------------------------
(* A run holds what it uses.                                               *)

\* Uses(Now), in the variables.
Held ==
  /\ usage["DIRECTORY"] = "run" <=> cur \in DirStates
  /\ usage["DELETING"] = "run" <=> cur = "FILEdelete"
  /\ usage["LOGGING"] # Nobody <=> (HasLogFile \/ cur = "FILEopen")
  /\ fileOpen <=> HasLogFile
  /\ cur # "Idle" => log.adc = "Idle"
  /\ cur \in SdStates => log.vol = "VOLSD"

LEMMA UsesHeld == (Uses(Now) <=> Held) /\ (Uses(Now)' <=> Held')
BY DEF Uses, Now, HasFile, HasLogFile, Held

\* The commands that use the directory object or delete a file.
Asked ==
  /\ HasOpened => dirBy = usage["DIRECTORY"]
  /\ cmd.name = "run" /\ cmd.at # "Done" => usage["DIRECTORY"] = "start"
  /\ cmd.name = "list" => usage["DIRECTORY"] = "list"
  /\ cmd.name = "delete" => usage["DELETING"] = "delete"
ToDelete ==
  /\ Has(tasks, "FileDelete") => usage["DELETING"] = "delete" /\ cmd.name # "delete"
  /\ Once(tasks, "FileDelete")

LEMMA EntryParts ==
  /\ EntryInv <=> Held /\ (cur \in ReadStates => dirBy = "run") /\ Asked /\ ToDelete
  /\ EntryInv' <=> Held' /\ (cur' \in ReadStates => dirBy' = "run") /\ Asked' /\ ToDelete'
BY UsesHeld DEF EntryInv, Asked, HasOpened, ToDelete

LEMMA NextEntry ==
  ASSUME Types, QueueInv, EntryInv, [Next]_vars, "FILEclose" \notin Faults
  PROVE  EntryInv'
<1> DEFINE Reads == cur \in ReadStates => dirBy = "run"
<1> SUFFICES Held' /\ Reads' /\ Asked' /\ ToDelete'
  BY EntryParts
<1>i. Held /\ Reads /\ Asked /\ ToDelete
  BY EntryParts
<1>t. /\ log \in LogType /\ usage \in UsageType /\ tasks \in Seq(TaskType) /\ cur \in RunStates
      /\ cmd \in {NoCmd} \cup RunCmds \cup ListCmds \cup DeleteCmds
  BY DEF Types
<1>d. DirStates \subseteq SdStates /\ ReadStates \subseteq DirStates
  BY DEF DirStates, SdStates, ReadStates
\* Steps that leave the entries, the file, the run and the command alone.
<1>s. ASSUME UNCHANGED <<cur, log, usage, fileOpen, dirBy, cmd>>,
             tasks' = tasks \/ (tasks # <<>> /\ tasks' = Tail(tasks)) \/ tasks' = Append(tasks, "ResetInstruments")
                            \/ tasks' = Append(tasks, "FileLog")
      PROVE  Held' /\ Reads' /\ Asked' /\ ToDelete'
  <2>1. Held' /\ Reads' /\ Asked'
    BY <1>i, <1>s DEF Held, HasLogFile, Asked, HasOpened
  <2>2. ToDelete'
    <3>1. CASE tasks' = tasks
      BY <1>i, <1>s, <3>1 DEF ToDelete
    <3>2. CASE tasks # <<>> /\ tasks' = Tail(tasks)
      BY <1>i, <1>s, <1>t, <3>2, TailHas DEF ToDelete
    <3>3. ASSUME NEW u \in TaskType, u # "FileDelete", tasks' = Append(tasks, u) PROVE ToDelete'
      BY <1>i, <1>s, <1>t, <3>3, AppendHas DEF ToDelete
    <3> QED BY <1>s, <3>1, <3>2, <3>3 DEF TaskType
  <2> QED BY <2>1, <2>2
<1>0. CASE UNCHANGED vars
  BY <1>0, <1>s DEF vars
<1>1. CASE DeferredLogRun
  <2>0. tasks # <<>>
    BY <1>1 DEF DeferredLogRun
  <2>1. CASE Refused
    BY <2>0, <2>1, <1>s DEF Refused, TaskOver
  <2>2. CASE RunFinishing
    <3>1. /\ cur = "Finishing" /\ cur' = "Idle" /\ log'.adc = "Running" /\ log'.vol = log.vol
          /\ UNCHANGED <<usage, fileOpen, dirBy, cmd>> /\ tasks' = Tail(tasks)
      BY <2>2, <1>t DEF RunFinishing, LogType, TaskOver
    <3>2. Held'
      BY <1>i, <3>1 DEF Held, HasLogFile, DirStates, SdStates
    <3>3. Reads' /\ Asked'
      BY <1>i, <3>1 DEF Asked, HasOpened, ReadStates
    <3>4. ToDelete'
      BY <1>i, <1>t, <2>0, <3>1, TailHas DEF ToDelete
    <3> QED BY <3>2, <3>3, <3>4
  <2>3. CASE RunDone
    <3>1. /\ cur = "Done" /\ cur' = "Idle" /\ UNCHANGED <<log, usage, fileOpen, dirBy, cmd>>
          /\ tasks' = Tail(tasks)
      BY <2>3 DEF RunDone, TaskOver
    <3>2. Held'
      BY <1>i, <3>1 DEF Held, HasLogFile, DirStates, SdStates
    <3>3. Reads' /\ Asked'
      BY <1>i, <3>1 DEF Asked, HasOpened, ReadStates
    <3>4. ToDelete'
      BY <1>i, <1>t, <2>0, <3>1, TailHas DEF ToDelete
    <3> QED BY <3>2, <3>3, <3>4
  <2>4. ASSUME NEW s, NEW fr, Fits(s, fr) PROVE Held' /\ Reads' /\ Asked' /\ ToDelete'
    <3>1. /\ Uses(Now)'
          /\ usage["DIRECTORY"] \notin {Nobody, "run"} =>
               usage'["DIRECTORY"] = usage["DIRECTORY"] /\ dirBy' = dirBy
          /\ usage["DELETING"] \notin {Nobody, "run"} => usage'["DELETING"] = usage["DELETING"]
          /\ cur' \in ReadStates => dirBy' = "run" \/ (cur \in ReadStates /\ dirBy' = dirBy)
      BY <1>i, <2>4, UsesHeld, PassUses DEF QueueInv
    <3>2. UNCHANGED <<cmd, tasks>>
      BY <2>4, PassStep
    <3>3. HasOpened => usage["DIRECTORY"] \in {"start", "list"}
      BY <1>i, <1>t, NoCmdName DEF Asked, HasOpened, RunCmds, ListCmds, DeleteCmds
    <3>4. Asked' /\ ToDelete'
      BY <1>i, <3>1, <3>2, <3>3 DEF Asked, HasOpened, ToDelete, Nobody
    <3> QED BY <1>i, <3>1, <3>4, UsesHeld
  <2> QED BY <1>1, <2>1, <2>2, <2>3, <2>4, RunFits
<1>2. CASE FileDelete
  <2>1. /\ tasks # <<>> /\ Head(tasks) = "FileDelete" /\ tasks' = Tail(tasks)
        /\ usage' = [usage EXCEPT !["DELETING"] = Nobody]
        /\ UNCHANGED <<cur, log, fileOpen, dirBy, cmd>>
    BY <1>2 DEF FileDelete, TaskOver
  <2>2. Has(tasks, "FileDelete") /\ ~Has(Tail(tasks), "FileDelete") /\ Once(Tail(tasks), "FileDelete")
    <3>1. Head(tasks) = tasks[1] /\ 1 \in 1 .. Len(tasks)
      BY <1>t, <2>1, HeadTailProperties, EmptySeq, LenProperties
    <3>2. Has(tasks, "FileDelete")
      BY <2>1, <3>1 DEF Has
    <3> QED BY <1>i, <1>t, <2>1, <3>2, TailHas DEF ToDelete
  <2>3. usage["DELETING"] = "delete" /\ cmd.name # "delete"
    BY <1>i, <2>2 DEF ToDelete
  <2> QED BY <1>i, <1>t, <2>1, <2>2, <2>3 DEF Held, HasLogFile, Asked, HasOpened, ToDelete, UsageType, Doings, Nobody
<1>3. CASE ResetInstruments \/ Drain \/ CreateCommand \/ ResetCommand
  BY <1>3, <1>s DEF ResetInstruments, Drain, CreateCommand, ResetCommand, TaskOver
\* The commands, with the entry of fileTask each takes or gives back.
<1>4. ASSUME UNCHANGED <<cur, log, fileOpen, tasks>>, NEW w, cur \in ReadStates => dirBy' = "run",
             usage' = [usage EXCEPT !["DIRECTORY"] = w],
             usage["DIRECTORY"] # "run" /\ w # "run", cmd'.name # "delete"
      PROVE  Held' /\ Reads' /\ ToDelete'
  BY <1>i, <1>t, <1>4 DEF Held, HasLogFile, ToDelete, UsageType, Doings
<1>5. ASSUME NEW who \in {"start", "list"}, CmdOpendir(who)
      PROVE  Held' /\ Reads' /\ Asked' /\ ToDelete'
  <2>1. usage["DIRECTORY"] = who /\ cur \notin ReadStates
    BY <1>5, <1>i, <1>d DEF CmdOpendir, Held
  <2>2. CASE dirBy' = who /\ cmd' = [cmd EXCEPT !.at = "FILEreaddir"] /\ UNCHANGED usage
    <3>1. cmd'.name = cmd.name /\ cmd'.at = "FILEreaddir" /\ cmd.at = "FILEopendir"
      BY <1>5, <1>t, <2>2, NoCmdName DEF CmdOpendir, RunCmds, ListCmds, DeleteCmds
    <3>2. UNCHANGED <<cur, log, fileOpen, tasks>>
      BY <1>5 DEF CmdOpendir
    <3> QED BY <1>i, <2>1, <2>2, <3>1, <3>2 DEF Held, HasLogFile, Asked, HasOpened, ToDelete
  <2>3. CASE cmd' = NoCmd /\ usage' = [usage EXCEPT !["DIRECTORY"] = Nobody]
    <3>1. UNCHANGED <<cur, log, fileOpen, tasks>> /\ Asked'
      BY <1>5, <2>3, NoCmdName DEF CmdOpendir, Asked, HasOpened
    <3> QED BY <2>1, <2>3, <3>1, <1>4, NoCmdName DEF Nobody
  <2>4. CASE cmd.name = "list" /\ cmd' = [cmd EXCEPT !.at = "FILEclosedir"] /\ UNCHANGED <<usage, dirBy>>
    <3>2. cmd'.name = "list" /\ cmd'.at = "FILEclosedir"
      BY <1>t, <2>4, NoCmdName DEF RunCmds, ListCmds, DeleteCmds
    <3>3. UNCHANGED <<cur, log, fileOpen, tasks>>
      BY <1>5 DEF CmdOpendir
    <3> QED BY <1>i, <2>4, <3>2, <3>3 DEF Held, HasLogFile, Asked, HasOpened, ToDelete
  <2> QED BY <1>5, <2>2, <2>3, <2>4 DEF CmdOpendir, CmdOver
<1>6. CASE CmdReaddir
  <2>1. cmd'.name = "run" /\ cmd'.at = "FILEclosedir" /\ cmd.name = "run" /\ cmd.at = "FILEreaddir"
    <3>1. cmd \in RunCmds
      BY <1>6, <1>t, NoCmdName DEF CmdReaddir, ListCmds, DeleteCmds
    <3> QED BY <1>6, <3>1 DEF CmdReaddir, RunCmds
  <2>2. UNCHANGED <<cur, log, usage, fileOpen, dirBy, tasks>>
    BY <1>6 DEF CmdReaddir
  <2> QED BY <1>i, <2>1, <2>2 DEF Held, HasLogFile, Asked, HasOpened, ToDelete
<1>7. CASE CmdClosedir
  <2>1. /\ usage["DIRECTORY"] = "start" /\ usage' = [usage EXCEPT !["DIRECTORY"] = Nobody]
        /\ UNCHANGED <<cur, log, fileOpen, tasks>>
    BY <1>7, <1>i DEF CmdClosedir, Asked, HasOpened
  <2>2. cmd'.name # "delete" /\ cmd'.name # "list" /\ cmd'.at \in {"Done", "Idle"} /\ (cmd'.name = "run" => cmd'.at = "Done")
    <3>1. cmd \in RunCmds
      BY <1>7, <1>t, NoCmdName DEF CmdClosedir, ListCmds, DeleteCmds
    <3>2. CASE cmd.ok
      BY <1>7, <3>1, <3>2 DEF CmdClosedir, RunCmds
    <3>3. CASE ~cmd.ok
      BY <1>7, <3>3, NoCmdName DEF CmdClosedir
    <3> QED BY <3>2, <3>3
  <2>3. Asked'
    BY <2>2 DEF Asked, HasOpened
  <2>4. cur \notin ReadStates
    BY <1>i, <1>d, <2>1 DEF Held
  <2> QED BY <2>1, <2>2, <2>3, <2>4, <1>4 DEF Nobody
<1>r. CASE ListReaddir
  <2>1. cmd'.name = "list" /\ cmd'.at = "FILEclosedir" /\ cmd.name = "list"
    BY <1>r, <1>t, NoCmdName DEF ListReaddir, RunCmds, ListCmds, DeleteCmds
  <2>2. UNCHANGED <<cur, log, usage, fileOpen, dirBy, tasks>>
    BY <1>r DEF ListReaddir
  <2> QED BY <1>i, <2>1, <2>2 DEF Held, HasLogFile, Asked, HasOpened, ToDelete
<1>8. CASE ListClosedir
  <2>1. /\ usage["DIRECTORY"] = "list" /\ usage' = [usage EXCEPT !["DIRECTORY"] = Nobody]
        /\ UNCHANGED <<cur, log, fileOpen, tasks>> /\ cmd' = NoCmd
    BY <1>8, <1>i DEF ListClosedir, CmdOver, Asked, HasOpened
  <2>2. cur \notin ReadStates
    BY <1>i, <1>d, <2>1 DEF Held
  <2>3. Asked'
    BY <2>1, NoCmdName DEF Asked, HasOpened
  <2> QED BY <2>1, <2>2, <2>3, <1>4, NoCmdName DEF Nobody
<1>9. CASE DeleteExist
  <2>1. /\ usage["DELETING"] = "delete" /\ cmd' = NoCmd /\ ~Has(tasks, "FileDelete")
        /\ UNCHANGED <<cur, log, fileOpen, dirBy>>
    BY <1>9, <1>i DEF DeleteExist, CmdOver, Asked, HasOpened, ToDelete
  <2>2. Asked'
    BY <2>1, NoCmdName DEF Asked, HasOpened
  <2>3. CASE tasks' = Append(tasks, "FileDelete") /\ UNCHANGED usage
    <3>1. "FileDelete" \in TaskType
      BY DEF TaskType
    <3>2. Once(tasks', "FileDelete")
      BY <1>i, <1>t, <2>1, <2>3, <3>1, AppendHas DEF ToDelete
    <3> QED BY <1>i, <2>1, <2>2, <2>3, <3>2, NoCmdName DEF Held, HasLogFile, ToDelete
  <2>4. CASE usage' = [usage EXCEPT !["DELETING"] = Nobody] /\ UNCHANGED tasks
    BY <1>i, <1>t, <2>1, <2>2, <2>4 DEF Held, HasLogFile, ToDelete, UsageType, Doings, Nobody
  <2> QED BY <1>9, <2>3, <2>4 DEF DeleteExist
<1>10. CASE ListCommand
  <2>1. /\ usage["DIRECTORY"] = Nobody /\ usage' = [usage EXCEPT !["DIRECTORY"] = "list"]
        /\ UNCHANGED <<cur, log, fileOpen, tasks, dirBy>>
        /\ cmd'.name = "list" /\ cmd'.at = "FILEopendir"
    BY <1>10 DEF ListCommand
  <2>2. Asked'
    BY <1>t, <2>1 DEF Asked, HasOpened, UsageType, Doings
  <2> QED BY <1>i, <2>1, <2>2, <1>4 DEF Nobody
<1>11. CASE DeleteCommand
  <2>1. /\ usage["DELETING"] = Nobody /\ usage' = [usage EXCEPT !["DELETING"] = "delete"]
        /\ UNCHANGED <<cur, log, fileOpen, tasks, dirBy>>
        /\ cmd'.name = "delete" /\ cmd'.at = "FILEexist"
    BY <1>11 DEF DeleteCommand
  <2>2. ~Has(tasks, "FileDelete")
    BY <1>i, <2>1 DEF ToDelete, Nobody
  <2> QED BY <1>i, <1>t, <2>1, <2>2 DEF Held, HasLogFile, Asked, HasOpened, ToDelete, UsageType, Doings, Nobody
<1>12. CASE CmdDone
  <2>1. /\ cmd.name = "run" /\ cmd' = NoCmd /\ tasks' = Append(tasks, "FileLog") /\ log'.adc = "Idle"
        /\ UNCHANGED <<cur, usage, fileOpen, dirBy>>
    BY <1>12 DEF CmdDone, CmdOver
  <2>2. cur = "Idle" /\ log.adc = "Idle"
    BY <2>1, QueueHas DEF QueueInv
  <2>3. Held' /\ Reads' /\ Asked'
    BY <1>i, <2>1, <2>2, NoCmdName DEF Held, HasLogFile, Asked, HasOpened, DirStates, SdStates
  <2>4. "FileLog" \in TaskType /\ "FileLog" # "FileDelete"
    BY DEF TaskType
  <2>5. ToDelete'
    BY <1>i, <1>t, <2>1, <2>4, AppendHas, NoCmdName DEF ToDelete
  <2> QED BY <2>3, <2>5
<1>13. ASSUME NEW p \in Params, RunCommand(p)
       PROVE  Held' /\ Reads' /\ Asked' /\ ToDelete'
  <2>1. UNCHANGED <<cur, log, fileOpen, tasks, dirBy>>
    BY <1>13 DEF RunCommand
  <2>2. CASE p.vol = "VOLSD" /\ ~p.fLogOnBoot
    <3>1. /\ usage["DIRECTORY"] = Nobody /\ usage' = [usage EXCEPT !["DIRECTORY"] = "start"]
          /\ cmd' = [name |-> "run", at |-> "FILEopendir", p |-> p, ok |-> TRUE]
      BY <1>13, <2>2 DEF RunCommand
    <3>2. cmd'.name = "run" /\ cmd'.at = "FILEopendir"
      BY <3>1
    <3>3. Asked'
      BY <1>t, <3>1, <3>2 DEF Asked, HasOpened, UsageType, Doings
    <3> QED BY <1>i, <2>1, <3>1, <3>2, <3>3, <1>4 DEF Nobody
  <2>3. CASE ~(p.vol = "VOLSD" /\ ~p.fLogOnBoot)
    <3>1. /\ cmd' = [name |-> "run", at |-> "Done", p |-> p, ok |-> TRUE] /\ UNCHANGED usage
      BY <1>13, <2>3 DEF RunCommand
    <3>2. cmd'.name = "run" /\ cmd'.at = "Done"
      BY <3>1
    <3> QED BY <1>i, <2>1, <3>1, <3>2 DEF Held, HasLogFile, Asked, HasOpened, ToDelete
  <2> QED BY <2>2, <2>3
<1>14. CASE LogStop \/ Button \/ CountReached \/ LogStopped
  <2>1. /\ log'.vol = log.vol /\ log'.adc = log.adc /\ UNCHANGED <<cur, usage, fileOpen, dirBy, tasks, cmd>>
    BY <1>14, <1>t DEF LogStop, Button, Halt, CountReached, LogStopped, LogType
  <2> QED BY <1>i, <2>1 DEF Held, HasLogFile, Asked, HasOpened, ToDelete
<1>15. CASE TargetFinishes
  <2>1. /\ log'.vol = log.vol /\ log'.adc # "Idle" /\ log.adc # "Idle"
        /\ UNCHANGED <<cur, usage, fileOpen, dirBy, tasks, cmd>>
    BY <1>15, <1>t DEF TargetFinishes, LogType
  <2> QED BY <1>i, <2>1 DEF Held, HasLogFile, Asked, HasOpened, ToDelete
<1>16. CASE TargetIdle
  <2>1. /\ log'.vol = log.vol /\ log'.adc = "Idle" /\ log.adc # "Idle"
        /\ UNCHANGED <<cur, dirBy, tasks, cmd>>
        /\ IF log.vol = "VOLSD" THEN fileOpen' = FALSE /\ usage' = [usage EXCEPT !["LOGGING"] = Nobody]
           ELSE UNCHANGED <<fileOpen, usage>>
    BY <1>16, <1>t DEF TargetIdle, LogType
  <2>2. cur = "Idle"
    BY <1>i, <2>1 DEF Held
  <2> QED BY <1>i, <1>t, <2>1, <2>2
          DEF Held, HasLogFile, Asked, HasOpened, ToDelete, UsageType, Doings, Nobody, DirStates, SdStates, ReadStates
<1> HIDE DEF Reads
<1> QED BY <1>0, <1>1, <1>2, <1>3, <1>5, <1>6, <1>7, <1>r, <1>8, <1>9, <1>10, <1>11, <1>12, <1>13, <1>14, <1>15, <1>16
        DEF Next, PeriodicTasks, Progress, ADCTargetsTask, Environment

-----------------------------------------------------------------------------
(* No ASSERT fails.                                                        *)

LEMMA NextTimer ==
  ASSUME Types, QueueInv, EntryInv, TimerInv, [Next]_vars, "FILEclose" \notin Faults
  PROVE  TimerInv'
<1> DEFINE Safe == /\ trap = "none"
                   /\ timerOn => log.state = "Running"
                   /\ Has(tasks, "FileLog") => log.state # "Running"
<1> SUFFICES ASSUME "count" \notin events' PROVE Safe'
  BY DEF TimerInv
<1>i. "count" \notin events /\ Safe /\ log \in LogType
  BY DEF TimerInv, Next, vars, Types
<1>0. CASE UNCHANGED vars
  BY <1>0, <1>i DEF vars
<1>1. CASE DeferredLogRun
  <2>0. Has(tasks, "FileLog") /\ (TaskOver => ~Has(tasks', "FileLog"))
    BY <1>1, QueueHas DEF DeferredLogRun
  <2>1. CASE Refused
    BY <1>i, <2>0, <2>1 DEF Refused
  <2>2. CASE RunFinishing
    BY <1>i, <2>0, <2>2 DEF RunFinishing, LogType
  <2>3. CASE RunDone
    BY <1>i, <2>0, <2>3 DEF RunDone
  <2>4. ASSUME NEW s, NEW fr, Fits(s, fr) PROVE Safe'
    <3>1. trap' = trap
      BY <2>4, PassUses DEF EntryInv, QueueInv
    <3>2. /\ UNCHANGED <<timerOn, tasks>>
          /\ log'.state = log.state \/ (log.state = "Pending" /\ log'.state = "Stopped")
      BY <2>4, PassStep
    <3> QED BY <1>i, <3>1, <3>2
  <2> QED BY <1>1, <2>1, <2>2, <2>3, <2>4, RunFits
<1>2. CASE Aside
  <2>1. /\ UNCHANGED <<log, trap>> /\ (Has(tasks', "FileLog") => Has(tasks, "FileLog"))
    BY <1>2, AsideQueue, QueueHas
  <2>2. timerOn' = timerOn \/ timerOn' = FALSE
    BY <1>2 DEF Aside, FileDelete, ResetInstruments, CmdReaddir, CmdClosedir, ListReaddir, ListClosedir, DeleteExist,
                Drain, ListCommand, DeleteCommand, CreateCommand, ResetCommand, CmdOpendir
  <2> QED BY <1>i, <2>1, <2>2
<1>3. CASE CmdDone
  <2>1. log.state \in {"Idle", "Stopped"} /\ log'.state = "Pending" /\ UNCHANGED <<timerOn, trap>>
    BY <1>3 DEF CmdDone, QueueInv
  <2> QED BY <1>i, <2>1
<1>4. CASE TargetFinishes \/ TargetIdle
  <2>1. log'.state = log.state /\ UNCHANGED <<timerOn, trap, tasks>>
    BY <1>4, <1>i DEF TargetFinishes, TargetIdle, LogType
  <2> QED BY <1>i, <2>1
<1>5. CASE LogStopped
  BY <1>5, <1>i DEF LogStopped, LogType
<1>6. CASE LogStop \/ Button
  BY <1>6, <1>i DEF LogStop, Button, Halt, LogType
<1>7. ASSUME NEW p \in Params, RunCommand(p) PROVE Safe'
  BY <1>7, <1>i DEF RunCommand
<1>8. CASE CountReached
  BY <1>8, <1>i DEF CountReached
<1> HIDE DEF Safe
<1> QED BY <1>0, <1>1, <1>2, <1>3, <1>4, <1>5, <1>6, <1>7, <1>8
        DEF Next, PeriodicTasks, Progress, ADCTargetsTask, Environment, Aside

-----------------------------------------------------------------------------
(* The theorems.                                                           *)

LEMMA InitInv == Init => StopInv /\ QueueInv /\ KeepInv /\ EntryInv /\ TimerInv
<1> SUFFICES ASSUME Init PROVE StopInv /\ QueueInv /\ KeepInv /\ EntryInv /\ TimerInv
  OBVIOUS
<1>1. /\ cur = "Idle" /\ cmd = NoCmd /\ timerOn = FALSE /\ fileOpen = FALSE /\ stopped = FALSE
      /\ spare = FALSE /\ trap = "none" /\ usage = [d \in Doings |-> Nobody]
  BY DEF Init
<1>2. /\ log.adc = "Idle" /\ log.state \in {"Idle", "Pending"}
      /\ tasks = <<>> \/ tasks = <<"FileLog">>
  <2>1. CASE /\ log = [state |-> "Idle", stcd |-> "STCDNormal", vol |-> "VOLRAM",
                       fLogOnBoot |-> FALSE, adc |-> "Idle"]
             /\ tasks = <<>>
    BY <2>1
  <2>2. ASSUME NEW p \in Params, tasks = <<"FileLog">>,
               log = [state |-> "Pending", stcd |-> "STCDNormal", vol |-> p.vol,
                      fLogOnBoot |-> TRUE, adc |-> "Idle"]
        PROVE  /\ log.adc = "Idle" /\ log.state \in {"Idle", "Pending"}
               /\ tasks = <<>> \/ tasks = <<"FileLog">>
    BY <2>2
  <2> QED BY <2>1, <2>2 DEF Init
<1>3. Once(tasks, "FileLog") /\ Once(tasks, "FileDelete") /\ ~Has(tasks, "FileDelete")
  BY <1>2 DEF Once, Has
<1>4. StopInv /\ KeepInv /\ TimerInv
  BY <1>1, <1>2, NoCmdName DEF StopInv, KeepInv, TimerInv
<1>5. QueueInv
  BY <1>1, <1>2, <1>3, NoCmdName DEF QueueInv
<1>6. Held /\ Asked /\ ToDelete
  BY <1>1, <1>2, <1>3, NoCmdName
     DEF Held, Asked, HasOpened, ToDelete, HasLogFile, Doings, Nobody, DirStates, SdStates
<1>7. EntryInv
  BY <1>1, <1>6, EntryParts DEF ReadStates
<1> QED BY <1>4, <1>5, <1>7

\* Every variable of LogControl keeps to its type: a run command leaves room in
\* the queue for its task, and a file is deleted only when there is one.
THEOREM TypeCorrect == Spec => []TypeOK
<1>1. Types => TypeOK
  BY NoCmdName DEF Types, TypeOK, LogType, UsageType, TaskType, Traps, RunCmds, ListCmds, DeleteCmds
<1> QED BY <1>1, InitTypes, NextTypes, PTL DEF Spec

\* A log that was stopped does not run, unless the stop fell into the last pass of
\* its set up: whatever the parameters and the other events, and also when a run
\* is asked for while the last one is still in the queue.
THEOREM StopHolds == Spec => []StopWins
<1> DEFINE I == Types /\ StopInv
<1>1. Init => I
  BY InitTypes, InitInv
<1>2. I /\ [Next]_vars => I'
  BY NextTypes, NextStop
<1>3. I => StopWins
  BY DEF StopInv, StopWins
<1> QED BY <1>1, <1>2, <1>3, PTL DEF Spec

\* A run that was to keep existing files deletes none, when each run is asked for
\* after the last one has left the queue and nobody makes a file of the log
\* between the search of the command and that of its task.
THEOREM FilesKept == Spec => [](Orderly => KeepsFiles)
<1> DEFINE I == Types /\ (Orderly => QueueInv /\ KeepInv)
<1>1. Init => I
  BY InitTypes, InitInv
<1>2. I /\ [Next]_vars => I'
  <2> SUFFICES ASSUME I, [Next]_vars, Orderly' PROVE I'
    BY NextTypes
  <2>1. Orderly
    BY DEF Orderly, Next, vars
  <2> QED BY <2>1, NextTypes, NextQueue, NextKeep
<1>3. I => (Orderly => KeepsFiles)
  BY DEF KeepInv, KeepsFiles
<1> QED BY <1>1, <1>2, <1>3, PTL DEF Spec

\* What holds when each run is asked for after the last one has left the queue.
Entries == Orderly => QueueInv /\ EntryInv /\ TimerInv

LEMMA EntriesHold ==
  ASSUME "FILEclose" \notin Faults
  PROVE  Spec => [](Types /\ Entries)
<1>1. Init => Types /\ Entries
  BY InitTypes, InitInv DEF Entries
<1>2. Types /\ Entries /\ [Next]_vars => (Types /\ Entries)'
  <2> SUFFICES ASSUME Types, Entries, [Next]_vars, Orderly' PROVE (QueueInv /\ EntryInv /\ TimerInv)'
    BY NextTypes DEF Entries
  <2>1. Orderly
    BY DEF Orderly, Next, vars
  <2> QED BY <2>1, NextQueue, NextEntry, NextTimer DEF Entries
<1> QED BY <1>1, <1>2, PTL DEF Spec

\* A run holds an entry of fileTask, the log file and the directory object exactly
\* when it uses them, wherever it is stopped or fails: when each run is asked for
\* after the last one has left the queue, and the log file can be closed.
THEOREM EntriesHeld ==
  ASSUME "FILEclose" \notin Faults
  PROVE  Spec => [](Orderly => HoldsWhatItUses)
<1>1. Types /\ Entries => (Orderly => HoldsWhatItUses)
  <2> SUFFICES ASSUME EntryInv PROVE HoldsWhatItUses
    BY DEF Entries
  <2> QED BY EntryParts DEF Held, Asked, HasOpened, HoldsWhatItUses, DirStates, ReadStates
<1> QED BY <1>1, EntriesHold, PTL

\* No ASSERT of DeferredLogRun or of ClearUsage fails before a log ends by its
\* count, on the same conditions, also when a stop falls into the last pass of the
\* set up.
THEOREM AssertsHold ==
  ASSUME "FILEclose" \notin Faults
  PROVE  Spec => []NoAssert
<1>1. Types /\ Entries => NoAssert
  BY DEF Entries, Orderly, TimerInv, NoAssert
<1> QED BY <1>1, EntriesHold, PTL
=============================================================================
