----------------------------- MODULE LogControl -----------------------------
(***************************************************************************)
(* Starting and stopping a log.  The JSON command "run" (FnLogRun in       *)
(* Parse.cpp) looks in the directory, copies its parameters to logIParam   *)
(* and queues FileLog; the deferred task DeferredLogRun (ADC.cpp) deletes  *)
(* the old files, creates the first new one and starts the instrument.     *)
(* "stop" (FnLogStop) and the button only change logIParam.state: whoever  *)
(* is in the middle of something finds out later.  ADCTargetsTask takes a  *)
(* finishing log to Stopped.                                               *)
(*                                                                         *)
(* One step is one pass of one of these state machines.  A pass whose file *)
(* system call returns FR_WAITING_FOR_THREAD changes nothing.  The target  *)
(* of the log is SdTarget seen from here; the queue is DeferredQueue.      *)
(***************************************************************************)
EXTENDS Integers, Sequences

CONSTANTS
  Params,      \* the parameters a log may be run with
  EventSets,   \* what else may happen, see EventKinds: one of these
  Faults,      \* states of DeferredLogRun whose file system call may fail
  MaxTasks,    \* bound: tasks in the queue
  MaxErr,      \* bound: failures injected
  MaxFiles     \* bound: old files of the log

EventKinds == {"stop setup", "stop last", "stop running", "count", "target error", "timeout",
               "reset", "list", "delete", "create", "run early"}
Vols == {"VOLRAM", "VOLCLOUD", "VOLSD"}
RunStates == {"Idle", "WaitingForResources", "FILEVerify", "FILEopendir", "FILEreaddir",
              "Waiting", "FILEdelete", "FILEclosedir", "FILEgetsize", "FILEopen",
              "FILEseek", "FILEwrite", "FILEclose", "Finishing", "Done"}

ASSUME LogControlAssumption ==
  /\ Params \subseteq [vol : Vols, fLogOnBoot : BOOLEAN, del : BOOLEAN]
  /\ EventSets \subseteq SUBSET EventKinds /\ Faults \subseteq RunStates
  /\ MaxTasks \in Nat \ {0} /\ MaxErr \in Nat /\ MaxFiles \in Nat \ {0}

VARIABLES
  log,       \* logIParam: state, stcd, vol, fLogOnBoot, and adcTrg.state
  timerOn,   \* ADCSAMPTMR.TxCON.ON
  drained,   \* padcRawEnd = padcRawStart
  cur,       \* curState of DeferredLogRun
  usage,     \* fileTask: who has the DIRECTORY, DELETING and LOGGING entries
  fileOpen,  \* the LOGGING DFILE is open
  dirBy,     \* who opened the one directory object, DDIRINFO
  files,     \* old files of the log on the card
  cmd,       \* the JSON command in progress and its curState
  tasks,     \* defTask
  errs,      \* failures injected
  events,    \* which of the other events may happen
  stopped,   \* history: a stop came after the last run command
  spare,     \* history: the run command was to keep existing files
  trap       \* the ASSERT that stopped the firmware, or "none"

vars == <<log, timerOn, drained, cur, usage, fileOpen, dirBy, files, cmd, tasks, errs,
          events, stopped, spare, trap>>

Nobody == "nobody"
NoCmd  == [name |-> "none", at |-> "Idle"]
Doings == {"DIRECTORY", "DELETING", "LOGGING"}

\* After reset; AutoLogOnBootTask may have queued the log saved in flash.
Init ==
  /\ \E booted \in {p \in Params : p.fLogOnBoot} \cup {NoCmd} :
       IF booted = NoCmd
       THEN /\ log = [state |-> "Idle", stcd |-> "STCDNormal", vol |-> "VOLRAM",
                      fLogOnBoot |-> FALSE, adc |-> "Idle"]
            /\ tasks = <<>>
       ELSE /\ log = [state |-> "Pending", stcd |-> "STCDNormal", vol |-> booted.vol,
                      fLogOnBoot |-> TRUE, adc |-> "Idle"]
            /\ tasks = <<"FileLog">>
  /\ timerOn = FALSE /\ drained = TRUE
  /\ cur = "Idle"
  /\ usage = [d \in Doings |-> Nobody]
  /\ fileOpen = FALSE /\ dirBy = Nobody
  /\ files \in 0 .. MaxFiles
  /\ cmd = NoCmd
  /\ errs = 0 /\ events \in EventSets
  /\ stopped = FALSE /\ spare = FALSE
  /\ trap = "none"

-----------------------------------------------------------------------------
(* DeferredLogRun.                                                         *)

\* What a pass of DeferredLogRun may change before it is over.
Now == [cur |-> cur, log |-> log, usage |-> usage, fileOpen |-> fileOpen, trap |-> trap]

Go(s, next)   == [s EXCEPT !.cur = next]
Take(s, d)    == [s EXCEPT !.usage[d] = "run"]

\* FILETask::ClearUsage asserts that the file is closed.
Clear(s, d) == [s EXCEPT !.usage[d] = Nobody,
                         !.trap = IF d = "LOGGING" /\ s.fileOpen THEN "clear while open" ELSE @]

\* "got a file error"
OnError(s, fr) ==
  IF s.log.state = "Pending" /\ fr = "error"
  THEN [s EXCEPT !.log.state = "Stopped", !.log.stcd = "STCDError"]
  ELSE s

\* "something is shutting us down"
GiveUp(s) ==                        \* mutant: nothing is given back
  Go(s, "Done")
Cleanup(s) ==
  CASE s.cur \in {"Idle", "Done", "WaitingForResources", "FILEgetsize"} -> Go(s, "Done")
    [] s.cur \in {"FILEVerify", "FILEopendir", "FILEclosedir"} -> Go(Clear(s, "DIRECTORY"), "Done")
    [] s.cur = "FILEdelete" -> Go(Clear(s, "DELETING"), "FILEclosedir")
    [] s.cur \in {"Waiting", "FILEreaddir"} -> Go(s, "FILEclosedir")
    [] s.cur \in {"FILEopen", "FILEclose"} -> Go(Clear(s, "LOGGING"), "Done")
    [] s.cur \in {"FILEseek", "FILEwrite", "Finishing"} -> Go(s, "FILEclose")

OnlyOnError(s, fr) ==               \* mutant: a stop is not noticed
  LET e == OnError(s, fr) IN IF e.log.state = "Stopped" THEN Cleanup(e) ELSE e
EndPass(s, fr) ==
  LET e == OnError(s, fr) IN IF e.log.state # "Pending" THEN Cleanup(e) ELSE e

\* A pass that gets as far as the end of the function.
Pass(s, fr) ==
  LET e == EndPass(s, fr) IN
  /\ cur' = e.cur /\ log' = e.log /\ usage' = e.usage /\ fileOpen' = e.fileOpen /\ trap' = e.trap
  /\ UNCHANGED <<timerOn, drained, cmd, tasks, stopped, spare>>

Fails(at) == at \in Faults /\ errs < MaxErr /\ errs' = errs + 1

\* The call of state at fails; nothing else happens.
CallFails(at) == Fails(at) /\ Pass(Now, "error") /\ UNCHANGED <<dirBy, files>>

Quiet(s) == Pass(s, "ok") /\ UNCHANGED <<dirBy, files, errs>>

TimedOut == "timeout" \in events /\ Pass(Now, "error") /\ UNCHANGED <<dirBy, files, errs>>

\* The task returns Idle or an error without a look at logIParam.
TaskOver == tasks' = Tail(tasks)

Starts ==
  \/ log.vol = "VOLSD" /\ Quiet(Go(Now, "WaitingForResources"))
  \/ log.vol = "VOLSD" /\ CallFails("Idle")
  \/ log.vol # "VOLSD" /\ Quiet(Go(Now, "Finishing"))

\* "we should not be running": the timer must be off.
RunIdle ==
  /\ cur = "Idle"
  /\ IF ~timerOn /\ log.state = "Pending"
     THEN Starts
     ELSE /\ TaskOver
          /\ trap' = IF timerOn THEN "timer on" ELSE trap
          /\ UNCHANGED <<log, timerOn, drained, cur, usage, fileOpen, dirBy, files, cmd, errs,
                         stopped, spare>>

SearchAtOnce ==                     \* mutant: the directory entry is not asked for
  cur = "WaitingForResources"
  /\ Quiet(Go(Take(Now, "DIRECTORY"), IF log.fLogOnBoot THEN "FILEVerify" ELSE "FILEopendir"))
RunWaitingForResources ==
  /\ cur = "WaitingForResources"
  /\ IF usage.DIRECTORY = Nobody
     THEN Quiet(Go(Take(Now, "DIRECTORY"), IF log.fLogOnBoot THEN "FILEVerify" ELSE "FILEopendir"))
     ELSE Quiet(Now) \/ TimedOut

\* The name exists, or all 1000 do, or a free one is found: no files of it.
RunVerify ==
  /\ cur = "FILEVerify"
  /\ \/ Quiet(Now)
     \/ CallFails("FILEVerify")
     \/ Pass(Go(Now, "FILEopendir"), "ok") /\ files' = 0 /\ UNCHANGED <<dirBy, errs>>

RunOpendir ==
  /\ cur = "FILEopendir"
  /\ \/ Pass(Go(Now, "FILEreaddir"), "ok") /\ dirBy' = "run" /\ UNCHANGED <<files, errs>>
     \/ CallFails("FILEopendir")

\* The next entry is an old file of the log, or there are no more.
ReadPastEnd ==                      \* mutant: the end of the directory is not seen
  cur = "FILEreaddir" /\ Quiet(Go(Now, "Waiting"))
RunReaddir ==
  /\ cur = "FILEreaddir"
  /\ \/ files > 0 /\ Quiet(Go(Now, "Waiting"))
     \/ files = 0 /\ Quiet(Go(Now, "FILEclosedir"))
     \/ CallFails("FILEreaddir")

RunWaiting ==
  /\ cur = "Waiting"
  /\ IF usage.DELETING = Nobody
     THEN Quiet(Go(Take(Now, "DELETING"), "FILEdelete"))
     ELSE Quiet(Now) \/ TimedOut

RunDelete ==
  /\ cur = "FILEdelete"
  /\ \/ /\ Pass(Go(Clear(Now, "DELETING"), "FILEreaddir"), "ok")
        /\ files' = files - 1 /\ UNCHANGED <<dirBy, errs>>
     \/ CallFails("FILEdelete")

RunClosedir ==
  /\ cur = "FILEclosedir"
  /\ \/ /\ Pass(Go(Clear(Now, "DIRECTORY"), "FILEgetsize"), "ok")
        /\ dirBy' = Nobody /\ UNCHANGED <<files, errs>>
     \/ CallFails("FILEclosedir")

\* The LOGGING entry is free, or the log's name is in use.
RunGetsize ==
  /\ cur = "FILEgetsize"
  /\ \/ LET s == [Now EXCEPT !.trap = IF fileOpen THEN "log file open" ELSE @] IN
        IF usage.LOGGING = Nobody
        THEN Quiet(Go(Take(s, "LOGGING"), "FILEopen"))
        ELSE Pass(s, "error") /\ UNCHANGED <<dirBy, files, errs>>
     \/ CallFails("FILEgetsize")

RunOpen ==
  /\ cur = "FILEopen"
  /\ \/ /\ Pass([Go(Now, "FILEseek") EXCEPT !.fileOpen = TRUE], "ok")
        /\ files' = IF files = 0 THEN 1 ELSE files
        /\ UNCHANGED <<dirBy, errs>>
     \/ CallFails("FILEopen")

RunSeek ==
  /\ cur = "FILEseek"
  /\ Quiet(Go(Now, "FILEwrite")) \/ CallFails("FILEseek")

RunWrite ==
  /\ cur = "FILEwrite"
  /\ Quiet(Go(Now, "Finishing")) \/ CallFails("FILEwrite")

RunClose ==
  /\ cur = "FILEclose"
  /\ \/ Quiet(Go(Clear([Now EXCEPT !.fileOpen = FALSE], "LOGGING"), "Done"))
     \/ CallFails("FILEclose")

\* ADCRun, and the log is running; nothing asks whether it still should be.
RunFinishing ==
  /\ cur = "Finishing"
  /\ timerOn' = TRUE /\ drained' = TRUE
  /\ log' = [log EXCEPT !.state = "Running", !.adc = "Running"]
  /\ cur' = "Idle"
  /\ TaskOver
  /\ UNCHANGED <<usage, fileOpen, dirBy, files, cmd, errs, stopped, spare, trap>>

RunDone ==
  /\ cur = "Done" /\ cur' = "Idle"
  /\ TaskOver
  /\ UNCHANGED <<log, timerOn, drained, usage, fileOpen, dirBy, files, cmd, errs, stopped, spare, trap>>

DeferredLogRun ==
  /\ tasks # <<>> /\ Head(tasks) = "FileLog"
  /\ \/ RunIdle \/ RunWaitingForResources \/ RunVerify \/ RunOpendir \/ RunReaddir \/ RunWaiting
     \/ RunDelete \/ RunClosedir \/ RunGetsize \/ RunOpen \/ RunSeek
     \/ RunWrite \/ RunClose \/ RunFinishing \/ RunDone

-----------------------------------------------------------------------------
(* The other deferred tasks.                                               *)

FileDelete ==
  /\ tasks # <<>> /\ Head(tasks) = "FileDelete"
  /\ usage' = [usage EXCEPT !.DELETING = Nobody]
  /\ TaskOver
  /\ UNCHANGED <<log, timerOn, drained, cur, fileOpen, dirBy, files, cmd, errs, stopped, spare, trap>>

\* ADCStopSampling, and the log is not told.
ResetInstruments ==
  /\ tasks # <<>> /\ Head(tasks) = "ResetInstruments"
  /\ timerOn' = FALSE
  /\ TaskOver
  /\ UNCHANGED <<log, drained, cur, usage, fileOpen, dirBy, files, cmd, errs, stopped, spare, trap>>

-----------------------------------------------------------------------------
(* JSON commands, one at a time.  A command that is refused changes        *)
(* nothing and is no step.                                                 *)

CmdOver == cmd' = NoCmd

\* FnLogRun, Idle.  A run of the same log may still be in the queue ("run early").
InUse == log.state \in {"Running", "Finishing", "Pending"}

RunCommand(p) ==
  /\ cmd = NoCmd /\ Len(tasks) < MaxTasks /\ ~InUse
  /\ "run early" \in events \/ \A i \in DOMAIN tasks : tasks[i] # "FileLog"
  /\ IF p.vol = "VOLSD" /\ ~p.fLogOnBoot
     THEN /\ usage.DIRECTORY = Nobody
          /\ usage' = [usage EXCEPT !.DIRECTORY = "start"]
          /\ cmd' = [name |-> "run", at |-> "FILEopendir", p |-> p, ok |-> TRUE]
     ELSE /\ cmd' = [name |-> "run", at |-> "Done", p |-> p, ok |-> TRUE]
          /\ UNCHANGED usage
  /\ UNCHANGED <<log, timerOn, drained, cur, fileOpen, dirBy, files, tasks, errs, stopped, spare, trap>>

\* FnLogRun and FnFileListdir, FILEopendir.  If it fails a run is over, but a list
\* goes on to close the object it did not open.
CmdOpendir(who) ==
  /\ cmd.name # "none" /\ cmd.at = "FILEopendir" /\ usage.DIRECTORY = who
  /\ \/ dirBy' = who /\ cmd' = [cmd EXCEPT !.at = "FILEreaddir"] /\ UNCHANGED usage
     \/ cmd.name = "run" /\ CmdOver /\ usage' = [usage EXCEPT !.DIRECTORY = Nobody] /\ UNCHANGED dirBy
     \/ cmd.name = "list" /\ cmd' = [cmd EXCEPT !.at = "FILEclosedir"] /\ UNCHANGED <<usage, dirBy>>
  /\ UNCHANGED <<log, timerOn, drained, cur, fileOpen, files, tasks, errs, stopped, spare, trap>>

\* FnLogRun, FILEreaddir: no old files, or they may be deleted and none is in
\* use; else, or if the directory cannot be read, the run is refused.
CmdReaddir ==
  /\ cmd.name = "run" /\ cmd.at = "FILEreaddir"
  /\ \/ (files = 0 \/ cmd.p.del) /\ cmd' = [cmd EXCEPT !.at = "FILEclosedir"]
     \/ cmd' = [cmd EXCEPT !.at = "FILEclosedir", !.ok = FALSE]
  /\ UNCHANGED <<log, timerOn, drained, cur, usage, fileOpen, dirBy, files, tasks, errs, stopped,
                 spare, trap>>

CmdClosedir ==
  /\ cmd.name = "run" /\ cmd.at = "FILEclosedir"
  /\ cmd' = IF cmd.ok THEN [cmd EXCEPT !.at = "Done"] ELSE NoCmd
  /\ usage' = [usage EXCEPT !.DIRECTORY = Nobody]
  /\ dirBy' = Nobody
  /\ UNCHANGED <<log, timerOn, drained, cur, fileOpen, files, tasks, errs, stopped, spare, trap>>

\* FnLogRun, Done: memcpy(&logIParam, &logParam), and FileLog is queued.
CmdDone ==
  /\ cmd.name = "run" /\ cmd.at = "Done"
  /\ log' = [state |-> "Pending", stcd |-> "STCDNormal", vol |-> cmd.p.vol,
             fLogOnBoot |-> cmd.p.fLogOnBoot, adc |-> "Idle"]
  /\ tasks' = Append(tasks, "FileLog")
  /\ stopped' = FALSE
  /\ spare' = (cmd.p.vol = "VOLSD" /\ ~cmd.p.fLogOnBoot /\ ~cmd.p.del)
  /\ CmdOver
  /\ UNCHANGED <<timerOn, drained, cur, usage, fileOpen, dirBy, files, errs, trap>>

\* Where the log is when it is told to stop.
StopKind ==
  IF cur = "Finishing" THEN "stop last"
  ELSE IF log.state = "Pending" THEN "stop setup" ELSE "stop running"

Halt ==
  /\ timerOn' = FALSE
  /\ log' = [log EXCEPT !.state = "Finishing", !.stcd = "STCDForce"]
  /\ drained' \in IF log.state = "Running" THEN BOOLEAN ELSE {drained}
  /\ stopped' = TRUE
  /\ UNCHANGED <<cur, usage, fileOpen, dirBy, files, cmd, tasks, errs, spare, trap>>

\* FnLogStop: "can't finish if we never ran".
LogStop == cmd = NoCmd /\ log.state # "Idle" /\ StopKind \in events /\ Halt

\* LEDTask: the button stops a running log, whatever command is in progress.
Button == log.state = "Running" /\ "stop running" \in events /\ Halt

\* FnFileListdir.
ListCommand ==
  /\ "list" \in events /\ cmd = NoCmd /\ usage.DIRECTORY = Nobody
  /\ usage' = [usage EXCEPT !.DIRECTORY = "list"]
  /\ cmd' = [name |-> "list", at |-> "FILEopendir"]
  /\ UNCHANGED <<log, timerOn, drained, cur, fileOpen, dirBy, files, tasks, errs, stopped, spare, trap>>

\* FILEreaddir: there are no more entries, or reading them fails.
ListReaddir ==
  /\ cmd.name = "list" /\ cmd.at = "FILEreaddir"
  /\ cmd' = [cmd EXCEPT !.at = "FILEclosedir"]
  /\ UNCHANGED <<log, timerOn, drained, cur, usage, fileOpen, dirBy, files, tasks, errs, stopped,
                 spare, trap>>

ListClosedir ==
  /\ cmd.name = "list" /\ cmd.at = "FILEclosedir"
  /\ CmdOver
  /\ usage' = [usage EXCEPT !.DIRECTORY = Nobody]
  /\ dirBy' = Nobody
  /\ UNCHANGED <<log, timerOn, drained, cur, fileOpen, files, tasks, errs, stopped, spare, trap>>

\* FnFileDelete: the file exists and FileDelete is queued, or not.
DeleteCommand ==
  /\ "delete" \in events /\ cmd = NoCmd /\ usage.DELETING = Nobody /\ Len(tasks) < MaxTasks
  /\ usage' = [usage EXCEPT !.DELETING = "delete"]
  /\ cmd' = [name |-> "delete", at |-> "FILEexist"]
  /\ UNCHANGED <<log, timerOn, drained, cur, fileOpen, dirBy, files, tasks, errs, stopped, spare, trap>>

DeleteExist ==
  /\ cmd.name = "delete"
  /\ CmdOver
  /\ \/ tasks' = Append(tasks, "FileDelete") /\ UNCHANGED usage
     \/ usage' = [usage EXCEPT !.DELETING = Nobody] /\ UNCHANGED tasks
  /\ UNCHANGED <<log, timerOn, drained, cur, fileOpen, dirBy, files, errs, stopped, spare, trap>>

\* FnFileWrite makes a file with the name of a log.
CreateCommand ==
  /\ "create" \in events /\ cmd = NoCmd /\ files < MaxFiles
  /\ files' = files + 1
  /\ UNCHANGED <<log, timerOn, drained, cur, usage, fileOpen, dirBy, cmd, tasks, errs, stopped,
                 spare, trap>>

\* FnResetInstruments.
ResetCommand ==
  /\ "reset" \in events /\ cmd = NoCmd /\ Len(tasks) < MaxTasks
  /\ tasks' = Append(tasks, "ResetInstruments")
  /\ UNCHANGED <<log, timerOn, drained, cur, usage, fileOpen, dirBy, files, cmd, errs, stopped,
                 spare, trap>>

Progress ==
  \/ \E who \in {"start", "list"} : CmdOpendir(who)
  \/ CmdReaddir \/ CmdClosedir \/ CmdDone \/ ListReaddir \/ ListClosedir \/ DeleteExist

-----------------------------------------------------------------------------
(* The running log.                                                        *)

\* ADCTask: csMax is reached, and the timer stays on.
CountReached ==
  /\ "count" \in events /\ log.state = "Running"
  /\ log' = [log EXCEPT !.state = "Finishing"]
  /\ drained' = TRUE
  /\ UNCHANGED <<timerOn, cur, usage, fileOpen, dirBy, files, cmd, tasks, errs, stopped, spare, trap>>

\* ADCTask converts what is left in the raw ring.
Drain ==
  /\ log.state # "Running" /\ ~drained /\ drained' = TRUE
  /\ UNCHANGED <<log, timerOn, cur, usage, fileOpen, dirBy, files, cmd, tasks, errs, stopped, spare, trap>>

\* ADCTargetsTask.  The SD and the cloud target take a while to finish; the SD
\* target also finishes when a file operation fails or the card is full.
FFinish == log.state = "Finishing" /\ drained

TargetFinishes ==
  /\ log.adc = "Running" /\ log.vol # "VOLRAM"
  /\ FFinish \/ (log.vol = "VOLSD" /\ "target error" \in events)
  /\ log' = [log EXCEPT !.adc = "Finishing"]
  /\ UNCHANGED <<timerOn, drained, cur, usage, fileOpen, dirBy, files, cmd, tasks, errs, stopped,
                 spare, trap>>

TargetIdle ==
  /\ log.adc = "Finishing" \/ (log.adc = "Running" /\ log.vol = "VOLRAM" /\ FFinish)
  /\ log' = [log EXCEPT !.adc = "Idle"]
  /\ IF log.vol = "VOLSD"
     THEN fileOpen' = FALSE /\ usage' = [usage EXCEPT !.LOGGING = Nobody]
     ELSE UNCHANGED <<fileOpen, usage>>
  /\ UNCHANGED <<timerOn, drained, cur, dirBy, files, cmd, tasks, errs, stopped, spare, trap>>

NeverStopped == FALSE               \* mutant: nobody leaves Finishing
LogStopped ==
  /\ log.adc = "Idle" /\ log.state = "Finishing"
  /\ log' = [log EXCEPT !.state = "Stopped"]
  /\ UNCHANGED <<timerOn, drained, cur, usage, fileOpen, dirBy, files, cmd, tasks, errs, stopped,
                 spare, trap>>

ADCTargetsTask == TargetFinishes \/ TargetIdle \/ LogStopped

-----------------------------------------------------------------------------
Environment ==
  \/ \E p \in Params : RunCommand(p)
  \/ LogStop \/ Button \/ ListCommand \/ DeleteCommand \/ CreateCommand \/ ResetCommand
  \/ CountReached

PeriodicTasks == DeferredLogRun \/ FileDelete \/ ResetInstruments

Next ==
  /\ trap = "none"
  /\ PeriodicTasks \/ Progress \/ Drain \/ ADCTargetsTask \/ Environment
  /\ UNCHANGED events

Spec == Init /\ [][Next]_vars

\* Each task is called on every pass of the super loop, and file system calls
\* complete.  The search for a name ends.
FairSpec ==
  /\ Spec
  /\ WF_vars(trap = "none" /\ PeriodicTasks /\ UNCHANGED events)
  /\ WF_vars(trap = "none" /\ Progress /\ UNCHANGED events)
  /\ WF_vars(trap = "none" /\ Drain /\ UNCHANGED events)
  /\ WF_vars(trap = "none" /\ ADCTargetsTask /\ UNCHANGED events)

-----------------------------------------------------------------------------
(* Properties.                                                             *)

TypeOK ==
  /\ log \in [state : {"Idle", "Pending", "Running", "Finishing", "Stopped"},
              stcd : {"STCDNormal", "STCDForce", "STCDError"},
              vol : Vols, fLogOnBoot : BOOLEAN, adc : {"Idle", "Running", "Finishing"}]
  /\ timerOn \in BOOLEAN /\ drained \in BOOLEAN /\ fileOpen \in BOOLEAN
  /\ cur \in RunStates
  /\ usage \in [Doings -> {Nobody, "run", "start", "list", "delete"}]
  /\ dirBy \in {Nobody, "run", "start", "list"}
  /\ files \in 0 .. MaxFiles /\ errs \in 0 .. MaxErr
  /\ cmd.name \in {"none", "run", "list", "delete"}
  /\ tasks \in Seq({"FileLog", "FileDelete", "ResetInstruments"}) /\ Len(tasks) <= MaxTasks
  /\ stopped \in BOOLEAN /\ spare \in BOOLEAN
  /\ trap \in {"none", "timer on", "clear while open", "log file open"}

\* No ASSERT fails: a run finds the timer off and the log file closed, and an
\* entry of fileTask is cleared only when its file is closed.  A log that ended by
\* its count leaves the timer on, and a run that is asked for before the last one
\* is out of the queue may find the log running: an ASSERT refuses both.
NoAssert == events \cap {"count", "run early"} = {} => trap = "none"

\* The log file is open, for DeferredLogRun or for the target.
HasLogFile ==
  \/ cur \in {"FILEseek", "FILEwrite", "FILEclose"}
  \/ log.vol = "VOLSD" /\ (cur = "Finishing" \/ log.adc # "Idle")

\* Who has an entry of fileTask is exactly who needs it: wherever a run is
\* stopped or fails, nothing stays locked and nothing is given away early.  There
\* is one directory object for all: who reads from it opened it last, and who
\* closes it has the entry, so that a list that could not open it (and closes it
\* all the same) closes it under nobody.
HoldsWhatItUses ==
  /\ usage.DIRECTORY = "run" <=> cur \in {"FILEVerify", "FILEopendir", "FILEreaddir", "Waiting",
                                         "FILEdelete", "FILEclosedir"}
  /\ usage.DELETING = "run" <=> cur = "FILEdelete"
  /\ usage.LOGGING # Nobody <=> (HasLogFile \/ cur = "FILEopen")
  /\ fileOpen <=> HasLogFile
  /\ cur \in {"FILEreaddir", "Waiting", "FILEdelete", "FILEclosedir"} => dirBy = "run"
  /\ cmd.name = "run" /\ cmd.at \in {"FILEreaddir", "FILEclosedir"} =>
       usage.DIRECTORY = "start" /\ dirBy = "start"
  /\ cmd.name = "list" => usage.DIRECTORY = "list" /\ (cmd.at = "FILEreaddir" => dirBy = "list")

\* A log that was stopped does not run: "we also can't go from a stopped state
\* to running".  Only the last pass of its set up does not look.
StopWins == stopped /\ "stop last" \notin events => log.state # "Running"

\* A run that was to keep existing files ("delete": false) deletes none, as
\* long as nobody makes one after they were looked for.
KeepsFiles == spare /\ "create" \notin events => cur # "FILEdelete"

\* A run begins or is given up, and a log that is to end ends, unless an assertion
\* stops the logger, old files keep coming, or the stop was not looked at.
Settles ==
  /\ log.state = "Pending" /\ "create" \notin events ~> (log.state \in {"Running", "Stopped"} \/ trap # "none")
  /\ log.state = "Finishing" /\ "stop last" \notin events ~> (log.state = "Stopped" \/ trap # "none")

\* A run that waits for a file entry gets it.
WaitEnds == cur \in {"WaitingForResources", "Waiting"} ~> cur \notin {"WaitingForResources", "Waiting"}

=============================================================================
