-------------------------------- MODULE Boot --------------------------------
(***************************************************************************)
(* From power on to the first command, and the SD card after that:         *)
(* the boot states of main.cpp, SdHotSwapTask and the calibration files    *)
(* (File.cpp), AutoLogOnBootTask (LogOnBoot.cpp) and the calibration       *)
(* commands (Parse.cpp).                                                   *)
(*                                                                         *)
(* They meet in one thread for file system calls, in one state machine     *)
(* that reads calibration files for three callers, and in the two flags    *)
(* fSd0 and fSd0Trans.  One step is the call of one task in the super      *)
(* loop; the card is inserted and pulled at any time.                      *)
(***************************************************************************)
EXTENDS Integers

CONSTANTS
  SavedLogs,     \* what the log on boot file may hold
  CalFileStates, \* what the calibration files may be: "none", "good", "short"
  CmdVols,       \* volumes that calibration commands name
  CalPieces,     \* reads or writes of one calibration file (3)
  PullWhileUsed, \* whether the card may be pulled while a command uses it
  Bounce,        \* whether the card may come back before its removal was seen
  MaxMoves,      \* bound: times the card is inserted or pulled
  MaxCmds        \* bound: calibration commands

Vols  == {"FLASH", "SD"}
NoVol == "none"

ASSUME BootAssumption ==
  /\ SavedLogs \subseteq {"none", "RAM", "SD", "CLOUD", "wrong size"}
  /\ CalFileStates \subseteq {"none", "good", "short"}
  /\ CmdVols \subseteq Vols
  /\ CalPieces \in Nat \ {0}
  /\ PullWhileUsed \in BOOLEAN /\ Bounce \in BOOLEAN
  /\ MaxMoves \in Nat /\ MaxCmds \in Nat

VARIABLES
  \* the card in the slot; its volume; the flash; the call in the thread
  card, mounted, flash, thread,
  \* what is stored: the log on boot file and the calibration files
  saved, calFile,
  \* main.cpp: mainState, curState of FileOpenFlash, deIPcK.isLinked()
  main, flashState, linked,
  \* SdHotSwapTask; waited: SDWAITTIME has passed since tStart
  swap, nextState, waited, fSd0, fSd0Trans,
  \* the machines of ReadCalibrationData and SaveCalibrationData, the volume
  \* of the CALIBRATING entry, its file, and the volume the next save is for
  cal, calVol, calOpen, fCalibrated, saveVol,
  \* AutoLogOnBootTask: logAParam.state, fr, tTimeOut; whether it queued the log
  auto, autoOk, expired, queued,
  \* the JSON command in progress, and saves in the deferred queue
  cmd, saves,
  \* whose turn in the super loop; the ASSERT that stopped it
  turn, trap,
  \* bounds
  moves, cmds

volumes == <<mounted, flash, calFile>>
boot    == <<main, flashState, linked>>
hotSwap == <<swap, nextState, waited, fSd0, fSd0Trans>>
calib   == <<cal, calVol, calOpen, fCalibrated, saveVol>>
autoLog == <<auto, autoOk, expired, queued>>
command == <<cmd, saves, cmds>>
vars    == <<volumes, card, thread, saved, boot, hotSwap, calib, autoLog, command, turn, trap, moves>>

NoCall == <<"none", "none">>
NoCmd  == [st |-> "Idle", via |-> "none", vol |-> NoVol]
IdleCal == [st |-> "Idle", failed |-> FALSE, left |-> 0]
UIOn   == main = "UILoop"

Init ==
  /\ card \in {"out", "good", "bad"} /\ mounted = "no"
  /\ flash \in {"formatted", "blank", "broken"} /\ thread = NoCall
  /\ saved \in IF flash = "formatted" THEN SavedLogs ELSE {"none"}
  /\ \E f \in IF flash = "formatted" THEN CalFileStates ELSE {"none"}, s \in CalFileStates :
       calFile = [v \in Vols |-> IF v = "FLASH" THEN f ELSE s]
  /\ main = "MAIN3V0" /\ flashState = "Idle" /\ linked = FALSE
  /\ swap = "Idle" /\ nextState = "Idle" /\ waited = FALSE
  /\ fSd0 = FALSE /\ fSd0Trans = TRUE
  /\ cal = [m \in {"read", "save"} |-> IdleCal]
  /\ calVol = NoVol /\ calOpen = FALSE
  /\ fCalibrated = FALSE /\ saveVol = "FLASH"
  /\ auto = "Idle" /\ autoOk = TRUE /\ expired = FALSE /\ queued = FALSE
  /\ cmd = NoCmd /\ saves = 0 /\ cmds = 0
  /\ turn = "main" /\ trap = "none" /\ moves = 0

-----------------------------------------------------------------------------
(* File system calls.  The SD card yields while it is busy, the flash while *)
(* it is written; no other call gets the thread meanwhile.                 *)

Holds(v, f) == thread \in {NoCall, <<v, f>>}
MayYield(v, f) == v = "SD" \/ f \in {"write", "mkfs"}

\* FR_WAITING_FOR_THREAD: another call has the thread, or this one yields.
FsWait(v, f) ==
  \/ ~Holds(v, f) /\ UNCHANGED thread
  \/ Holds(v, f) /\ MayYield(v, f) /\ thread' = <<v, f>>

FsDone(v, f) == Holds(v, f) /\ thread' = NoCall

\* What a call on a volume may come to.  What FatFs has cached of a card that
\* was pulled may still be read.
MayWork(v) == IF v = "SD" THEN mounted # "no" ELSE flash = "mounted"
MayFail(v) == IF v = "SD" THEN mounted # "yes" ELSE flash # "mounted"

-----------------------------------------------------------------------------
(* ReadCalibrationData (m = "read") and SaveCalibrationData (m = "save"):  *)
(* one call for volume v.  It returns out: working, done or failed.        *)

AlwaysFree == TRUE                 \* mutant: SetUsage does not look at the entry
EntryFree == calVol = NoVol

\* ClearUsage asserts that the file of the entry is closed.
ClearUsage(fileOpen) ==
  /\ calVol' = NoVol
  /\ trap' = IF fileOpen THEN "not closed" ELSE trap

CalTo(m, st) == cal' = [cal EXCEPT ![m].st = st]

\* An error: what is open is closed next, and the entry is kept until then.
ClearAtOnce(m, out) ==             \* mutant: the file is not closed first
  ClearUsage(calOpen) /\ CalTo(m, "Idle") /\ out = "failed"
CalError(m, out) ==
  IF calOpen
  THEN /\ cal' = [cal EXCEPT ![m].st = "FILEclose", ![m].failed = TRUE]
       /\ out = "working" /\ UNCHANGED <<calVol, trap>>
  ELSE ClearUsage(FALSE) /\ CalTo(m, "Idle") /\ out = "failed"

\* No card, or the entry is in use.
CalRefused(m, v, out) ==
  /\ cal[m].st = "Idle" /\ out = "failed"
  /\ (v = "SD" /\ ~fSd0) \/ ~EntryFree
  /\ UNCHANGED <<thread, calib, calFile, trap>>

\* The path that is opened is the one in the entry, not the one asked for.
CalFileOpen(m, v, out) ==
  LET w == IF cal[m].st = "Idle" THEN v ELSE calVol
      missing == m = "read" /\ calFile[w] = "none"
  IN
  /\ \/ cal[m].st = "Idle" /\ EntryFree /\ (v = "SD" => fSd0)
     \/ cal[m].st = "FILEopen"
  /\ \/ /\ FsWait(w, "open") /\ out = "working"
        /\ calVol' = w
        /\ cal' = [cal EXCEPT ![m] = [IdleCal EXCEPT !.st = "FILEopen"]]
        /\ UNCHANGED <<calOpen, calFile, trap>>
     \/ /\ FsDone(w, "open") /\ MayWork(w) /\ ~missing /\ out = "working"
        /\ calVol' = w /\ calOpen' = TRUE
        /\ calFile' = [calFile EXCEPT ![w] = IF @ = "none" THEN "short" ELSE @]
        /\ cal' = [cal EXCEPT ![m] = [st |-> IF m = "read" THEN "FILEseek" ELSE "FILEwrite",
                                      failed |-> FALSE, left |-> CalPieces]]
        /\ UNCHANGED trap
     \/ /\ FsDone(w, "open") /\ (MayFail(w) \/ missing) /\ CalError(m, out)
        /\ UNCHANGED <<calOpen, calFile>>
  /\ UNCHANGED <<fCalibrated, saveVol>>

CalSeek(m, out) ==
  /\ cal[m].st = "FILEseek"
  /\ \/ /\ \/ FsWait(calVol, "seek") /\ UNCHANGED cal
           \/ FsDone(calVol, "seek") /\ MayWork(calVol) /\ CalTo(m, "FILEread")
        /\ out = "working" /\ UNCHANGED <<calVol, trap>>
     \/ FsDone(calVol, "seek") /\ MayFail(calVol) /\ CalError(m, out)
  /\ UNCHANGED <<calOpen, fCalibrated, saveVol, calFile>>

\* A read past the end of a short file is told to call again, for ever.
CalTransfer(m, out) ==
  LET f == IF m = "read" THEN "read" ELSE "write"
      atEnd == m = "read" /\ calFile[calVol] = "short" /\ cal[m].left = 1
  IN
  /\ cal[m].st \in {"FILEread", "FILEwrite"} /\ cal[m].left > 0
  /\ \/ /\ \/ FsWait(calVol, f) /\ UNCHANGED cal
           \/ /\ FsDone(calVol, f) /\ MayWork(calVol)
              /\ cal' = [cal EXCEPT ![m].left = IF atEnd THEN @ ELSE @ - 1]
        /\ out = "working" /\ UNCHANGED <<calVol, trap>>
     \/ FsDone(calVol, f) /\ MayFail(calVol) /\ CalError(m, out)
  /\ UNCHANGED <<calOpen, fCalibrated, saveVol, calFile>>

\* Everything is transferred: what was read becomes the calibration, with the
\* volume it was saved on, which is part of it.
CalTransferred(m, out) ==
  /\ cal[m].st \in {"FILEread", "FILEwrite"} /\ cal[m].left = 0 /\ out = "working"
  /\ CalTo(m, "FILEclose")
  /\ fCalibrated' = (fCalibrated \/ m = "read")
  /\ saveVol' = IF m = "read" THEN calVol ELSE saveVol
  /\ calFile' = [calFile EXCEPT ![calVol] = "good"]
  /\ UNCHANGED <<thread, calVol, calOpen, trap>>

\* Closed or not, the entry is cleared.  A close fails when the volume has
\* been unmounted, or when something is left to write to a card that is gone.
StaysOpen(m) ==
  {b \in BOOLEAN : IF b THEN calVol = "SD" /\ (mounted = "no" \/ (m = "save" /\ mounted = "stale"))
                        ELSE MayWork(calVol)}

CalClose(m, out) ==
  /\ cal[m].st = "FILEclose"
  /\ \/ FsWait(calVol, "close") /\ out = "working" /\ UNCHANGED <<cal, calVol, calOpen, trap>>
     \/ /\ FsDone(calVol, "close")
        /\ calOpen' \in StaysOpen(m)
        /\ ClearUsage(calOpen')
        /\ out = IF cal[m].failed THEN "failed" ELSE "done"
        /\ cal' = [cal EXCEPT ![m] = IdleCal]
  /\ UNCHANGED <<fCalibrated, saveVol, calFile>>

CalCall(m, v, out) ==
  \/ CalRefused(m, v, out) \/ CalFileOpen(m, v, out) \/ CalSeek(m, out)
  \/ CalTransfer(m, out) \/ CalTransferred(m, out) \/ CalClose(m, out)

\* What no call of a calibration function changes.
calIdle == <<thread, calib, calFile, trap>>

-----------------------------------------------------------------------------
(* SdHotSwapTask.  GetGPIO(SD_PIN_DET) is low when a card is in.           *)

CardIn == card # "out"
CardGone == ~CardIn

TransStays == fSd0Trans            \* mutant: with no card fSd0Trans is left alone
TransOver == FALSE

SwapIdle ==
  /\ swap = "Idle"
  /\ IF CardIn
     THEN fSd0Trans' = TRUE /\ swap' = "Waiting" /\ waited' = FALSE /\ UNCHANGED fSd0
     ELSE fSd0Trans' = TransOver /\ fSd0' = FALSE /\ UNCHANGED <<swap, waited>>
  /\ UNCHANGED <<nextState, calIdle, mounted>>

\* There is no way back to Idle for a card that has gone again.
SwapWaiting ==
  /\ swap = "Waiting"
  /\ IF ~(waited /\ CardIn) THEN UNCHANGED <<swap, nextState>>
     ELSE IF mounted = "no" THEN swap' = "SDMounting" /\ UNCHANGED nextState
     ELSE swap' = "FILEunmount" /\ nextState' = "SDMounting"
  /\ UNCHANGED <<waited, fSd0, fSd0Trans, calIdle, mounted>>

FlagNotSet == fSd0                 \* mutant: a mount that succeeds does not set fSd0
FlagIn == TRUE

\* fSd0Trans is cleared on every pass, the first one too.  The mount of a card
\* that is pulled meanwhile may have read all it needs.
SwapMounting ==
  /\ swap = "SDMounting"
  /\ fSd0Trans' = FALSE
  /\ \/ FsWait("SD", "mount") /\ UNCHANGED <<swap, fSd0, mounted>>
     \/ /\ FsDone("SD", "mount")
        /\ \/ /\ card = "good" \/ (card = "out" /\ thread # NoCall)
              /\ mounted' = IF CardIn THEN "yes" ELSE "stale"
              /\ fSd0' = FlagIn /\ swap' = "FILEgetsize"
           \/ /\ card # "good"
              /\ mounted' = "no" /\ fSd0' = FALSE /\ swap' = "SDInserted"
  /\ UNCHANGED <<nextState, waited, calib, calFile, trap>>

\* The free space is only printed.
SwapGetSize ==
  /\ swap = "FILEgetsize"
  /\ \/ FsWait("SD", "getfree") /\ UNCHANGED swap
     \/ FsDone("SD", "getfree") /\ swap' = IF fCalibrated THEN "SDInserted" ELSE "SDReadCalibration"
  /\ UNCHANGED <<nextState, waited, fSd0, fSd0Trans, calib, calFile, trap, mounted>>

\* jsonFT245.state == JSONListening: the port is on, and no command came by it.
AlwaysListening == TRUE            \* mutant: it does not wait for the main loop
JSONListening == UIOn /\ cmd.via # "FT245"

SwapReadCalibration ==
  /\ swap = "SDReadCalibration"
  /\ IF JSONListening
     THEN \E out \in {"working", "done", "failed"} :
            /\ CalCall("read", "SD", out)
            /\ swap' = IF out = "working" THEN swap ELSE "SDInserted"
     ELSE UNCHANGED <<swap, calIdle>>
  /\ UNCHANGED <<nextState, waited, fSd0, fSd0Trans, mounted>>

SwapInserted ==
  /\ swap = "SDInserted"
  /\ IF ~CardGone THEN UNCHANGED hotSwap
     ELSE /\ swap' = "FILEunmount" /\ nextState' = "Idle"
          /\ fSd0' = FALSE /\ fSd0Trans' = TRUE /\ UNCHANGED waited
  /\ UNCHANGED <<calIdle, mounted>>

SwapUnmount ==
  /\ swap = "FILEunmount"
  /\ \/ FsWait("SD", "mount") /\ UNCHANGED <<swap, mounted>>
     \/ FsDone("SD", "mount") /\ mounted' = "no" /\ swap' = nextState
  /\ UNCHANGED <<nextState, waited, fSd0, fSd0Trans, calib, calFile, trap>>

SdHotSwapTask ==
  /\ turn = "swap" /\ trap = "none" /\ turn' = "main"
  /\ \/ SwapIdle \/ SwapWaiting \/ SwapMounting \/ SwapGetSize
     \/ SwapReadCalibration \/ SwapInserted \/ SwapUnmount
  /\ UNCHANGED <<card, flash, saved, boot, autoLog, command, moves>>

-----------------------------------------------------------------------------
(* AutoLogOnBootTask.                                                       *)

AutoStay == UNCHANGED <<auto, autoOk>>
AutoTo(st) == auto' = st /\ UNCHANGED autoOk

AutoIdle == auto = "Idle" /\ auto' = "FILEexist" /\ autoOk' = TRUE
            /\ UNCHANGED <<thread, expired, queued>>

\* Anything but FR_OK is taken for a missing file, waiting for the thread too.
AutoExist ==
  /\ auto = "FILEexist"
  /\ \/ FsWait("FLASH", "exists") /\ AutoTo("Idle")
     \/ /\ FsDone("FLASH", "exists")
        /\ AutoTo(IF flash = "mounted" /\ saved # "none" THEN "FILEopening" ELSE "Idle")
  /\ UNCHANGED <<expired, queued>>

\* A file of another size is not read.
AutoOpening ==
  /\ auto = "FILEopening"
  /\ \/ FsWait("FLASH", "open") /\ AutoStay
     \/ /\ FsDone("FLASH", "open")
        /\ IF saved = "wrong size" THEN auto' = "FILEclose" /\ autoOk' = FALSE
                                   ELSE AutoTo("FILEread")
  /\ UNCHANGED <<expired, queued>>

AutoRead ==
  /\ auto = "FILEread"
  /\ \/ FsWait("FLASH", "read") /\ AutoStay
     \/ FsDone("FLASH", "read") /\ AutoTo("FILEclose")
  /\ UNCHANGED <<expired, queued>>

RamIsStopped == {"none"}           \* mutant: a log to memory is not run
NeedsNothing == {"RAM"}

\* A log to the cloud without a link stays here, and the boot with it.
AutoClose ==
  /\ auto = "FILEclose"
  /\ \/ FsWait("FLASH", "close") /\ AutoStay
     \/ /\ FsDone("FLASH", "close")
        /\ AutoTo(CASE ~autoOk -> "Stopped"
                    [] saved \in NeedsNothing -> "Done"
                    [] saved = "CLOUD" /\ autoOk -> IF linked THEN "HTTPEnabled" ELSE "FILEclose"
                    [] saved = "SD" /\ autoOk -> IF fSd0 THEN "Done"
                                                ELSE IF fSd0Trans THEN "SDMounting" ELSE "Stopped"
                    [] OTHER -> "Stopped")
  /\ expired' = FALSE
  /\ UNCHANGED queued

\* isIPReady is whatever the network says.
AutoWait ==
  /\ \/ auto = "HTTPEnabled" /\ AutoTo("Done")
     \/ auto = "SDMounting" /\ fSd0 /\ AutoTo("Done")
     \/ /\ auto = "HTTPEnabled" \/ (auto = "SDMounting" /\ ~fSd0)
        /\ AutoTo(IF expired THEN "Stopped" ELSE auto)
  /\ UNCHANGED <<thread, expired, queued>>

AutoEnd ==
  /\ auto \in {"Done", "Stopped"} /\ AutoTo("Idle")
  /\ queued' = (queued \/ auto = "Done")
  /\ UNCHANGED <<thread, expired>>

AutoLogOnBootTask ==
  AutoIdle \/ AutoExist \/ AutoOpening \/ AutoRead \/ AutoClose \/ AutoWait \/ AutoEnd

-----------------------------------------------------------------------------
(* main: one pass of the switch.  The instruments are set up and the       *)
(* network take any number of passes.                                      *)

MainTo(st) == main' = st /\ UNCHANGED <<flashState, linked>>
MainStays  == UNCHANGED boot

MainInstruments ==
  /\ \/ main = "MAIN3V0" /\ MainTo("MAINIntFlashFileVol")
     \/ main = "MAINInitWiFi" /\ (MainTo("MAINInitCalibrationData") \/ MainTo("LOBAuto"))
     \/ main = "WIFIConnect" /\ linked' \in BOOLEAN /\ main' = "LOBAuto" /\ UNCHANGED flashState
     \/ main \in {"MAIN3V0", "MAINInitWiFi", "WIFIConnect"} /\ MainStays
  /\ UNCHANGED <<flash, calIdle, autoLog>>

FlashTo(st) == flashState' = st /\ UNCHANGED <<main, linked>>

\* FileOpenFlash.  A volume with no file system is made anew, any other error
\* leaves it unmounted.
MainFlash ==
  /\ main = "MAINIntFlashFileVol"
  /\ \/ /\ flashState \in {"Idle", "FILEVerify"} /\ flash = "mounted"
        /\ main' = "MAINInitWiFi" /\ flashState' = "Idle" /\ UNCHANGED <<linked, thread, flash>>
     \/ /\ flashState # "FILEmkfs" /\ flash # "mounted"
        /\ \/ FsWait("FLASH", "mount") /\ FlashTo("FILEmount") /\ UNCHANGED flash
           \/ /\ FsDone("FLASH", "mount")
              /\ \/ flash = "formatted" /\ flash' = "mounted" /\ FlashTo("FILEVerify")
                 \/ flash = "blank" /\ FlashTo("FILEmkfs") /\ UNCHANGED flash
                 \/ /\ flash = "broken" /\ main' = "MAINInitWiFi" /\ flashState' = "Idle"
                    /\ UNCHANGED <<linked, flash>>
     \/ /\ flashState = "FILEmkfs"
        /\ \/ FsWait("FLASH", "mkfs") /\ MainStays /\ UNCHANGED flash
           \/ FsDone("FLASH", "mkfs") /\ flash' = "formatted" /\ FlashTo("FILEVerify")
  /\ UNCHANGED <<calib, calFile, trap, autoLog>>

MainCalibration ==
  /\ main = "MAINInitCalibrationData"
  /\ \E out \in {"working", "done", "failed"} :
       /\ CalCall("read", "FLASH", out)
       /\ IF out = "working" THEN MainStays ELSE MainTo("SDMounting")
  /\ UNCHANGED <<flash, autoLog>>

MainSd ==
  /\ main = "SDMounting"
  /\ IF fSd0Trans THEN MainStays ELSE MainTo("WIFIConnect")
  /\ UNCHANGED <<flash, calIdle, autoLog>>

MainAuto ==
  /\ main = "LOBAuto"
  /\ AutoLogOnBootTask
  /\ IF auto' = "Idle" THEN MainTo("MAINRunUI") ELSE MainStays
  /\ UNCHANGED <<flash, calib, calFile, trap>>

MainUI ==
  /\ \/ main = "MAINRunUI" /\ MainTo("UILoop")
     \/ main = "UILoop" /\ MainStays
  /\ UNCHANGED <<flash, calIdle, autoLog>>

AlwaysPending == TRUE              \* mutant: called with nothing queued
SavePending == saves > 0

\* The tasks with nothing to do are passed over.
MainState ==
  /\ turn = "main" /\ trap = "none"
  /\ MainInstruments \/ MainFlash \/ MainCalibration \/ MainSd \/ MainAuto \/ MainUI
  /\ turn' = IF SavePending THEN "deferred" ELSE IF UIOn' THEN "json" ELSE "swap"
  /\ UNCHANGED <<card, mounted, saved, hotSwap, command, moves>>

-----------------------------------------------------------------------------
(* The deferred task SaveCalibration and the calibration commands, one of  *)
(* which is in progress at a time.                                         *)

DeferredSave ==
  /\ turn = "deferred" /\ trap = "none" /\ turn' = "json"
  /\ \E out \in {"working", "done", "failed"} :
       /\ CalCall("save", saveVol, out)
       /\ saves' = IF out = "working" THEN saves ELSE saves - 1
  /\ UNCHANGED <<card, mounted, flash, saved, boot, hotSwap, autoLog, cmd, cmds, moves>>

\* A card in use is left in its slot, unless PullWhileUsed.
CmdMayName(vol) == vol = "SD" => CardIn \/ PullWhileUsed

NewCmd(via, vol) ==
  /\ UIOn /\ cmd.st = "Idle" /\ cmds < MaxCmds /\ CmdMayName(vol)
  /\ cmds' = cmds + 1

\* FnCalibrateSave, for instruments calibrated by hand or from a file: there
\* is one volume for all saves that are queued.
CalibrateSave ==
  /\ \E via \in {"FT245", "other"}, vol \in CmdVols :
       NewCmd(via, vol) /\ saveVol' = vol
  /\ saves' = saves + 1
  /\ UNCHANGED <<cmd, thread, cal, calVol, calOpen, fCalibrated, calFile, trap>>

\* FnCalibrateLoad
CalibrateLoad ==
  \/ /\ \E via \in {"FT245", "other"}, vol \in CmdVols :
          NewCmd(via, vol) /\ cmd' = [st |-> "FILEread", via |-> via, vol |-> vol]
     /\ UNCHANGED <<saves, calIdle>>
  \/ /\ cmd.st = "FILEread"
     /\ \E out \in {"working", "done", "failed"} :
          /\ CalCall("read", cmd.vol, out)
          /\ cmd' = [cmd EXCEPT !.st = IF out = "working" THEN @ ELSE "Done"]
     /\ UNCHANGED <<saves, cmds>>
  \/ cmd.st = "Done" /\ cmd' = NoCmd /\ UNCHANGED <<saves, cmds, calIdle>>

ProcessJSON ==
  /\ turn = "json" /\ trap = "none" /\ turn' = "swap"
  /\ \/ CalibrateSave \/ CalibrateLoad
     \/ cmd.st = "Idle" /\ UNCHANGED <<command, calIdle>>
  /\ UNCHANGED <<card, mounted, flash, saved, boot, hotSwap, autoLog, moves>>

-----------------------------------------------------------------------------
(* The card and the timers.                                                 *)

Pull ==
  /\ CardIn /\ moves < MaxMoves
  /\ PullWhileUsed \/ (cmd.vol # "SD" /\ saves = 0)
  /\ card' = "out" /\ moves' = moves + 1
  /\ mounted' = IF mounted = "yes" THEN "stale" ELSE mounted
  /\ UNCHANGED <<flash, calFile, thread, saved, boot, hotSwap, calib, autoLog, command, turn, trap>>

\* Another card, or the same.
Insert ==
  /\ ~CardIn /\ moves < MaxMoves
  /\ Bounce \/ swap \in {"Idle", "Waiting", "FILEunmount"}
  /\ card' \in {"good", "bad"} /\ moves' = moves + 1
  /\ \E c \in CalFileStates : calFile' = [calFile EXCEPT !["SD"] = c]
  /\ UNCHANGED <<mounted, flash, thread, saved, boot, hotSwap, calib, autoLog, command, turn, trap>>

SwapTime ==
  /\ swap = "Waiting" /\ ~waited /\ waited' = TRUE
  /\ UNCHANGED <<volumes, card, thread, saved, boot, swap, nextState, fSd0, fSd0Trans,
                 calib, autoLog, command, turn, trap, moves>>

AutoTime ==
  /\ auto \in {"HTTPEnabled", "SDMounting"} /\ ~expired /\ expired' = TRUE
  /\ UNCHANGED <<volumes, card, thread, saved, boot, hotSwap, calib, auto, autoOk, queued,
                 command, turn, trap, moves>>

SuperLoop == MainState \/ DeferredSave \/ ProcessJSON \/ SdHotSwapTask

Next == SuperLoop \/ Pull \/ Insert \/ SwapTime \/ AutoTime

\* The loop runs, time passes, a card that is busy answers in the end, and so
\* do the references, the WiFi module and the network.
Spec ==
  /\ Init /\ [][Next]_vars
  /\ WF_vars(SuperLoop) /\ WF_vars(SwapTime) /\ WF_vars(AutoTime)
  /\ SF_vars(SuperLoop /\ thread # NoCall /\ thread' = NoCall)
  /\ SF_vars(MainState /\ main \in {"MAIN3V0", "MAINInitWiFi", "WIFIConnect"} /\ main' # main)

-----------------------------------------------------------------------------
(* Properties.                                                              *)

SwapStates == {"Idle", "Waiting", "SDMounting", "FILEgetsize", "SDReadCalibration",
               "SDInserted", "FILEunmount"}
CalStates  == {"Idle", "FILEopen", "FILEseek", "FILEread", "FILEwrite", "FILEclose"}

TypeOK ==
  /\ card \in {"out", "good", "bad"} /\ mounted \in {"no", "yes", "stale"}
  /\ flash \in {"formatted", "blank", "broken", "mounted"}
  /\ saved \in SavedLogs \cup {"none"} /\ calFile \in [Vols -> {"none", "good", "short"}]
  /\ flashState \in {"Idle", "FILEmount", "FILEmkfs", "FILEVerify"}
  /\ swap \in SwapStates /\ nextState \in {"Idle", "SDMounting"}
  /\ {waited, fSd0, fSd0Trans, calOpen, fCalibrated, autoOk, expired, queued, linked} \subseteq BOOLEAN
  /\ cal \in [{"read", "save"} -> [st : CalStates, failed : BOOLEAN, left : 0 .. CalPieces]]
  /\ calVol \in Vols \cup {NoVol} /\ saveVol \in Vols
  /\ saves \in 0 .. MaxCmds /\ cmds \in 0 .. MaxCmds /\ moves \in 0 .. MaxMoves
  /\ turn \in {"main", "deferred", "json", "swap"}

\* The assertion of ClearUsage never fires: no entry is given back with its file
\* open (DeferredTasks.h:154).
NoAssert == trap = "none"

\* The calibration entry is held while one of the two functions is at work, and
\* never by both: it is what keeps a save out of a load (File.cpp:89, 173).
CalibrationHeld ==
  /\ (calVol # NoVol) <=> (\E m \in {"read", "save"} : cal[m].st # "Idle")
  /\ cal["read"].st = "Idle" \/ cal["save"].st = "Idle"
  /\ calOpen => calVol # NoVol

\* The calibration that main reads at boot is the one in flash: the hot swap
\* task, which shares the machine that reads it, keeps away until the main loop
\* (File.cpp:415 "pause until we are in the main loop").
BootReadAlone ==
  main = "MAINInitCalibrationData" /\ calVol # NoVol => calVol = "FLASH"

\* A saved log to memory is run at boot when there is no card to get in the way
\* (LogOnBoot.cpp:30 "internal logging we can go for it immediately").
RamLogRuns == UIOn /\ saved = "RAM" /\ card = "out" /\ moves = 0 => queued

\* A read beyond the end of a calibration file, which no later pass can end.
Endless == cal["read"].st = "FILEread" /\ calFile[calVol] = "short"

\* The boot comes to the main loop, unless a calibration file is short, a card
\* is pulled before it was mounted and not put back, or a log to the cloud has
\* no link (main.cpp:195, LogOnBoot.cpp:97).
BootEnds ==
  ( /\ [](~Endless /\ ~(main = "LOBAuto" /\ saved = "CLOUD" /\ ~linked))
    /\ []<>~(swap = "Waiting" /\ ~CardIn) )
  => <>UIOn

\* A good card that stays in is mounted in the end, whatever was in the slot
\* before (File.cpp:361-395).
InsertedIsMounted == <>[](card = "good") => <>[](fSd0 /\ mounted = "yes")

\* "we will have an SD card already if there because if SD Mount; so if SD
\* logging we can go right for it" (LogOnBoot.cpp:28): a saved log to the card
\* is run at boot when a good card has been in the slot from power on.
SavedLogRuns == UIOn /\ saved = "SD" /\ card = "good" /\ moves = 0 => queued
=============================================================================
