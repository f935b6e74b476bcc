---------------------------- MODULE FileUseProofs ----------------------------
(***************************************************************************)
(* The two users of files outside the log.                                 *)
(*                                                                         *)
(* Boot, for any card, any calibration files and any number of commands:   *)
(* the entry of the file table that the two calibration functions share is *)
(* held while one of them is at work and never by both, the calibration    *)
(* that is read at boot is the one in flash, and no entry is given back    *)
(* with its file open as long as a card in use stays in its slot and one   *)
(* save at a time is queued.                                               *)
(*                                                                         *)
(* BinaryData, for any requests, sizes of buffers, file and ring: the      *)
(* binary part of an answer has the length sent ahead of it and holds the  *)
(* bytes and the samples that were promised (AnswerWhole), or later ones   *)
(* when the log has gone on by more than an eighth of its ring, as long as *)
(* no read fails, no log is caught while it ends, and a log is read before *)
(* any file is.  A request that parses, from a client that stays, gives    *)
(* back the files it used (GivenBack), and the file it writes gets its     *)
(* bytes, however they are cut (BytesArrive), when its writes and closes   *)
(* succeed.                                                                *)
(***************************************************************************)
EXTENDS Boot, BinaryData, FiniteSetTheorems, SequenceTheorems, WellFoundedInduction, TLAPS

Machines  == {"read", "save"}
CalRecord == [st : CalStates, failed : BOOLEAN, left : 0 .. CalPieces]
CalFiles  == {"none", "good", "short"}

MainStates == {"MAIN3V0", "MAINIntFlashFileVol", "MAINInitWiFi", "MAINInitCalibrationData",
               "SDMounting", "WIFIConnect", "LOBAuto", "MAINRunUI", "UILoop"}

\* The entry is held by the machine that is at work, of which there is one.
EntryHeld ==
  /\ calVol # NoVol <=> (cal["read"].st # "Idle" \/ cal["save"].st # "Idle")
  /\ cal["read"].st = "Idle" \/ cal["save"].st = "Idle"
  /\ trap = "none" /\ calOpen => calVol # NoVol

\* Nothing but the read at boot touches the entry before the main loop.
BootOrder ==
  /\ main \in MainStates
  /\ cmd \in [st : {"Idle", "FILEread", "Done"}, via : {"none", "FT245", "other"}, vol : Vols \cup {NoVol}]
  /\ cmd.st = "FILEread" => cmd.vol \in Vols
  /\ saves <= cmds
  /\ saves = 0 => cal["save"].st = "Idle"
  /\ turn = "deferred" => saves > 0
  /\ turn \in {"deferred", "json"} => UIOn
  /\ ~UIOn => cmd.st = "Idle" /\ saves = 0
  /\ calVol # NoVol => main \in {"MAINInitCalibrationData", "UILoop"}
  /\ BootReadAlone

BInv == TypeOK /\ EntryHeld /\ BootOrder

-----------------------------------------------------------------------------
(* One call of a calibration function.                                     *)

\* What the assumption says of the constants, part by part.
LEMMA Pieces ==
  /\ CalPieces \in Nat
  /\ 0 \in 0 .. CalPieces /\ CalPieces \in 0 .. CalPieces
  /\ \A i \in 0 .. CalPieces : i > 0 => i - 1 \in 0 .. CalPieces
  <1>1. CalPieces \in Nat
    BY BootAssumption
  <1> QED BY <1>1

\* One machine is changed and the other is not.
LEMMA CalSet ==
  ASSUME cal \in [Machines -> CalRecord], NEW m \in Machines, NEW r \in CalRecord,
         cal' = [cal EXCEPT ![m] = r]
  PROVE  /\ cal' \in [Machines -> CalRecord]
         /\ cal'[m] = r
         /\ \A n \in Machines : n # m => cal'[n] = cal[n]
  OBVIOUS

LEMMA CalMoves ==
  ASSUME cal \in [Machines -> CalRecord], NEW m \in Machines, NEW s \in CalStates, CalTo(m, s)
  PROVE  /\ cal' \in [Machines -> CalRecord]
         /\ cal'[m].st = s
         /\ \A n \in Machines : n # m => cal'[n] = cal[n]
  <1>1. cal[m] \in CalRecord
    OBVIOUS
  <1>2. PICK r : r = [cal[m] EXCEPT !.st = s]
    OBVIOUS
  <1>3. r \in CalRecord /\ r.st = s
    BY <1>1, <1>2 DEF CalRecord
  <1>4. cal' = [cal EXCEPT ![m] = r]
    BY <1>2 DEF CalTo
  <1> QED BY <1>3, <1>4, CalSet

\* What the machine and the entry may come to, in one call for volume v: the
\* machine keeps or takes the entry and works, or gives it back and is idle.
CalEffect(m, v, result) ==
  /\ cal' \in [Machines -> CalRecord]
  /\ \A n \in Machines : n # m => cal'[n] = cal[n]
  /\ \/ UNCHANGED <<cal, calVol>>
     \/ /\ cal'[m].st # "Idle" /\ calVol' # NoVol
        /\ \/ cal[m].st # "Idle" /\ calVol' = calVol
           \/ cal[m].st = "Idle" /\ calVol = NoVol /\ calVol' = v /\ (v = "SD" => fSd0)
     \/ cal'[m].st = "Idle" /\ calVol' = NoVol /\ (cal[m].st # "Idle" \/ calVol = NoVol)
  /\ result # "working" <=> cal'[m].st = "Idle"
  /\ calOpen' \in BOOLEAN /\ fCalibrated' \in BOOLEAN
  /\ trap' = "none" /\ calOpen' => calVol' # NoVol
  /\ calFile' \in [Vols -> CalFiles]
  /\ \/ saveVol' = saveVol
     \/ m = "read" /\ cal[m].st # "Idle" /\ saveVol' = calVol /\ cal'[m].st = "FILEclose"
  /\ \/ trap' = trap
     \/ /\ cal[m].st = "FILEclose" /\ calVol = "SD"
        /\ mounted = "no" \/ (m = "save" /\ mounted = "stale")

\* What a call relies on.
CalReady(m, v) ==
  /\ TypeOK /\ EntryHeld /\ trap = "none"
  /\ m \in Machines /\ v \in Vols

LEMMA CalTypes ==
  ASSUME NEW m, NEW v, CalReady(m, v)
  PROVE  /\ cal \in [Machines -> CalRecord] /\ m \in Machines /\ v \in Vols
         /\ cal[m] \in CalRecord
         /\ calOpen \in BOOLEAN /\ fCalibrated \in BOOLEAN /\ calFile \in [Vols -> CalFiles]
         /\ cal[m].st # "Idle" => calVol # NoVol
         /\ calOpen => calVol # NoVol
         /\ calVol \in Vols \cup {NoVol}
  <1>1. cal \in [Machines -> CalRecord] /\ m \in Machines /\ v \in Vols
    BY DEF CalReady, TypeOK, Machines, CalRecord
  <1>2. cal[m] \in CalRecord
    BY <1>1
  <1>3. calOpen \in BOOLEAN /\ fCalibrated \in BOOLEAN /\ calFile \in [Vols -> CalFiles]
        /\ calVol \in Vols \cup {NoVol}
    BY DEF CalReady, TypeOK, CalFiles
  <1>4. m = "read" \/ m = "save"
    BY <1>1 DEF Machines
  <1>5. cal[m].st # "Idle" => calVol # NoVol
    BY <1>4 DEF CalReady, EntryHeld
  <1>6. calOpen => calVol # NoVol
    BY DEF CalReady, EntryHeld
  <1> QED BY <1>1, <1>2, <1>3, <1>5, <1>6

LEMMA CalErrorEffect ==
  ASSUME NEW m, NEW v, NEW result, CalReady(m, v), CalError(m, result),
         cal[m].st # "Idle" \/ EntryFree,
         UNCHANGED <<calOpen, fCalibrated, calFile, saveVol>>
  PROVE  CalEffect(m, v, result)
  <1> USE DEF CalStates
  <1>1. CASE calOpen
    <2>1. /\ cal' = [cal EXCEPT ![m].st = "FILEclose", ![m].failed = TRUE]
          /\ result = "working" /\ UNCHANGED <<calVol, trap>>
      BY <1>1 DEF CalError
    <2>2. PICK r : r = [cal[m] EXCEPT !.st = "FILEclose", !.failed = TRUE]
      OBVIOUS
    <2>3. r \in CalRecord /\ r.st = "FILEclose"
      BY <2>2, CalTypes DEF CalRecord
    <2>4. cal' = [cal EXCEPT ![m] = r]
      BY <2>1, <2>2, CalTypes
    <2>5. /\ cal' \in [Machines -> CalRecord] /\ cal'[m] = r
          /\ \A n \in Machines : n # m => cal'[n] = cal[n]
      BY <2>3, <2>4, CalTypes, CalSet
    <2>6. calVol # NoVol /\ cal[m].st # "Idle"
      BY <1>1, CalTypes DEF EntryFree
    <2> QED BY <2>1, <2>3, <2>5, <2>6, CalTypes DEF CalEffect
  <1>2. CASE ~calOpen
    <2>1. calVol' = NoVol /\ trap' = trap /\ CalTo(m, "Idle") /\ result = "failed"
      BY <1>2 DEF CalError, ClearUsage
    <2>2. /\ cal' \in [Machines -> CalRecord] /\ cal'[m].st = "Idle"
          /\ \A n \in Machines : n # m => cal'[n] = cal[n]
      BY <2>1, CalTypes, CalMoves
    <2> QED BY <1>2, <2>1, <2>2, CalTypes DEF CalEffect, EntryFree
  <1> QED BY <1>1, <1>2

LEMMA CalOpenEffect ==
  ASSUME NEW m, NEW v, NEW result, CalReady(m, v), CalFileOpen(m, v, result)
  PROVE  CalEffect(m, v, result)
  <1> USE Pieces DEF CalStates
  <1>1. PICK w : w = IF cal[m].st = "Idle" THEN v ELSE calVol
    OBVIOUS
  <1>2. w \in Vols
    BY <1>1, CalTypes
  <1>3. \/ cal[m].st = "Idle" /\ calVol = NoVol /\ (v = "SD" => fSd0) /\ w = v
        \/ cal[m].st = "FILEopen" /\ calVol # NoVol /\ w = calVol
    BY <1>1, CalTypes DEF CalFileOpen, EntryFree
  <1>4. fCalibrated' = fCalibrated /\ saveVol' = saveVol
    BY DEF CalFileOpen
  <1>5. ASSUME NEW r \in CalRecord, r.st # "Idle", cal' = [cal EXCEPT ![m] = r], calVol' = w,
               result = "working", calOpen' \in BOOLEAN, calFile' \in [Vols -> CalFiles], trap' = trap
        PROVE  CalEffect(m, v, result)
    <2>1. /\ cal' \in [Machines -> CalRecord] /\ cal'[m] = r
          /\ \A n \in Machines : n # m => cal'[n] = cal[n]
      BY <1>5, CalTypes, CalSet
    <2>2. NoVol \notin Vols
      BY DEF Vols, NoVol
    <2> QED BY <1>2, <1>3, <1>4, <1>5, <2>1, <2>2, CalTypes DEF CalEffect
  <1>6. CASE /\ FsWait(w, "open") /\ result = "working" /\ calVol' = w
             /\ cal' = [cal EXCEPT ![m] = [IdleCal EXCEPT !.st = "FILEopen"]]
             /\ UNCHANGED <<calOpen, calFile, trap>>
    <2>1. [IdleCal EXCEPT !.st = "FILEopen"] \in CalRecord
      BY DEF IdleCal, CalRecord
    <2>2. [IdleCal EXCEPT !.st = "FILEopen"].st # "Idle"
      BY DEF IdleCal
    <2> QED BY <1>5, <1>6, <2>1, <2>2, CalTypes
  <1>7. CASE /\ result = "working" /\ calVol' = w /\ calOpen' = TRUE
             /\ calFile' = [calFile EXCEPT ![w] = IF @ = "none" THEN "short" ELSE @]
             /\ cal' = [cal EXCEPT ![m] = [st |-> IF m = "read" THEN "FILEseek" ELSE "FILEwrite",
                                           failed |-> FALSE, left |-> CalPieces]]
             /\ UNCHANGED trap
    <2>1. PICK r : r = [st |-> IF m = "read" THEN "FILEseek" ELSE "FILEwrite",
                        failed |-> FALSE, left |-> CalPieces]
      OBVIOUS
    <2>2. r \in CalRecord /\ r.st # "Idle"
      BY <2>1 DEF CalRecord
    <2>3. calFile' \in [Vols -> CalFiles]
      BY <1>7, CalTypes DEF CalFiles
    <2> QED BY <1>5, <1>7, <2>1, <2>2, <2>3
  <1>8. CASE CalError(m, result) /\ UNCHANGED <<calOpen, calFile>>
    BY <1>3, <1>4, <1>8, CalErrorEffect DEF EntryFree
  <1> QED BY <1>1, <1>6, <1>7, <1>8 DEF CalFileOpen

LEMMA CalSeekEffect ==
  ASSUME NEW m, NEW v, NEW result, CalReady(m, v), CalSeek(m, result)
  PROVE  CalEffect(m, v, result)
  <1> USE DEF CalStates
  <1>1. cal[m].st = "FILEseek" /\ UNCHANGED <<calOpen, fCalibrated, saveVol, calFile>>
    BY DEF CalSeek
  <1>2. CASE UNCHANGED <<cal, calVol, trap>> /\ result = "working"
    BY <1>1, <1>2, CalTypes DEF CalEffect
  <1>3. CASE CalTo(m, "FILEread") /\ UNCHANGED <<calVol, trap>> /\ result = "working"
    <2>1. /\ cal' \in [Machines -> CalRecord] /\ cal'[m].st = "FILEread"
          /\ \A n \in Machines : n # m => cal'[n] = cal[n]
      BY <1>3, CalTypes, CalMoves
    <2> QED BY <1>1, <1>3, <2>1, CalTypes DEF CalEffect
  <1>4. CASE CalError(m, result)
    BY <1>1, <1>4, CalErrorEffect
  <1> QED BY <1>2, <1>3, <1>4 DEF CalSeek

LEMMA CalTransferEffect ==
  ASSUME NEW m, NEW v, NEW result, CalReady(m, v), CalTransfer(m, result)
  PROVE  CalEffect(m, v, result)
  <1>1. /\ cal[m].st \in {"FILEread", "FILEwrite"} /\ cal[m].left > 0
        /\ UNCHANGED <<calOpen, fCalibrated, saveVol, calFile>>
    BY DEF CalTransfer
  <1>2. CASE UNCHANGED <<cal, calVol, trap>> /\ result = "working"
    BY <1>1, <1>2, CalTypes DEF CalEffect
  <1>3. ASSUME NEW k \in {cal[m].left, cal[m].left - 1}, cal' = [cal EXCEPT ![m].left = k],
               UNCHANGED <<calVol, trap>>, result = "working"
        PROVE  CalEffect(m, v, result)
    <2>1. PICK r : r = [cal[m] EXCEPT !.left = k]
      OBVIOUS
    <2>2. k \in 0 .. CalPieces
      BY <1>1, <1>3, CalTypes, Pieces DEF CalRecord
    <2>3. r \in CalRecord /\ r.st = cal[m].st
      BY <2>1, <2>2, CalTypes DEF CalRecord
    <2>4. cal' = [cal EXCEPT ![m] = r]
      BY <1>3, <2>1, CalTypes
    <2>5. /\ cal' \in [Machines -> CalRecord] /\ cal'[m] = r
          /\ \A n \in Machines : n # m => cal'[n] = cal[n]
      BY <2>3, <2>4, CalTypes, CalSet
    <2> QED BY <1>1, <1>3, <2>3, <2>5, CalTypes DEF CalEffect
  <1>4. CASE CalError(m, result)
    BY <1>1, <1>4, CalErrorEffect
  <1>5. CASE /\ \E b \in BOOLEAN : cal' = [cal EXCEPT ![m].left = IF b THEN @ ELSE @ - 1]
             /\ UNCHANGED <<calVol, trap>> /\ result = "working"
    <2>1. PICK b \in BOOLEAN : cal' = [cal EXCEPT ![m].left = IF b THEN @ ELSE @ - 1]
      BY <1>5
    <2>2. PICK k : k = IF b THEN cal[m].left ELSE cal[m].left - 1
      OBVIOUS
    <2>3. cal' = [cal EXCEPT ![m].left = k]
      BY <2>1, <2>2, CalTypes
    <2> QED BY <1>3, <1>5, <2>2, <2>3
  <1>6. PICK b \in BOOLEAN : b = (m = "read" /\ calFile[calVol] = "short" /\ cal[m].left = 1)
    OBVIOUS
  <1> QED BY <1>2, <1>4, <1>5, <1>6 DEF CalTransfer

LEMMA CalTransferredEffect ==
  ASSUME NEW m, NEW v, NEW result, CalReady(m, v), CalTransferred(m, result)
  PROVE  CalEffect(m, v, result)
  <1> USE DEF CalStates
  <1>1. /\ cal[m].st \in {"FILEread", "FILEwrite"} /\ result = "working" /\ CalTo(m, "FILEclose")
        /\ fCalibrated' = (fCalibrated \/ m = "read")
        /\ saveVol' = IF m = "read" THEN calVol ELSE saveVol
        /\ calFile' = [calFile EXCEPT ![calVol] = "good"]
        /\ UNCHANGED <<calVol, calOpen, trap>>
    BY DEF CalTransferred
  <1>2. /\ cal' \in [Machines -> CalRecord] /\ cal'[m].st = "FILEclose"
        /\ \A n \in Machines : n # m => cal'[n] = cal[n]
    BY <1>1, CalTypes, CalMoves
  <1>3. calFile' \in [Vols -> CalFiles]
    BY <1>1, CalTypes DEF CalFiles
  <1>4. fCalibrated' \in BOOLEAN
    BY <1>1
  <1> QED BY <1>1, <1>2, <1>3, <1>4, CalTypes DEF CalEffect

LEMMA CalCloseEffect ==
  ASSUME NEW m, NEW v, NEW result, CalReady(m, v), CalClose(m, result)
  PROVE  CalEffect(m, v, result)
  <1>1. cal[m].st = "FILEclose" /\ UNCHANGED <<fCalibrated, saveVol, calFile>>
    BY DEF CalClose
  <1>2. CASE UNCHANGED <<cal, calVol, calOpen, trap>> /\ result = "working"
    BY <1>1, <1>2, CalTypes DEF CalEffect
  <1>3. CASE /\ calOpen' \in StaysOpen(m) /\ ClearUsage(calOpen') /\ result # "working"
             /\ cal' = [cal EXCEPT ![m] = IdleCal]
    <2>1. IdleCal \in CalRecord /\ IdleCal.st = "Idle"
      BY Pieces DEF IdleCal, CalRecord, CalStates
    <2>2. /\ cal' \in [Machines -> CalRecord] /\ cal'[m] = IdleCal
          /\ \A n \in Machines : n # m => cal'[n] = cal[n]
      BY <1>3, <2>1, CalTypes, CalSet
    <2>3. /\ calOpen' \in BOOLEAN /\ calVol' = NoVol
          /\ trap' = IF calOpen' THEN "not closed" ELSE trap
          /\ calOpen' => calVol = "SD" /\ (mounted = "no" \/ (m = "save" /\ mounted = "stale"))
      BY <1>3 DEF StaysOpen, ClearUsage
    <2> QED BY <1>1, <1>3, <2>1, <2>2, <2>3, CalTypes DEF CalEffect
  <1> QED BY <1>2, <1>3 DEF CalClose

\* ReadCalibrationData and SaveCalibrationData (File.cpp:71, 155).
LEMMA CalCallEffect ==
  ASSUME NEW m, NEW v, NEW result, CalReady(m, v), CalCall(m, v, result)
  PROVE  CalEffect(m, v, result)
  <1>1. CASE CalRefused(m, v, result)
    <2>1. cal[m].st = "Idle" /\ result = "failed" /\ UNCHANGED <<calib, calFile, trap>>
      BY <1>1 DEF CalRefused
    <2> QED BY <2>1, CalTypes DEF CalEffect, calib
  <1> QED BY <1>1, CalOpenEffect, CalSeekEffect, CalTransferEffect, CalTransferredEffect, CalCloseEffect
          DEF CalCall

LEMMA EntryKept ==
  ASSUME NEW m, NEW v, NEW result, CalReady(m, v), CalEffect(m, v, result)
  PROVE  /\ EntryHeld'
         /\ calVol' \in Vols \cup {NoVol} /\ saveVol' \in Vols
         /\ calVol' \in {calVol, v, NoVol}
  <1>1. m = "read" \/ m = "save"
    BY DEF CalReady, Machines
  <1>2. /\ \/ cal["read"].st = "Idle" /\ cal["save"].st = "Idle" /\ calVol = NoVol
           \/ calVol # NoVol /\ cal["read"].st # "Idle" /\ cal["save"].st = "Idle"
           \/ calVol # NoVol /\ cal["read"].st = "Idle" /\ cal["save"].st # "Idle"
        /\ calVol \in Vols \cup {NoVol} /\ v \in Vols /\ saveVol \in Vols
    BY DEF CalReady, EntryHeld, TypeOK
  <1>3. calVol' \in {calVol, v, NoVol} /\ saveVol' \in Vols
    BY <1>1, <1>2 DEF CalEffect
  <1>4. CASE m = "read"
    <2>1. cal'["save"] = cal["save"]
      BY <1>4 DEF CalEffect, Machines
    <2> QED BY <1>2, <1>3, <1>4, <2>1 DEF CalEffect, EntryHeld
  <1>5. CASE m = "save"
    <2>1. cal'["read"] = cal["read"]
      BY <1>5 DEF CalEffect, Machines
    <2> QED BY <1>2, <1>3, <1>5, <2>1 DEF CalEffect, EntryHeld
  <1> QED BY <1>1, <1>4, <1>5

-----------------------------------------------------------------------------
(* The invariant: one step per action.                                     *)

\* The type invariant, variable by variable.
Types ==
  /\ card \in {"out", "good", "bad"} /\ mounted \in {"no", "yes", "stale"}
  /\ flash \in {"formatted", "blank", "broken", "mounted"}
  /\ saved \in SavedLogs \cup {"none"} /\ calFile \in [Vols -> CalFiles]
  /\ flashState \in {"Idle", "FILEmount", "FILEmkfs", "FILEVerify"}
  /\ swap \in SwapStates /\ nextState \in {"Idle", "SDMounting"}
  /\ waited \in BOOLEAN /\ fSd0 \in BOOLEAN /\ fSd0Trans \in BOOLEAN
  /\ calOpen \in BOOLEAN /\ fCalibrated \in BOOLEAN
  /\ autoOk \in BOOLEAN /\ expired \in BOOLEAN /\ queued \in BOOLEAN /\ linked \in BOOLEAN
  /\ cal \in [Machines -> CalRecord]
  /\ calVol \in Vols \cup {NoVol} /\ saveVol \in Vols
  /\ saves \in 0 .. MaxCmds /\ cmds \in 0 .. MaxCmds /\ moves \in 0 .. MaxMoves
  /\ turn \in {"main", "deferred", "json", "swap"}

LEMMA TypesOK == (TypeOK <=> Types) /\ (TypeOK' <=> Types')
  <1>1. TypeOK <=> Types
    BY DEF TypeOK, Types, Machines, CalRecord, CalFiles
  <1>2. TypeOK' <=> Types'
    BY DEF TypeOK, Types, Machines, CalRecord, CalFiles
  <1> QED BY <1>1, <1>2

LEMMA Bounds ==
  /\ MaxMoves \in Nat /\ MaxCmds \in Nat
  /\ \A c \in CalFileStates : c \in CalFiles
  /\ \A v \in CmdVols : v \in Vols
  BY BootAssumption DEF CalFiles

LEMMA InitBInv == Init => BInv
  <1> SUFFICES ASSUME Init PROVE BInv
    OBVIOUS
  <1>1. cal \in [Machines -> CalRecord] /\ cal["read"].st = "Idle" /\ cal["save"].st = "Idle"
    BY Pieces DEF Init, IdleCal, Machines, CalRecord, CalStates
  <1>2. calFile \in [Vols -> CalFiles]
    BY Bounds DEF Init, CalFiles
  <1>3. saved \in SavedLogs \cup {"none"}
    BY DEF Init
  <1>4. 0 \in 0 .. MaxCmds /\ 0 \in 0 .. MaxMoves
    BY Bounds
  <1>5. Types
    BY <1>1, <1>2, <1>3, <1>4 DEF Init, Types, SwapStates, Vols
  <1>6. EntryHeld
    BY <1>1 DEF Init, EntryHeld
  <1>7. BootOrder
    BY <1>1 DEF Init, BootOrder, BootReadAlone, MainStates, NoCmd, UIOn
  <1> QED BY <1>5, <1>6, <1>7, TypesOK DEF BInv

\* What the calls leave of the calibration.
LEMMA CalIdleKept ==
  ASSUME EntryHeld, UNCHANGED <<calib, calFile>>, trap' = trap
  PROVE  EntryHeld'
  BY DEF EntryHeld, calib

LEMMA MainBInv ==
  ASSUME BInv, MainState
  PROVE  BInv'
  <1> USE TypesOK DEF BInv
  <1>1. /\ turn = "main" /\ trap = "none"
        /\ turn' = (IF SavePending THEN "deferred" ELSE IF UIOn' THEN "json" ELSE "swap")
        /\ UNCHANGED <<card, mounted, saved, hotSwap, command, moves>>
    BY DEF MainState
  <1>2. ASSUME /\ main' \in MainStates /\ flash' \in {"formatted", "blank", "broken", "mounted"}
               /\ flashState' \in {"Idle", "FILEmount", "FILEmkfs", "FILEVerify"}
               /\ autoOk' \in BOOLEAN /\ expired' \in BOOLEAN /\ queued' \in BOOLEAN /\ linked' \in BOOLEAN
               /\ cal' \in [Machines -> CalRecord] /\ calOpen' \in BOOLEAN /\ fCalibrated' \in BOOLEAN
               /\ calFile' \in [Vols -> CalFiles] /\ calVol' \in Vols \cup {NoVol} /\ saveVol' \in Vols
               /\ EntryHeld'
               /\ cal'["save"] = cal["save"]
               /\ UIOn => UIOn'
               /\ calVol' # NoVol => main' \in {"MAINInitCalibrationData", "UILoop"}
               /\ main' = "MAINInitCalibrationData" /\ calVol' # NoVol => calVol' = "FLASH"
        PROVE  BInv'
    <2>1. Types'
      BY <1>1, <1>2 DEF Types, hotSwap, command
    <2>2. BootOrder'
      BY <1>1, <1>2 DEF BootOrder, BootReadAlone, command, SavePending, UIOn
    <2> QED BY <1>2, <2>1, <2>2
  <1>3. CASE MainInstruments
    BY <1>2, <1>3, CalIdleKept DEF MainInstruments, MainTo, MainStays, boot, calIdle, calib, autoLog, Types,
          BootOrder, MainStates, UIOn
  <1>4. CASE MainFlash
    BY <1>2, <1>4, CalIdleKept DEF MainFlash, FlashTo, MainStays, boot, calib, autoLog, Types,
          BootOrder, MainStates, UIOn
  <1>5. CASE MainCalibration
    <2>1. PICK result \in {"working", "done", "failed"} :
            /\ CalCall("read", "FLASH", result)
            /\ IF result = "working" THEN MainStays ELSE MainTo("SDMounting")
      BY <1>5 DEF MainCalibration
    <2>2. main = "MAINInitCalibrationData" /\ UNCHANGED <<flash, autoLog>>
      BY <1>5 DEF MainCalibration
    <2>3. CalReady("read", "FLASH")
      BY <1>1 DEF CalReady, Machines, Vols
    <2>4. CalEffect("read", "FLASH", result)
      BY <2>1, <2>3, CalCallEffect
    <2>5. /\ EntryHeld' /\ calVol' \in Vols \cup {NoVol} /\ saveVol' \in Vols
          /\ calVol' \in {calVol, "FLASH", NoVol}
      BY <2>3, <2>4, EntryKept
    <2>6. /\ cal' \in [Machines -> CalRecord] /\ calOpen' \in BOOLEAN /\ fCalibrated' \in BOOLEAN
          /\ calFile' \in [Vols -> CalFiles] /\ cal'["save"] = cal["save"]
          /\ result # "working" => cal'["read"].st = "Idle"
      BY <2>4 DEF CalEffect, Machines
    <2>7. cal["save"].st = "Idle"
      BY <2>2 DEF BootOrder, UIOn
    <2>8. result # "working" => calVol' = NoVol
      BY <2>5, <2>6, <2>7 DEF EntryHeld
    <2>9. calVol = NoVol \/ calVol = "FLASH"
      BY <2>2 DEF BootOrder, BootReadAlone
    <2> QED BY <1>2, <2>1, <2>2, <2>5, <2>6, <2>8, <2>9
            DEF MainTo, MainStays, boot, autoLog, Types, BootOrder, MainStates, UIOn
  <1>6. CASE MainSd
    BY <1>2, <1>6, CalIdleKept DEF MainSd, MainTo, MainStays, boot, calIdle, calib, autoLog, Types,
          BootOrder, MainStates, UIOn
  <1>7. CASE MainAuto
    <2>1. main = "LOBAuto" /\ main' \in {"LOBAuto", "MAINRunUI"} /\ UNCHANGED <<flash, flashState, linked>>
          /\ UNCHANGED <<calib, calFile, trap>>
      BY <1>7 DEF MainAuto, MainTo, MainStays, boot
    <2>2. autoOk' \in BOOLEAN /\ expired' \in BOOLEAN /\ queued' \in BOOLEAN
      <3>1. autoOk \in BOOLEAN /\ expired \in BOOLEAN /\ queued \in BOOLEAN
        BY DEF Types
      <3> QED BY <1>7, <3>1 DEF MainAuto, AutoLogOnBootTask, AutoIdle, AutoExist, AutoOpening, AutoRead,
                  AutoClose, AutoWait, AutoEnd, AutoTo, AutoStay
    <2> QED BY <1>2, <2>1, <2>2, CalIdleKept DEF calib, Types, BootOrder, MainStates, UIOn
  <1>8. CASE MainUI
    BY <1>2, <1>8, CalIdleKept DEF MainUI, MainTo, MainStays, boot, calIdle, calib, autoLog, Types,
          BootOrder, MainStates, UIOn
  <1> QED BY <1>3, <1>4, <1>5, <1>6, <1>7, <1>8 DEF MainState

\* What one call leaves, in the terms of the invariant.
LEMMA CallBInv ==
  ASSUME BInv, trap = "none", NEW m \in Machines, NEW v \in Vols, NEW result, CalCall(m, v, result)
  PROVE  /\ CalEffect(m, v, result) /\ EntryHeld'
         /\ calVol' \in Vols \cup {NoVol} /\ saveVol' \in Vols
         /\ cal' \in [Machines -> CalRecord] /\ calOpen' \in BOOLEAN /\ fCalibrated' \in BOOLEAN
         /\ calFile' \in [Vols -> CalFiles]
         /\ m = "read" => cal'["save"] = cal["save"]
         /\ result # "working" <=> cal'[m].st = "Idle"
  <1>1. CalReady(m, v)
    BY DEF CalReady, BInv
  <1>2. CalEffect(m, v, result)
    BY <1>1, CalCallEffect
  <1>3. EntryHeld' /\ calVol' \in Vols \cup {NoVol} /\ saveVol' \in Vols
    BY <1>1, <1>2, EntryKept
  <1> QED BY <1>2, <1>3 DEF CalEffect, Machines

LEMMA SaveBInv ==
  ASSUME BInv, DeferredSave
  PROVE  BInv'
  <1> USE TypesOK DEF BInv
  <1>1. PICK result \in {"working", "done", "failed"} :
          CalCall("save", saveVol, result) /\ saves' = IF result = "working" THEN saves ELSE saves - 1
    BY DEF DeferredSave
  <1>2. /\ turn = "deferred" /\ trap = "none" /\ turn' = "json"
        /\ UNCHANGED <<card, mounted, flash, saved, boot, hotSwap, autoLog, cmd, cmds, moves>>
    BY DEF DeferredSave
  <1>3. "save" \in Machines /\ saveVol \in Vols
    BY DEF Machines, Types
  <1>4. /\ EntryHeld' /\ calVol' \in Vols \cup {NoVol} /\ saveVol' \in Vols
        /\ cal' \in [Machines -> CalRecord] /\ calOpen' \in BOOLEAN /\ fCalibrated' \in BOOLEAN
        /\ calFile' \in [Vols -> CalFiles]
        /\ result # "working" => cal'["save"].st = "Idle"
    BY <1>1, <1>2, <1>3, CallBInv
  <1>5. saves > 0 /\ saves \in 0 .. MaxCmds /\ cmds \in 0 .. MaxCmds /\ UIOn
    BY <1>2 DEF BootOrder, Types
  <1>6. saves' \in 0 .. MaxCmds /\ saves' <= cmds' /\ (saves' = 0 => cal'["save"].st = "Idle")
    BY <1>1, <1>2, <1>4, <1>5, Bounds DEF BootOrder
  <1>7. Types'
    BY <1>2, <1>4, <1>6 DEF Types, boot, hotSwap, autoLog
  <1>8. BootOrder'
    BY <1>2, <1>4, <1>5, <1>6 DEF BootOrder, BootReadAlone, boot, UIOn
  <1> QED BY <1>4, <1>7, <1>8

LEMMA JSONBInv ==
  ASSUME BInv, ProcessJSON
  PROVE  BInv'
  <1> USE TypesOK DEF BInv
  <1>1. /\ turn = "json" /\ trap = "none" /\ turn' = "swap" /\ UIOn
        /\ UNCHANGED <<card, mounted, flash, saved, boot, hotSwap, autoLog, moves>>
    BY DEF ProcessJSON, BootOrder
  <1>2. ASSUME /\ cal' \in [Machines -> CalRecord] /\ calOpen' \in BOOLEAN /\ fCalibrated' \in BOOLEAN
               /\ calFile' \in [Vols -> CalFiles] /\ calVol' \in Vols \cup {NoVol} /\ saveVol' \in Vols
               /\ EntryHeld'
               /\ cal'["save"] = cal["save"]
               /\ saves' \in 0 .. MaxCmds /\ cmds' \in 0 .. MaxCmds /\ saves' <= cmds' /\ saves' >= saves
               /\ cmd' \in [st : {"Idle", "FILEread", "Done"}, via : {"none", "FT245", "other"},
                            vol : Vols \cup {NoVol}]
               /\ cmd'.st = "FILEread" => cmd'.vol \in Vols
        PROVE  BInv'
    <2>1. Types'
      BY <1>1, <1>2 DEF Types, boot, hotSwap, autoLog
    <2>2. saves' = 0 => saves = 0
      BY <1>2 DEF Types
    <2>3. BootOrder'
      BY <1>1, <1>2, <2>2 DEF BootOrder, BootReadAlone, boot, UIOn
    <2> QED BY <1>2, <2>1, <2>3
  <1>3. /\ cal \in [Machines -> CalRecord] /\ calOpen \in BOOLEAN /\ fCalibrated \in BOOLEAN
        /\ calFile \in [Vols -> CalFiles] /\ calVol \in Vols \cup {NoVol} /\ saveVol \in Vols
        /\ saves \in 0 .. MaxCmds /\ cmds \in 0 .. MaxCmds /\ saves <= cmds
        /\ cmd \in [st : {"Idle", "FILEread", "Done"}, via : {"none", "FT245", "other"}, vol : Vols \cup {NoVol}]
        /\ cmd.st = "FILEread" => cmd.vol \in Vols
    BY DEF Types, BootOrder
  <1>4. CASE CalibrateSave
    <2>1. PICK via \in {"FT245", "other"}, vol \in CmdVols : NewCmd(via, vol) /\ saveVol' = vol
      BY <1>4 DEF CalibrateSave
    <2>2. saves' = saves + 1 /\ UNCHANGED <<cmd, cal, calVol, calOpen, fCalibrated, calFile, trap>>
      BY <1>4 DEF CalibrateSave
    <2>3. cmds < MaxCmds /\ cmds' = cmds + 1
      BY <2>1 DEF NewCmd
    <2>4. /\ saves' \in 0 .. MaxCmds /\ cmds' \in 0 .. MaxCmds /\ saves' <= cmds' /\ saves' >= saves
      BY <1>3, <2>2, <2>3, Bounds
    <2>5. EntryHeld'
      BY <2>2 DEF EntryHeld
    <2> QED BY <1>2, <1>3, <2>1, <2>2, <2>4, <2>5, Bounds
  <1>5. CASE CalibrateLoad
    <2>1. CASE /\ \E via \in {"FT245", "other"}, vol \in CmdVols :
                     NewCmd(via, vol) /\ cmd' = [st |-> "FILEread", via |-> via, vol |-> vol]
               /\ UNCHANGED <<saves, calIdle>>
      <3>1. PICK via \in {"FT245", "other"}, vol \in CmdVols :
              NewCmd(via, vol) /\ cmd' = [st |-> "FILEread", via |-> via, vol |-> vol]
        BY <2>1
      <3>2. cmds' \in 0 .. MaxCmds /\ saves <= cmds'
        BY <1>3, <3>1, Bounds DEF NewCmd
      <3>3. vol \in Vols
        BY Bounds
      <3>4. cmd'.st = "FILEread" /\ cmd'.vol \in Vols
            /\ cmd' \in [st : {"Idle", "FILEread", "Done"}, via : {"none", "FT245", "other"},
                         vol : Vols \cup {NoVol}]
        BY <3>1, <3>3
      <3>5. saves' = saves /\ UNCHANGED <<calib, calFile, trap>> /\ EntryHeld'
        BY <2>1, CalIdleKept DEF calIdle
      <3>6. saves >= saves
        BY <1>3
      <3> QED BY <1>2, <1>3, <3>2, <3>4, <3>5, <3>6 DEF calib
    <2>2. CASE /\ cmd.st = "FILEread"
               /\ \E result \in {"working", "done", "failed"} :
                    /\ CalCall("read", cmd.vol, result)
                    /\ cmd' = [cmd EXCEPT !.st = IF result = "working" THEN @ ELSE "Done"]
               /\ UNCHANGED <<saves, cmds>>
      <3>1. PICK result \in {"working", "done", "failed"} :
              /\ CalCall("read", cmd.vol, result)
              /\ cmd' = [cmd EXCEPT !.st = IF result = "working" THEN @ ELSE "Done"]
        BY <2>2
      <3>2. "read" \in Machines /\ cmd.vol \in Vols
        BY <1>3, <2>2 DEF Machines
      <3>3. /\ EntryHeld' /\ calVol' \in Vols \cup {NoVol} /\ saveVol' \in Vols
            /\ cal' \in [Machines -> CalRecord] /\ calOpen' \in BOOLEAN /\ fCalibrated' \in BOOLEAN
            /\ calFile' \in [Vols -> CalFiles] /\ cal'["save"] = cal["save"]
        BY <1>1, <3>1, <3>2, CallBInv
      <3>4. cmd'.vol \in Vols
            /\ cmd' \in [st : {"Idle", "FILEread", "Done"}, via : {"none", "FT245", "other"},
                         vol : Vols \cup {NoVol}]
        BY <1>3, <3>1, <3>2
      <3>5. saves >= saves
        BY <1>3
      <3> QED BY <1>2, <1>3, <2>2, <3>3, <3>4, <3>5
    <2>3. CASE cmd.st = "Done" /\ cmd' = NoCmd /\ UNCHANGED <<saves, cmds, calIdle>>
      <3>1. saves >= saves
        BY <1>3
      <3> QED BY <1>2, <1>3, <2>3, <3>1, CalIdleKept DEF NoCmd, calIdle, calib
    <2> QED BY <1>5, <2>1, <2>2, <2>3 DEF CalibrateLoad
  <1>6. CASE UNCHANGED <<command, calIdle>>
    <2>1. saves >= saves
      BY <1>3
    <2> QED BY <1>2, <1>3, <1>6, <2>1, CalIdleKept DEF command, calIdle, calib
  <1> QED BY <1>4, <1>5, <1>6 DEF ProcessJSON

LEMMA SwapBInv ==
  ASSUME BInv, SdHotSwapTask
  PROVE  BInv'
  <1> USE TypesOK DEF BInv
  <1>1. /\ turn = "swap" /\ trap = "none" /\ turn' = "main"
        /\ UNCHANGED <<card, flash, saved, boot, autoLog, command, moves>>
    BY DEF SdHotSwapTask
  <1>2. ASSUME /\ cal' \in [Machines -> CalRecord] /\ calOpen' \in BOOLEAN /\ fCalibrated' \in BOOLEAN
               /\ calFile' \in [Vols -> CalFiles] /\ calVol' \in Vols \cup {NoVol} /\ saveVol' \in Vols
               /\ EntryHeld'
               /\ cal'["save"] = cal["save"]
               /\ calVol' = calVol \/ UIOn
               /\ mounted' \in {"no", "yes", "stale"} /\ swap' \in SwapStates
               /\ nextState' \in {"Idle", "SDMounting"}
               /\ waited' \in BOOLEAN /\ fSd0' \in BOOLEAN /\ fSd0Trans' \in BOOLEAN
        PROVE  BInv'
    <2>1. Types'
      BY <1>1, <1>2 DEF Types, boot, command, autoLog
    <2>2. BootOrder'
      BY <1>1, <1>2 DEF BootOrder, BootReadAlone, boot, UIOn, command
    <2> QED BY <1>2, <2>1, <2>2
  <1>3. /\ cal \in [Machines -> CalRecord] /\ calOpen \in BOOLEAN /\ fCalibrated \in BOOLEAN
        /\ calFile \in [Vols -> CalFiles] /\ calVol \in Vols \cup {NoVol} /\ saveVol \in Vols
        /\ mounted \in {"no", "yes", "stale"} /\ swap \in SwapStates
        /\ nextState \in {"Idle", "SDMounting"}
        /\ waited \in BOOLEAN /\ fSd0 \in BOOLEAN /\ fSd0Trans \in BOOLEAN
    BY DEF Types
  <1>4. CASE SwapReadCalibration
    <2>1. CASE JSONListening
      <3>1. PICK result \in {"working", "done", "failed"} :
              CalCall("read", "SD", result) /\ swap' = IF result = "working" THEN swap ELSE "SDInserted"
        BY <1>4, <2>1 DEF SwapReadCalibration
      <3>2. "read" \in Machines /\ "SD" \in Vols
        BY DEF Machines, Vols
      <3>3. /\ EntryHeld' /\ calVol' \in Vols \cup {NoVol} /\ saveVol' \in Vols
            /\ cal' \in [Machines -> CalRecord] /\ calOpen' \in BOOLEAN /\ fCalibrated' \in BOOLEAN
            /\ calFile' \in [Vols -> CalFiles] /\ cal'["save"] = cal["save"]
        BY <1>1, <3>1, <3>2, CallBInv
      <3> QED BY <1>2, <1>3, <1>4, <2>1, <3>1, <3>3 DEF SwapReadCalibration, JSONListening, SwapStates
    <2>2. CASE ~JSONListening
      BY <1>2, <1>3, <1>4, <2>2, CalIdleKept DEF SwapReadCalibration, calIdle, calib
    <2> QED BY <2>1, <2>2
  <1>5. CASE SwapIdle \/ SwapWaiting \/ SwapMounting \/ SwapGetSize \/ SwapInserted \/ SwapUnmount
    <2>1. UNCHANGED <<calib, calFile, trap>> /\ EntryHeld'
      BY <1>5, CalIdleKept DEF SwapIdle, SwapWaiting, SwapMounting, SwapGetSize, SwapInserted, SwapUnmount,
         calIdle, hotSwap
    <2>2. /\ mounted' \in {"no", "yes", "stale"} /\ swap' \in SwapStates
          /\ nextState' \in {"Idle", "SDMounting"}
          /\ waited' \in BOOLEAN /\ fSd0' \in BOOLEAN /\ fSd0Trans' \in BOOLEAN
      BY <1>3, <1>5 DEF SwapIdle, SwapWaiting, SwapMounting, SwapGetSize, SwapInserted, SwapUnmount, SwapStates,
         hotSwap, TransOver, FlagIn
    <2> QED BY <1>2, <1>3, <2>1, <2>2 DEF calib
  <1> QED BY <1>4, <1>5 DEF SdHotSwapTask

LEMMA NextBInv ==
  ASSUME BInv, [Next]_vars
  PROVE  BInv'
  <1> USE TypesOK DEF BInv
  <1>1. CASE SuperLoop
    BY <1>1, MainBInv, SaveBInv, JSONBInv, SwapBInv DEF SuperLoop
  <1>2. CASE Pull
    <2>1. moves' \in 0 .. MaxMoves
      BY <1>2, Bounds DEF Pull, Types
    <2>2. Types'
      BY <1>2, <2>1 DEF Pull, Types, boot, hotSwap, calib, autoLog, command
    <2> QED BY <1>2, <2>2, CalIdleKept DEF Pull, BootOrder, BootReadAlone, boot, calib, command, UIOn
  <1>3. CASE Insert
    <2>1. moves' \in 0 .. MaxMoves
      BY <1>3, Bounds DEF Insert, Types
    <2>2. calFile' \in [Vols -> CalFiles]
      BY <1>3, Bounds DEF Insert, Types, CalFiles
    <2>3. Types'
      BY <1>3, <2>1, <2>2 DEF Insert, Types, boot, hotSwap, calib, autoLog, command
    <2> QED BY <1>3, <2>3 DEF Insert, EntryHeld, BootOrder, BootReadAlone, boot, calib, command, UIOn
  <1>4. CASE SwapTime \/ AutoTime \/ UNCHANGED vars
    <2>1. Types'
      <3>1. waited' \in BOOLEAN /\ expired' \in BOOLEAN
        BY <1>4 DEF SwapTime, AutoTime, vars, hotSwap, autoLog, Types
      <3>2. UNCHANGED <<card, volumes, saved, boot, swap, nextState, fSd0, fSd0Trans, calib, autoOk, queued,
                        command, turn, moves>>
        BY <1>4 DEF SwapTime, AutoTime, vars, hotSwap, autoLog
      <3> QED BY <3>1, <3>2 DEF Types, volumes, boot, calib, command
    <2>2. EntryHeld'
      BY <1>4 DEF SwapTime, AutoTime, vars, volumes, EntryHeld, calib
    <2>3. BootOrder'
      BY <1>4 DEF SwapTime, AutoTime, vars, BootOrder, BootReadAlone, boot, calib, command, UIOn
    <2> QED BY <2>1, <2>2, <2>3
  <1> QED BY <1>1, <1>2, <1>3, <1>4 DEF Next

LEMMA BootInvariant == Spec => []BInv
  <1>1. BInv /\ [Next]_vars => BInv'
    BY NextBInv
  <1> QED BY <1>1, InitBInv, PTL DEF Spec

\* The variables keep their types: no state is left by a way the code does not
\* have, and no save that was not queued is taken off the queue.
THEOREM BootTypeOK == Spec => []TypeOK
  <1>1. BInv => TypeOK
    BY DEF BInv
  <1> QED BY <1>1, BootInvariant, PTL

\* The calibration that main reads at boot is the one in flash, whatever card
\* is put in meanwhile (File.cpp:415).
THEOREM BootReadsFlash == Spec => []BootReadAlone
  <1>1. BInv => BootReadAlone
    BY DEF BInv, BootOrder
  <1> QED BY <1>1, BootInvariant, PTL

\* The entry is what keeps a save out of a load: it is held while either is at
\* work, for as long as no ASSERT has stopped the firmware.
THEOREM LoadOrSave == Spec => [](trap = "none" => CalibrationHeld)
  <1>1. BInv /\ trap = "none" => CalibrationHeld
    BY DEF BInv, EntryHeld, CalibrationHeld
  <1> QED BY <1>1, BootInvariant, PTL

-----------------------------------------------------------------------------
(* No entry is given back with its file open.                              *)

\* What the user does: a card in use stays in its slot, and one that was pulled
\* does not come back before that was seen.
Careful == PullWhileUsed = FALSE /\ Bounce = FALSE

\* fSd0 says that the volume of the card is mounted, and it is cleared before the
\* volume is unmounted; a card that is in is never the one after a card that was
\* pulled unseen.
CardSeen ==
  /\ nextState = "Idle"
  /\ swap \in {"Idle", "Waiting", "SDMounting"} => mounted = "no"
  /\ fSd0 => swap \in {"FILEgetsize", "SDReadCalibration", "SDInserted"} /\ mounted # "no"
  /\ swap \in {"FILEgetsize", "SDReadCalibration"} => fSd0
  /\ CardIn /\ swap # "FILEunmount" => mounted # "stale"

\* A file on the card is at work for the hot swap task, which stays where it is
\* until that is done, or for a command or a save, which keep the card in.
CardKept ==
  /\ cmd.vol = "SD" => CardIn
  /\ calVol = "SD" => fSd0
  /\ cal["read"].st # "Idle" /\ calVol = "SD" =>
       swap = "SDReadCalibration" \/ (cmd.st = "FILEread" /\ cmd.vol = "SD")
  /\ cal["save"].st # "Idle" /\ calVol = "SD" => CardIn

\* A save that has not begun is for a card that is in, or for flash: when a read
\* of a card that is out has just made it one for the card, the entry is still
\* held, and the save is refused.
SaveAlone ==
  /\ saves > 0 /\ turn = "json" => cal["save"].st # "Idle"
  /\ saves > 0 /\ cal["save"].st = "Idle" /\ saveVol = "SD" /\ ~CardIn =>
       cal["read"].st = "FILEclose" /\ turn \in {"main", "deferred"}

CardInv == trap = "none" /\ CardSeen /\ CardKept /\ SaveAlone

\* What a call leaves of it, when a read on the card is asked for by one that
\* keeps the card in, or by the hot swap task.
LEMMA CallCard ==
  ASSUME BInv, CardInv, NEW m \in Machines, NEW v \in Vols, NEW result, CalCall(m, v, result),
         m = "save" /\ v = "SD" /\ cal["save"].st = "Idle" /\ calVol = NoVol => CardIn
  PROVE  /\ trap' = "none"
         /\ calVol' = "SD" => fSd0
         /\ calVol' = "SD" => calVol = "SD" \/ (calVol = NoVol /\ cal[m].st = "Idle" /\ v = "SD")
         /\ m = "save" => cal'["read"] = cal["read"] /\ saveVol' = saveVol
         /\ m = "read" => cal'["save"] = cal["save"]
         /\ cal'["save"].st # "Idle" /\ calVol' = "SD" => CardIn
         /\ result # "working" <=> cal'[m].st = "Idle"
         /\ saveVol' = saveVol \/ (calVol # NoVol /\ cal'["read"].st = "FILEclose")
  <1>1. CalEffect(m, v, result) /\ EntryHeld' /\ EntryHeld
    BY CallBInv DEF CardInv, BInv
  <1>2. m = "read" \/ m = "save"
    BY DEF Machines
  <1>3. /\ trap = "none"
        /\ calVol = "SD" => fSd0 /\ mounted # "no"
        /\ fSd0 /\ CardIn => mounted # "stale"
        /\ cal["save"].st # "Idle" /\ calVol = "SD" => CardIn
    BY DEF CardInv, CardSeen, CardKept
  <1>4. trap' = "none"
    BY <1>1, <1>2, <1>3 DEF CalEffect
  <1>5. /\ \A n \in Machines : n # m => cal'[n] = cal[n]
        /\ \/ UNCHANGED <<cal, calVol>>
           \/ /\ cal'[m].st # "Idle" /\ calVol' # NoVol
              /\ \/ cal[m].st # "Idle" /\ calVol' = calVol
                 \/ cal[m].st = "Idle" /\ calVol = NoVol /\ calVol' = v /\ (v = "SD" => fSd0)
           \/ cal'[m].st = "Idle" /\ calVol' = NoVol /\ (cal[m].st # "Idle" \/ calVol = NoVol)
        /\ m = "save" => saveVol' = saveVol
        /\ result # "working" <=> cal'[m].st = "Idle"
        /\ saveVol' = saveVol \/ (m = "read" /\ cal[m].st # "Idle" /\ cal'["read"].st = "FILEclose")
    BY <1>1 DEF CalEffect
  <1>6. /\ m = "save" => cal'["read"] = cal["read"] /\ saveVol' = saveVol
        /\ m = "read" => cal'["save"] = cal["save"]
    BY <1>2, <1>5 DEF Machines
  <1>7. NoVol # "SD"
    BY DEF NoVol
  <1>8. CASE m = "read"
    BY <1>1, <1>3, <1>4, <1>5, <1>6, <1>7, <1>8 DEF EntryHeld
  <1>9. CASE m = "save"
    BY <1>3, <1>4, <1>5, <1>6, <1>7, <1>9
  <1> QED BY <1>2, <1>8, <1>9

LEMMA MainCard ==
  ASSUME BInv, CardInv, MainState
  PROVE  CardInv'
  <1>1. /\ turn = "main" /\ trap = "none"
        /\ turn' = (IF SavePending THEN "deferred" ELSE IF UIOn' THEN "json" ELSE "swap")
        /\ UNCHANGED <<card, mounted, saved, hotSwap, command, moves>>
    BY DEF MainState
  <1>2. CardSeen'
    BY <1>1 DEF CardInv, CardSeen, CardIn, hotSwap
  <1>3. CASE MainCalibration
    <2>1. PICK result : CalCall("read", "FLASH", result)
      BY <1>3 DEF MainCalibration
    <2>2. /\ trap' = "none" /\ (calVol' = "SD" => fSd0) /\ (calVol' = "SD" => calVol = "SD")
          /\ cal'["save"] = cal["save"]
      BY <2>1, CallCard DEF Machines, Vols
    <2>3. ~UIOn /\ saves = 0 /\ cal["save"].st = "Idle" /\ (calVol # NoVol => calVol = "FLASH")
      BY <1>3 DEF MainCalibration, BInv, BootOrder, BootReadAlone, UIOn
    <2>4. calVol' # "SD"
      BY <2>2, <2>3 DEF NoVol
    <2> QED BY <1>1, <1>2, <2>2, <2>3, <2>4 DEF CardInv, CardKept, SaveAlone, CardIn, command
  <1>4. CASE MainInstruments \/ MainFlash \/ MainSd \/ MainAuto \/ MainUI
    <2>1. UNCHANGED <<calib, trap>>
      BY <1>4 DEF MainInstruments, MainFlash, MainSd, MainAuto, MainUI, calIdle
    <2>2. CardKept'
      BY <1>1, <2>1 DEF CardInv, CardKept, CardIn, hotSwap, calib, command
    <2>3. SaveAlone'
      BY <1>1, <2>1 DEF CardInv, SaveAlone, SavePending, CardIn, calib, command
    <2> QED BY <1>1, <1>2, <2>1, <2>2, <2>3 DEF CardInv
  <1> QED BY <1>3, <1>4 DEF MainState

LEMMA SaveCard ==
  ASSUME BInv, CardInv, saves <= 1, DeferredSave
  PROVE  CardInv'
  <1>1. PICK result \in {"working", "done", "failed"} :
          CalCall("save", saveVol, result) /\ saves' = IF result = "working" THEN saves ELSE saves - 1
    BY DEF DeferredSave
  <1>2. /\ turn = "deferred" /\ trap = "none" /\ turn' = "json"
        /\ UNCHANGED <<card, mounted, flash, saved, boot, hotSwap, autoLog, cmd, cmds, moves>>
    BY DEF DeferredSave
  <1>3. saves = 1
    BY <1>2 DEF BInv, BootOrder, TypeOK
  <1>4. "save" \in Machines /\ saveVol \in Vols
    BY DEF Machines, BInv, TypeOK
  <1>5. saveVol = "SD" /\ cal["save"].st = "Idle" /\ calVol = NoVol => CardIn
    BY <1>3 DEF CardInv, SaveAlone, BInv, EntryHeld
  <1>6. /\ trap' = "none" /\ (calVol' = "SD" => fSd0)
        /\ calVol' = "SD" => calVol = "SD" \/ (calVol = NoVol /\ saveVol = "SD")
        /\ cal'["read"] = cal["read"] /\ saveVol' = saveVol
        /\ cal'["save"].st # "Idle" /\ calVol' = "SD" => CardIn
        /\ result # "working" <=> cal'["save"].st = "Idle"
    BY <1>1, <1>4, <1>5, CallCard
  <1>7. CardSeen'
    BY <1>2 DEF CardInv, CardSeen, CardIn, hotSwap
  <1>8. CASE saves' = 0
    <2>1. SaveAlone'
      BY <1>8 DEF SaveAlone
    <2>2. cal'["read"].st # "Idle" /\ calVol' = "SD" => calVol = "SD"
      BY <1>6 DEF BInv, EntryHeld
    <2>3. CardKept'
      BY <1>2, <1>6, <2>2 DEF CardInv, CardKept, CardIn, hotSwap
    <2> QED BY <1>6, <1>7, <2>1, <2>3 DEF CardInv
  <1>9. CASE result = "working"
    <2>1. cal'["save"].st # "Idle"
      BY <1>6, <1>9
    <2>2. SaveAlone'
      BY <2>1 DEF SaveAlone
    <2>3. cal'["read"].st # "Idle" /\ calVol' = "SD" => calVol = "SD"
      BY <1>6 DEF BInv, EntryHeld
    <2>4. CardKept'
      BY <1>2, <1>6, <2>3 DEF CardInv, CardKept, CardIn, hotSwap
    <2> QED BY <1>6, <1>7, <2>2, <2>4 DEF CardInv
  <1> QED BY <1>1, <1>3, <1>8, <1>9

LEMMA JSONCard ==
  ASSUME Careful, BInv, CardInv, saves' <= 1, ProcessJSON
  PROVE  CardInv'
  <1>1. /\ turn = "json" /\ trap = "none" /\ turn' = "swap"
        /\ UNCHANGED <<card, mounted, flash, saved, boot, hotSwap, autoLog, moves>>
    BY DEF ProcessJSON
  <1>2. CardSeen'
    BY <1>1 DEF CardInv, CardSeen, CardIn, hotSwap
  <1>3. saves > 0 => cal["save"].st # "Idle"
    BY <1>1 DEF CardInv, SaveAlone
  <1>4. ASSUME NEW via, NEW vol, NewCmd(via, vol), vol = "SD" PROVE CardIn
    BY <1>4 DEF Careful, NewCmd, CmdMayName
  <1>5. CASE CalibrateSave
    <2>1. PICK via \in {"FT245", "other"}, vol \in CmdVols : NewCmd(via, vol) /\ saveVol' = vol
      BY <1>5 DEF CalibrateSave
    <2>2. saves' = saves + 1 /\ UNCHANGED <<cmd, cal, calVol, calOpen, fCalibrated, calFile, trap>>
      BY <1>5 DEF CalibrateSave
    <2>3. CardKept'
      BY <1>1, <2>2 DEF CardInv, CardKept, CardIn, hotSwap
    <2>4. SaveAlone'
      BY <1>1, <1>4, <2>1 DEF SaveAlone, CardIn
    <2> QED BY <1>1, <1>2, <2>2, <2>3, <2>4 DEF CardInv
  <1>6. ASSUME NEW via, NEW vol, NewCmd(via, vol), cmd' = [st |-> "FILEread", via |-> via, vol |-> vol],
               UNCHANGED <<saves, calIdle>>
        PROVE  CardInv'
    <2>1. cmd.st = "Idle" /\ UNCHANGED calib /\ trap' = trap
      BY <1>6 DEF NewCmd, calIdle
    <2>2. cmd'.vol = "SD" => CardIn
      BY <1>4, <1>6
    <2>3. CardKept'
      BY <1>1, <2>1, <2>2 DEF CardInv, CardKept, CardIn, hotSwap, calib
    <2>4. SaveAlone'
      BY <1>1, <1>3, <1>6, <2>1 DEF SaveAlone, calib
    <2> QED BY <1>1, <1>2, <2>1, <2>3, <2>4 DEF CardInv
  <1>7. ASSUME NEW result, cmd.st = "FILEread", CalCall("read", cmd.vol, result), UNCHANGED <<saves, cmds>>,
               cmd' = [cmd EXCEPT !.st = IF result = "working" THEN @ ELSE "Done"]
        PROVE  CardInv'
    <2>1. "read" \in Machines /\ cmd.vol \in Vols
      BY <1>7 DEF Machines, BInv, BootOrder
    <2>2. /\ trap' = "none" /\ (calVol' = "SD" => fSd0)
          /\ calVol' = "SD" => calVol = "SD" \/ (calVol = NoVol /\ cmd.vol = "SD")
          /\ cal'["save"] = cal["save"]
          /\ cal'["save"].st # "Idle" /\ calVol' = "SD" => CardIn
          /\ result # "working" <=> cal'["read"].st = "Idle"
      BY <1>7, <2>1, CallCard
    <2>3. EntryHeld /\ EntryHeld'
      BY <1>1, <1>7, <2>1, CallBInv DEF BInv
    <2>4. /\ cmd'.vol = cmd.vol
          /\ cal'["read"].st # "Idle" => cmd'.st = "FILEread"
      BY <1>7, <2>2 DEF BInv, BootOrder
    <2>5. cal'["read"].st # "Idle" /\ calVol' = "SD" =>
            swap = "SDReadCalibration" \/ (cmd'.st = "FILEread" /\ cmd'.vol = "SD")
      BY <1>7, <2>2, <2>3, <2>4 DEF EntryHeld, CardInv, CardKept, NoVol
    <2>6. CardKept'
      BY <1>1, <2>2, <2>4, <2>5 DEF CardInv, CardKept, CardIn, hotSwap
    <2>7. SaveAlone'
      BY <1>1, <1>3, <1>7, <2>2 DEF SaveAlone
    <2> QED BY <1>2, <2>2, <2>6, <2>7 DEF CardInv
  <1>8. CASE UNCHANGED <<saves, cmds, calIdle>> /\ (cmd' = cmd \/ (cmd.st = "Done" /\ cmd' = NoCmd))
    <2>1. UNCHANGED calib /\ trap' = trap
      BY <1>8 DEF calIdle
    <2>2. CardKept'
      BY <1>1, <1>8, <2>1 DEF CardInv, CardKept, CardIn, hotSwap, calib, NoCmd, NoVol
    <2>3. SaveAlone'
      BY <1>1, <1>3, <1>8, <2>1 DEF SaveAlone, calib
    <2> QED BY <1>1, <1>2, <2>1, <2>2, <2>3 DEF CardInv
  <1> QED BY <1>5, <1>6, <1>7, <1>8 DEF ProcessJSON, CalibrateLoad, command

LEMMA SwapCard ==
  ASSUME BInv, CardInv, SdHotSwapTask
  PROVE  CardInv'
  <1>1. /\ turn = "swap" /\ trap = "none" /\ turn' = "main"
        /\ UNCHANGED <<card, flash, saved, boot, autoLog, command, moves>>
    BY DEF SdHotSwapTask
  <1>2. ~(saves > 0 /\ cal["save"].st = "Idle" /\ saveVol = "SD" /\ ~CardIn)
    BY <1>1 DEF CardInv, SaveAlone
  <1>3. ASSUME NEW result, CalCall("read", "SD", result), swap = "SDReadCalibration",
               swap' = IF result = "working" THEN swap ELSE "SDInserted",
               UNCHANGED <<nextState, waited, fSd0, fSd0Trans, mounted>>
        PROVE  CardInv'
    <2>1. /\ trap' = "none" /\ (calVol' = "SD" => fSd0)
          /\ cal'["save"] = cal["save"]
          /\ cal'["save"].st # "Idle" /\ calVol' = "SD" => CardIn
          /\ result # "working" <=> cal'["read"].st = "Idle"
          /\ saveVol' = saveVol \/ (calVol # NoVol /\ cal'["read"].st = "FILEclose")
      BY <1>3, CallCard DEF Machines, Vols
    <2>2. CardSeen'
      BY <1>1, <1>3 DEF CardInv, CardSeen, CardIn
    <2>3. CardKept'
      BY <1>1, <1>3, <2>1 DEF CardInv, CardKept, CardIn, command
    <2>4. SaveAlone'
      BY <1>1, <1>2, <2>1 DEF SaveAlone, CardIn, command
    <2> QED BY <2>1, <2>2, <2>3, <2>4 DEF CardInv
  <1>4. CASE UNCHANGED <<calib, trap>>
    <2>1. SaveAlone'
      BY <1>1, <1>2, <1>4 DEF SaveAlone, CardIn, calib, command
    <2>2. ASSUME CardSeen', calVol = "SD" => fSd0',
                 cal["read"].st # "Idle" /\ swap = "SDReadCalibration" => swap' = swap
          PROVE  CardInv'
      <3>1. CardKept'
        BY <1>1, <1>4, <2>2 DEF CardInv, CardKept, CardIn, calib, command
      <3> QED BY <1>1, <1>4, <2>1, <2>2, <3>1 DEF CardInv
    <2>3. CASE SwapIdle
      BY <1>1, <2>2, <2>3 DEF SwapIdle, TransOver, CardInv, CardSeen, CardKept, CardIn
    <2>4. CASE SwapWaiting
      BY <1>1, <2>2, <2>4 DEF SwapWaiting, CardInv, CardSeen, CardKept, CardIn
    <2>5. CASE SwapMounting
      BY <1>1, <2>2, <2>5 DEF SwapMounting, FlagIn, CardInv, CardSeen, CardKept, CardIn
    <2>6. CASE SwapGetSize
      BY <1>1, <2>2, <2>6 DEF SwapGetSize, CardInv, CardSeen, CardKept, CardIn
    <2>7. CASE SwapInserted
      <3>1. calVol = "SD" /\ swap = "SDInserted" => CardIn
        BY DEF BInv, EntryHeld, CardInv, CardKept, NoVol
      <3> QED BY <1>1, <2>2, <2>7, <3>1 DEF SwapInserted, CardGone, CardInv, CardSeen, CardKept, CardIn, hotSwap
    <2>8. CASE SwapUnmount
      BY <1>1, <2>2, <2>8 DEF SwapUnmount, CardInv, CardSeen, CardKept, CardIn
    <2>9. CASE SwapReadCalibration /\ ~JSONListening
      BY <1>1, <2>2, <2>9 DEF SwapReadCalibration, CardInv, CardSeen, CardKept, CardIn
    <2>10. CASE SwapReadCalibration /\ JSONListening
      BY <1>3, <2>10 DEF SwapReadCalibration
    <2> QED BY <2>3, <2>4, <2>5, <2>6, <2>7, <2>8, <2>9, <2>10 DEF SdHotSwapTask
  <1>5. CASE SwapReadCalibration /\ JSONListening
    BY <1>3, <1>5 DEF SwapReadCalibration
  <1> QED BY <1>4, <1>5 DEF SdHotSwapTask, SwapIdle, SwapWaiting, SwapMounting, SwapGetSize,
          SwapReadCalibration, SwapInserted, SwapUnmount, calIdle

LEMMA NextCard ==
  ASSUME Careful, BInv, CardInv, saves <= 1, saves' <= 1, [Next]_vars
  PROVE  CardInv'
  <1>1. CASE SuperLoop
    BY <1>1, MainCard, SaveCard, JSONCard, SwapCard DEF SuperLoop
  <1>2. CASE Pull
    <2>1. /\ cmd.vol # "SD" /\ saves = 0 /\ card' = "out"
          /\ mounted' = IF mounted = "yes" THEN "stale" ELSE mounted
          /\ UNCHANGED <<hotSwap, calib, command, turn, trap>>
      BY <1>2 DEF Pull, Careful
    <2>2. cal["save"].st = "Idle"
      BY <2>1 DEF BInv, BootOrder
    <2>3. CardSeen'
      BY <2>1 DEF CardInv, CardSeen, CardIn, hotSwap
    <2>4. CardKept'
      BY <2>1, <2>2 DEF CardInv, CardKept, hotSwap, calib, command
    <2>5. SaveAlone'
      BY <2>1 DEF SaveAlone, command
    <2> QED BY <2>1, <2>3, <2>4, <2>5 DEF CardInv, calib
  <1>3. CASE Insert
    <2>1. /\ ~CardIn /\ swap \in {"Idle", "Waiting", "FILEunmount"} /\ CardIn'
          /\ UNCHANGED <<mounted, hotSwap, calib, command, turn, trap>>
      BY <1>3 DEF Insert, Careful, CardIn
    <2>2. CardSeen'
      BY <2>1 DEF CardInv, CardSeen, hotSwap
    <2>3. CardKept'
      BY <2>1 DEF CardInv, CardKept, hotSwap, calib, command
    <2>4. SaveAlone'
      BY <2>1 DEF CardInv, SaveAlone, calib, command
    <2> QED BY <2>1, <2>2, <2>3, <2>4 DEF CardInv
  <1>4. CASE SwapTime \/ AutoTime \/ UNCHANGED vars
    <2>1. UNCHANGED <<card, mounted, swap, nextState, fSd0, calib, command, turn, trap>>
      BY <1>4 DEF SwapTime, AutoTime, vars, volumes, hotSwap
    <2> QED BY <2>1 DEF CardInv, CardSeen, CardKept, SaveAlone, CardIn, calib, command
  <1> QED BY <1>1, <1>2, <1>3, <1>4 DEF Next

\* The ASSERT of ClearUsage never fires (DeferredTasks.h:154), as long as a card
\* in use stays in its slot, one that was pulled does not come back unseen, and
\* one save at a time is queued: the volume of the saves is one variable, which a
\* read of a calibration on the card changes for those that are waiting.
THEOREM FilesClosed ==
  ASSUME Careful
  PROVE  Spec /\ [](saves <= 1) => []NoAssert
  <1>1. Init => CardInv
    BY DEF Init, CardInv, CardSeen, CardKept, SaveAlone, NoCmd, NoVol
  <1>2. BInv /\ CardInv /\ saves <= 1 /\ (saves <= 1)' /\ [Next]_vars => CardInv'
    BY NextCard
  <1>3. CardInv => NoAssert
    BY DEF CardInv, NoAssert
  <1> QED BY <1>1, <1>2, <1>3, BootInvariant, PTL DEF Spec

-----------------------------------------------------------------------------
(* BinaryData: the inductive invariant of the answer.                      *)

Kinds == {"WRITING", "READING"}
Parsing == {"ReadCount", "ParseJSON", "ReadNextBinary", "ReadBinary"}
Answering == {"WriteChunkSize", "WriteOData", "Done"}
States  == {"Idle", "OutputJSON"} \cup Parsing \cup Answering
NextStates == {"Idle", "ParseJSON", "ReadNextBinary", "ReadBinary", "OutputJSON"}
Answers == [do : {"read", "log"}, at : Nat, cb : Nat, iOut : Nat, offset : Nat]
OutPieces  == [what : {"nothing", "count", "file", "log", "json", "end"}, at : Nat, cb : Nat]
\* Before a log is read there are only writes: the place that the JSON tells for it is 0,
\* whatever is sent before it.
LogFirst(list) == \A j \in DOMAIN list : list[j].do = "log" => \A i \in 1 .. j - 1 : list[i].do = "write"

OsShape(o) ==
  /\ DOMAIN o = DOMAIN OsInit /\ o.state \in States /\ o.iOData \in Nat
  /\ o.nextChunk \in NextStates /\ (o.state = "ReadCount" => o.nextChunk # "Idle")
AnswerTypes ==
  /\ req \in Seq(Commands) /\ LogFirst(req)
  /\ io \in {"Listening", "CONTINUE", "READ", "WRITE"}
  /\ OsShape(os)
  /\ fn \in [i : Nat \ {0}, at : {"Idle", "WaitingForResources", "JSONSeekFile", "JSONClose"}]
  /\ odata \in Seq(Answers)
  /\ usage \in [Kinds -> Paths \cup {NoFile}] /\ open \in [Kinds -> BOOLEAN]
  /\ out \in OutPieces /\ sent \in Seq({"file", "log"} \X Int) /\ announced \in Nat
  /\ log \in [state : {"Running", "Stopped", "Finishing"}, csTotal : Nat, asked : Nat \cup {-1}]

\* A read is sent from within its file.
Reading ==
  /\ fn.at # "Idle" => fn.i <= Len(req) /\ os.state = "ParseJSON" /\ Cmd.do # "log"
  /\ fn.at = "JSONSeekFile" /\ Cmd.do = "read" => InFile

\* The j-th of what is promised of a piece.
Item(o, j) == IF o.do = "read" THEN <<"file", o.at + j>> ELSE <<"log", o.at + j - 1>>
HasRead == \E i \in DOMAIN odata : odata[i].do = "read"
\* A log, a read, or a log and then a read.
Shape ==
  /\ Len(odata) <= 2
  /\ \A i \in DOMAIN odata :
       /\ odata[i].do = "log" => i = 1
       /\ odata[i].do = "read" => i = Len(odata) /\ odata[i].at + odata[i].cb <= Fsize
       /\ odata[i].iOut <= odata[i].cb
       /\ odata[i].offset = IF i = 1 THEN 0 ELSE odata[1].cb
\* A log that was read: the samples promised are no more than the ring holds, and they
\* stay in it until they are sent, unless the log goes on by more than an eighth of it.
LogAsked == io # "Listening" /\ odata # <<>> /\ odata[1].do = "log"
Kept ==
  /\ log.csTotal % CActiveCh = 0 /\ log.state # "Finishing"
  /\ LogAsked =>
       /\ odata[1].at + odata[1].cb <= log.csTotal /\ odata[1].cb <= CSVBUFF
       /\ (~Late => log.csTotal <= odata[1].at + CSVBUFF)
       /\ log.asked # -1 /\ (log.state = "Running" => odata[1].at + 7 * (CSVBUFF \div 8) >= log.asked)
\* Where a request is, and who has the entry of a file that is read.
First == os.state = "ReadCount" /\ os.nextChunk = "ParseJSON"
Phase ==
  /\ io = "Listening" <=> os.state = "Idle"
  /\ io = "WRITE" => os.state \in Answering
  /\ fn.at # "Idle" /\ Cmd.do = "read" => usage["READING"] # NoFile /\ ~HasRead
  /\ fn.at = "JSONSeekFile" /\ Cmd.do = "read" => open["READING"]
\* Before the answer begins, nothing is sent and the files to be read stay open.
Asking ==
  os.state \in Parsing \cup {"OutputJSON"} =>
    /\ sent = <<>> /\ \A i \in DOMAIN odata : odata[i].iOut = 0
    /\ HasRead => usage["READING"] # NoFile /\ open["READING"]
    /\ os.state = "ParseJSON" /\ odata # <<>> => \E j \in DOMAIN req : j < fn.i /\ req[j].do # "write"
    /\ os.state = "ParseJSON" /\ odata = <<>> => log.asked = -1
    /\ First => fn = [i |-> 1, at |-> "Idle"] /\ odata = <<>> /\ log.asked = -1
\* How much of the answer is promised by the first i pieces, is being sent, and was
\* handed out but is still on its way.
Sum(i) == IF i = 0 THEN 0 ELSE IF i = 1 THEN odata[1].cb ELSE odata[1].cb + odata[2].cb
Begun == os.state = "WriteOData" /\ os.iOData > 0
SentTo == IF os.iOData = 0 THEN 0
          ELSE IF Begun THEN Sum(os.iOData - 1) + odata[os.iOData].iOut ELSE Sum(os.iOData - 1)
Pending == io = "WRITE" /\ out.what \in {"file", "log"}
Counted == io = "WRITE" /\ out.what = "count" /\ out.cb = Sum(Len(odata)) /\ Begun
\* The pieces are sent in turn, each from its start, out of a file that is still open.
Turned ==
    /\ os.iOData <= cOData /\ (os.state = "WriteOData" => os.iOData <= Len(odata))
    /\ (os.state = "Done" /\ odata # <<>>) => os.iOData = cOData
    /\ \A i \in DOMAIN odata : (i > os.iOData \/ (i = os.iOData /\ ~Begun)) => odata[i].iOut = 0
    /\ \A i \in DOMAIN odata : odata[i].do = "read" /\ i >= os.iOData =>
         open["READING"] \/ (Begun /\ i = os.iOData /\ odata[i].iOut = odata[i].cb)
\* What is sent is the first part of what was promised, or samples that came too late
\* for it, and its length went ahead.
SentSoFar ==
    /\ \A k \in 1 .. Len(sent) :
         Right(sent[k], IF k <= odata[1].cb THEN Item(odata[1], k) ELSE Item(odata[2], k - odata[1].cb))
    /\ IF ~Pending THEN Len(sent) = SentTo
       ELSE /\ Begun /\ Len(sent) + out.cb = SentTo /\ out.cb <= O.iOut
            /\ out.what = "file" <=> O.do = "read"
            /\ out.what = "file" => out.at = O.at + O.iOut - out.cb
            /\ out.what = "log" => out.at = (O.at + O.iOut - out.cb) % CSVBUFF /\ out.at + out.cb <= CSVBUFF
    /\ (odata # <<>> /\ (Begun \/ os.iOData >= 2)) => (Counted \/ announced = Sum(Len(odata)))
    /\ io = "WRITE" /\ out.what = "count" => Counted
Sending == os.state \in Answering => Turned /\ SentSoFar

-----------------------------------------------------------------------------
(* Recursive definitions.  That there is such a function, and what its     *)
(* values are, is by induction: taken as the least number it fails for.    *)

LEMMA LeastOf ==
  ASSUME NEW T, T \subseteq Nat, T # {}
  PROVE  \E m \in T : \A k \in T : m <= k
  <1> DEFINE Less == OpToRel(<, Nat)
  <1>1. IsWellFoundedOn(Less, Nat)
    BY NatLessThanWellFounded
  <1>2. \A a, b \in Nat : <<a, b>> \in Less <=> a < b
    BY DEF OpToRel
  <1> HIDE DEF Less
  <1>3. PICK m \in T : \A y \in T : ~(<<y, m>> \in Less)
    BY <1>1, WFMin
  <1>4. \A y \in T : ~(y < m)
    BY <1>2, <1>3
  <1> QED BY <1>3, <1>4

\* s[i] is the sum of the first i of the numbers t.
IsSum(s, t, N) == s = [i \in 0 .. N |-> IF i = 0 THEN 0 ELSE s[i - 1] + t[i]]

LEMMA SumExists ==
  ASSUME NEW N \in Nat, NEW t
  PROVE  \E s : IsSum(s, t, N)
  <1> DEFINE T == {k \in Nat : ~\E s : IsSum(s, t, k)}
  <1> SUFFICES ASSUME T # {} PROVE FALSE
    OBVIOUS
  <1>1. PICK m \in T : \A k \in T : m <= k
    BY LeastOf
  <1>2. m # 0
    <2> DEFINE s == [i \in 0 .. 0 |-> 0]
    <2>1. IsSum(s, t, 0)
      BY DEF IsSum
    <2> QED BY <2>1
  <1>3. m \in Nat /\ m - 1 \in Nat /\ m - 1 \notin T
    BY <1>1, <1>2
  <1>4. PICK s : IsSum(s, t, m - 1)
    BY <1>3
  <1> DEFINE v == [i \in 0 .. m |-> IF i = 0 THEN 0 ELSE s[i - 1] + t[i]]
  <1>5. \A i \in 0 .. m - 1 : s[i] = v[i]
    BY <1>3, <1>4 DEF IsSum
  <1>6. \A i \in 0 .. m : i # 0 => i - 1 \in 0 .. m - 1
    BY <1>3
  <1>7. IsSum(v, t, m)
    BY <1>5, <1>6 DEF IsSum
  <1> QED BY <1>1, <1>7

LEMMA SumNat ==
  ASSUME NEW N \in Nat, NEW t, NEW s, IsSum(s, t, N), \A i \in 1 .. N : t[i] \in Nat
  PROVE  \A i \in 0 .. N : s[i] \in Nat
  <1> DEFINE T == {k \in 0 .. N : s[k] \notin Nat}
  <1> SUFFICES ASSUME T # {} PROVE FALSE
    OBVIOUS
  <1>0. T \subseteq Nat
    OBVIOUS
  <1>1. PICK m \in T : \A k \in T : m <= k
    <2> HIDE DEF T
    <2> QED BY <1>0, LeastOf
  <1>2. \A i \in 0 .. N : s[i] = IF i = 0 THEN 0 ELSE s[i - 1] + t[i]
    BY DEF IsSum
  <1>3. m \in 0 .. N /\ m # 0 /\ m \in 1 .. N /\ m - 1 \in 0 .. N
    BY <1>1, <1>2
  <1>4. m - 1 \notin T
    BY <1>1, <1>3
  <1>5. s[m - 1] \in Nat /\ t[m] \in Nat
    BY <1>3, <1>4
  <1> QED BY <1>1, <1>2, <1>3, <1>5

Lengths == [i \in 1 .. Len(odata) |-> odata[i].cb]

LEMMA TotalIsSum ==
  ASSUME odata \in Seq(Answers)
  PROVE  \E s : IsSum(s, Lengths, Len(odata)) /\ Total = s[Len(odata)]
  <1> DEFINE W(s) == s = [i \in 0 .. Len(odata) |-> IF i = 0 THEN 0 ELSE s[i - 1] + odata[i].cb]
  <1>1. Len(odata) \in Nat
    OBVIOUS
  <1>2. \A i \in 0 .. Len(odata) : i # 0 => Lengths[i] = odata[i].cb
    BY <1>1 DEF Lengths
  <1>3. \A s : IsSum(s, Lengths, Len(odata)) <=> W(s)
    BY <1>2 DEF IsSum
  <1>4. \E s : W(s)
    BY <1>1, <1>3, SumExists
  <1> DEFINE S == CHOOSE s : W(s)
  <1>5. Total = S[Len(odata)]
    BY DEF Total
  <1>6. W(S)
    <2> HIDE DEF W
    <2> QED BY <1>4
  <1> HIDE DEF S, W
  <1> QED BY <1>3, <1>5, <1>6

LEMMA AnswerAt ==
  ASSUME odata \in Seq(Answers)
  PROVE  /\ Len(odata) \in Nat /\ DOMAIN odata = 1 .. Len(odata)
         /\ \A i \in DOMAIN odata : odata[i] \in Answers
  OBVIOUS

LEMMA TotalNat ==
  ASSUME odata \in Seq(Answers)
  PROVE  Total \in Nat
  <1>1. PICK s : IsSum(s, Lengths, Len(odata)) /\ Total = s[Len(odata)]
    BY TotalIsSum
  <1>2. Len(odata) \in Nat /\ \A i \in 1 .. Len(odata) : odata[i] \in Answers
    BY AnswerAt
  <1>3. \A i \in 1 .. Len(odata) : Lengths[i] = odata[i].cb /\ odata[i].cb \in Nat
    BY <1>2 DEF Lengths, Answers
  <1> QED BY <1>1, <1>2, <1>3, SumNat

LEMMA TotalOfTwo ==
  ASSUME odata \in Seq(Answers), Len(odata) <= 2
  PROVE  Total = Sum(Len(odata))
  <1>1. PICK s : IsSum(s, Lengths, Len(odata)) /\ Total = s[Len(odata)]
    BY TotalIsSum
  <1>0. Len(odata) \in Nat /\ \A i \in 1 .. Len(odata) : odata[i] \in Answers
    BY AnswerAt
  <1>2. \A i \in 1 .. Len(odata) : Lengths[i] = odata[i].cb /\ odata[i].cb \in Nat
    BY <1>0 DEF Lengths, Answers
  <1>3. \A i \in 0 .. Len(odata) : s[i] = IF i = 0 THEN 0 ELSE s[i - 1] + Lengths[i]
    BY <1>1 DEF IsSum
  <1>4. CASE Len(odata) = 0
    BY <1>1, <1>3, <1>4 DEF Sum
  <1>5. CASE Len(odata) = 1
    BY <1>1, <1>2, <1>3, <1>5 DEF Sum
  <1>6. CASE Len(odata) = 2
    <2>1. s[0] = 0 /\ s[1] = s[0] + Lengths[1] /\ s[2] = s[1] + Lengths[2]
      BY <1>3, <1>6
    <2> QED BY <1>1, <1>2, <1>6, <2>1 DEF Sum
  <1>7. Len(odata) = 0 \/ Len(odata) = 1 \/ Len(odata) = 2
    <2>1. \A n \in Nat : n <= 2 => n \in {0, 1, 2}
      OBVIOUS
    <2> QED BY <1>0, <2>1
  <1> QED BY <1>4, <1>5, <1>6, <1>7

-----------------------------------------------------------------------------
(* What a step of StreamOS does to the places it keeps.                    *)

LEMMA OsFields ==
  DOMAIN OsInit = {"state", "nextChunk", "base", "iStream", "cbStream", "iBinary", "iBinaryDone",
                   "write", "cbChunk", "iChunkStart", "iChunk", "iOData", "fError"}
  BY DEF OsInit

\* Looking at the ends of the chunk and of what was received: it goes on, or reads a count.
LEMMA WentShape ==
  ASSUME NEW o, DOMAIN o = DOMAIN OsInit, Went(o)
  PROVE  /\ DOMAIN os' = DOMAIN OsInit /\ os'.iOData = o.iOData
         /\ io' \in {"READ", "CONTINUE"}
         /\ \/ os'.state = o.state /\ os'.nextChunk = o.nextChunk
            \/ os'.state = "ReadCount" /\ os'.nextChunk = o.state
  <1> DEFINE i == o.iStream - o.iChunkStart
             next == IF o.cbChunk <= 0 THEN o
                     ELSE IF i # o.cbChunk THEN [o EXCEPT !.iChunk = i]
                     ELSE [o EXCEPT !.iChunk = -2, !.cbChunk = -1, !.nextChunk = o.state, !.state = "ReadCount"]
  <1>1. /\ DOMAIN next = DOMAIN OsInit /\ next.iOData = o.iOData
        /\ \/ next.state = o.state /\ next.nextChunk = o.nextChunk
           \/ next.state = "ReadCount" /\ next.nextChunk = o.state
    BY OsFields
  <1>2. /\ os' = IF next.iStream # next.cbStream THEN next
                 ELSE [next EXCEPT !.iChunkStart = IF next.cbChunk > 0 THEN @ - next.iStream ELSE @,
                                   !.base = @ + next.iStream, !.iStream = 0, !.cbStream = 0]
        /\ io' = IF NeedsData(next) THEN "READ" ELSE "CONTINUE"
    BY DEF Went
  <1> HIDE DEF next
  <1>3. /\ DOMAIN os' = DOMAIN next /\ os'.iOData = next.iOData /\ os'.state = next.state
        /\ os'.nextChunk = next.nextChunk
    BY <1>1, <1>2, OsFields
  <1> QED BY <1>1, <1>2, <1>3

ParseStep ==
  /\ os.state \in Parsing /\ io = "CONTINUE" /\ fn.at = "Idle"
  /\ OsShape(os') /\ os'.state \in Parsing \cup {"OutputJSON"} /\ os'.iOData = os.iOData
  /\ os'.state = "ParseJSON" \/ First' => First /\ odata' = odata
  /\ req' \in {req, <<>>} /\ odata' \in {odata, <<>>} /\ io' \in {"READ", "CONTINUE"}
  /\ usage' \in [Kinds -> Paths \cup {NoFile}] /\ usage'["READING"] = usage["READING"]
  /\ open' \in [Kinds -> BOOLEAN] /\ open'["READING"] = open["READING"]
  /\ UNCHANGED <<fn, out, sent, announced, log>>

LEMMA ReadsCount ==
  ASSUME AnswerTypes, Reading, ReadCount
  PROVE  ParseStep
  <1>1. /\ os.state = "ReadCount" /\ io = "CONTINUE" /\ UNCHANGED <<fn, out, sent, announced, log, req, usage, open>>
    BY DEF ReadCount, Turn, wire, file
  <1>2. fn.at = "Idle"
    BY <1>1 DEF Reading
  <1>0. OsShape(os)
    BY DEF AnswerTypes
  <1>3. CASE Unit.is = "count"
    <2> DEFINE o == [os EXCEPT !.iStream = @ + 1, !.cbChunk = Unit.n, !.iChunk = 0,
                             !.iChunkStart = os.iStream + 1,
                             !.state = IF Unit.n = 0 THEN "OutputJSON" ELSE os.nextChunk]
    <2>1. Went(o) /\ odata' = odata
      BY <1>3 DEF ReadCount
    <2>2. /\ DOMAIN o = DOMAIN OsInit /\ o.iOData = os.iOData /\ o.nextChunk = os.nextChunk
          /\ o.state \in {"OutputJSON", os.nextChunk}
      BY <1>0, OsFields DEF OsShape
    <2> HIDE DEF o
    <2>3. /\ DOMAIN os' = DOMAIN OsInit /\ os'.iOData = o.iOData /\ io' \in {"READ", "CONTINUE"}
          /\ \/ os'.state = o.state /\ os'.nextChunk = o.nextChunk
             \/ os'.state = "ReadCount" /\ os'.nextChunk = o.state
      BY <2>1, <2>2, WentShape
    <2>4. os.nextChunk \in {"ParseJSON", "ReadNextBinary", "ReadBinary", "OutputJSON"}
      BY <1>0, <1>1 DEF OsShape, NextStates
    <2>5. OsShape(os') /\ os'.state \in Parsing \cup {"OutputJSON"} /\ os'.iOData = os.iOData
      BY <1>0, <2>2, <2>3, <2>4 DEF OsShape, NextStates, Parsing, States
    <2>6. os'.state = "ParseJSON" \/ First' => First
      BY <1>1, <2>2, <2>3, <2>4 DEF First
    <2> QED BY <1>1, <1>2, <2>1, <2>3, <2>5, <2>6 DEF ParseStep, AnswerTypes, Parsing
  <1>4. CASE Unit.is # "count"
    <2> DEFINE o == Failed(os)
    <2>1. Went(o) /\ odata' = <<>>
      BY <1>4 DEF ReadCount
    <2>2. DOMAIN o = DOMAIN OsInit /\ o.iOData = os.iOData /\ o.nextChunk = os.nextChunk /\ o.state = "OutputJSON"
      BY <1>0, OsFields DEF OsShape, Failed
    <2> HIDE DEF o
    <2>3. /\ DOMAIN os' = DOMAIN OsInit /\ os'.iOData = o.iOData /\ io' \in {"READ", "CONTINUE"}
          /\ \/ os'.state = o.state /\ os'.nextChunk = o.nextChunk
             \/ os'.state = "ReadCount" /\ os'.nextChunk = o.state
      BY <2>1, <2>2, WentShape
    <2>5. OsShape(os') /\ os'.state \in Parsing \cup {"OutputJSON"} /\ os'.iOData = os.iOData
      BY <1>0, <2>2, <2>3 DEF OsShape, NextStates, Parsing, States
    <2>6. ~(os'.state = "ParseJSON" \/ First')
      BY <2>2, <2>3 DEF First
    <2> QED BY <1>1, <1>2, <2>1, <2>3, <2>5, <2>6 DEF ParseStep, AnswerTypes, Parsing
  <1> QED BY <1>3, <1>4

LEMMA WentOn ==
  ASSUME OsShape(os), NEW o, DOMAIN o = DOMAIN OsInit, o.iOData = os.iOData, o.nextChunk = os.nextChunk,
         o.state \in {"OutputJSON", "ReadNextBinary", "ReadBinary"}, Went(o)
  PROVE  /\ OsShape(os') /\ os'.state \in Parsing \cup {"OutputJSON"} /\ os'.iOData = os.iOData
         /\ io' \in {"READ", "CONTINUE"} /\ ~(os'.state = "ParseJSON" \/ First')
  <1>1. /\ DOMAIN os' = DOMAIN OsInit /\ os'.iOData = o.iOData /\ io' \in {"READ", "CONTINUE"}
        /\ \/ os'.state = o.state /\ os'.nextChunk = o.nextChunk
           \/ os'.state = "ReadCount" /\ os'.nextChunk = o.state
    BY WentShape
  <1> QED BY <1>1 DEF OsShape, NextStates, Parsing, States, First

LEMMA Parses ==
  ASSUME AnswerTypes, Reading,
         JsonDone \/ SyntaxError \/ ReadNextBinary \/ SkipBinary \/ WriteFile \/ WriteFileClose \/ WriteFileDone
  PROVE  ParseStep
  <1>0. OsShape(os)
    BY DEF AnswerTypes
  <1>1. CASE JsonDone
    <2> DEFINE o == [os EXCEPT !.iStream = @ + 1, !.state = IF os.cbChunk > 0 THEN "ReadNextBinary" ELSE "OutputJSON"]
    <2>1. /\ os.state = "ParseJSON" /\ io = "CONTINUE" /\ fn.i > Len(req)
          /\ UNCHANGED <<fn, out, sent, announced, log, req, odata, usage, open>> /\ Went(o)
      BY <1>1 DEF JsonDone, Turn, wire, file, request
    <2>2. DOMAIN o = DOMAIN OsInit /\ o.iOData = os.iOData /\ o.nextChunk = os.nextChunk
          /\ o.state \in {"OutputJSON", "ReadNextBinary", "ReadBinary"}
      BY <1>0, OsFields DEF OsShape
    <2>3. fn.at = "Idle"
      <3>1. fn.i \in Nat /\ Len(req) \in Nat
        BY DEF AnswerTypes
      <3> QED BY <2>1, <3>1 DEF Reading
    <2> HIDE DEF o
    <2> QED BY <1>0, <2>1, <2>2, <2>3, WentOn DEF ParseStep, AnswerTypes, Parsing
  <1>2. CASE SyntaxError
    <2>1. /\ os.state = "ParseJSON" /\ io = "CONTINUE" /\ fn.at = "Idle" /\ odata' = <<>> /\ req' = <<>>
          /\ UNCHANGED <<fn, out, sent, announced, log, usage, open>> /\ Went(Failed(os))
      BY <1>2 DEF SyntaxError, Turn, wire, file
    <2>2. /\ DOMAIN Failed(os) = DOMAIN OsInit /\ Failed(os).iOData = os.iOData
          /\ Failed(os).nextChunk = os.nextChunk /\ Failed(os).state = "OutputJSON"
      BY <1>0, OsFields DEF OsShape, Failed
    <2> QED BY <1>0, <2>1, <2>2, WentOn DEF ParseStep, AnswerTypes, Parsing
  <1>3. CASE ReadNextBinary
    <2>1. /\ os.state = "ReadNextBinary" /\ io = "CONTINUE" /\ odata' \in {odata, <<>>}
          /\ UNCHANGED <<fn, out, sent, announced, log, req, usage, open>>
      BY <1>3 DEF ReadNextBinary, Turn, wire, file
    <2>2. fn.at = "Idle"
      BY <2>1 DEF Reading
    <2>3. CASE idata.at >= os.iBinary
      <3> DEFINE o == [os EXCEPT !.state = "ReadBinary", !.write = (idata.at = os.iBinary),
                         !.iBinaryDone = IF idata.at = os.iBinary THEN idata.at + idata.cb ELSE idata.at]
      <3>1. Went(o)
        BY <1>3, <2>3 DEF ReadNextBinary
      <3>2. DOMAIN o = DOMAIN OsInit /\ o.iOData = os.iOData /\ o.nextChunk = os.nextChunk /\ o.state = "ReadBinary"
        BY <1>0, OsFields DEF OsShape
      <3> HIDE DEF o
      <3> QED BY <1>0, <2>1, <2>2, <3>1, <3>2, WentOn DEF ParseStep, AnswerTypes, Parsing
    <2>4. CASE ~(idata.at >= os.iBinary)
      <3>1. Went(Failed(os))
        BY <1>3, <2>4 DEF ReadNextBinary
      <3>2. /\ DOMAIN Failed(os) = DOMAIN OsInit /\ Failed(os).iOData = os.iOData
            /\ Failed(os).nextChunk = os.nextChunk /\ Failed(os).state = "OutputJSON"
        BY <1>0, OsFields DEF OsShape, Failed
      <3> QED BY <1>0, <2>1, <2>2, <3>1, <3>2, WentOn DEF ParseStep, AnswerTypes, Parsing
    <2> QED BY <2>3, <2>4
  <1>4. CASE SkipBinary
    <2> DEFINE t == Taken(os, CbWrite(os))
               o == [t EXCEPT !.state = IF t.iBinary = t.iBinaryDone THEN "ReadNextBinary" ELSE @]
    <2>1. /\ os.state = "ReadBinary" /\ io = "CONTINUE"
          /\ UNCHANGED <<fn, out, sent, announced, log, req, odata, usage, open>> /\ Went(o)
      BY <1>4 DEF SkipBinary, Turn, wire, file, request
    <2>2. fn.at = "Idle"
      BY <2>1 DEF Reading
    <2>3. DOMAIN t = DOMAIN OsInit /\ t.iOData = os.iOData /\ t.nextChunk = os.nextChunk /\ t.state = os.state
      BY <1>0, OsFields DEF OsShape, Taken
    <2> HIDE DEF t
    <2>4. DOMAIN o = DOMAIN OsInit /\ o.iOData = os.iOData /\ o.nextChunk = os.nextChunk
          /\ o.state \in {"OutputJSON", "ReadNextBinary", "ReadBinary"}
      BY <2>1, <2>3, OsFields
    <2> HIDE DEF o
    <2> QED BY <1>0, <2>1, <2>2, <2>4, WentOn DEF ParseStep, AnswerTypes, Parsing
  <1>5. CASE WriteFile
    <2>1. /\ os.state = "ReadBinary" /\ io = "CONTINUE"
          /\ UNCHANGED <<fn, out, sent, announced, log, req, odata, usage, open>>
      BY <1>5 DEF WriteFile, WriteTurn, Turn, wire, file, request
    <2>2. fn.at = "Idle"
      BY <2>1 DEF Reading
    <2>3. PICK ok \in Outcomes("write") :
            LET n == Least(CbWrite(os), Room - Len(got))
                o == Taken(os, n)
            IN  IF ~ok THEN broken' = TRUE /\ UNCHANGED <<io, os, got>>
                ELSE /\ got' = got \o SubSeq(msg, os.base + os.iStream + 1, os.base + os.iStream + n)
                     /\ IF AtEndOfFile(o) THEN Yields(o) ELSE Went(o)
                     /\ UNCHANGED broken
      BY <1>5 DEF WriteFile
    <2> DEFINE o == Taken(os, Least(CbWrite(os), Room - Len(got)))
    <2>4. (os' = os /\ io' = io) \/ Yields(o) \/ Went(o)
      BY <2>3
    <2>5. DOMAIN o = DOMAIN OsInit /\ o.iOData = os.iOData /\ o.nextChunk = os.nextChunk /\ o.state = "ReadBinary"
      BY <1>0, <2>1, OsFields DEF OsShape, Taken
    <2> HIDE DEF o
    <2>6. CASE Went(o)
      BY <1>0, <2>1, <2>2, <2>5, <2>6, WentOn DEF ParseStep, AnswerTypes, Parsing
    <2>7. CASE (os' = os /\ io' = io) \/ Yields(o)
      <3>1. /\ OsShape(os') /\ os'.state = "ReadBinary" /\ os'.iOData = os.iOData /\ io' = "CONTINUE"
        BY <1>0, <2>1, <2>5, <2>7 DEF Yields, OsShape
      <3> QED BY <2>1, <2>2, <3>1 DEF ParseStep, AnswerTypes, Parsing, First
    <2> QED BY <2>4, <2>6, <2>7
  <1>6. CASE WriteFileClose
    <2>0. PICK ok \in BOOLEAN : open' = [open EXCEPT !["WRITING"] = ~ok]
      BY <1>6 DEF WriteFileClose, Outcomes
    <2>1. /\ os.state = "ReadBinary" /\ io = "CONTINUE"
          /\ UNCHANGED <<os, io, fn, out, sent, announced, log, req, odata, usage>>
      BY <1>6 DEF WriteFileClose, WriteTurn, Turn, wire, request
    <2>2. fn.at = "Idle"
      BY <2>1 DEF Reading
    <2>3. open' \in [Kinds -> BOOLEAN] /\ open'["READING"] = open["READING"]
      BY <2>0 DEF AnswerTypes, Kinds
    <2> QED BY <1>0, <2>1, <2>2, <2>3 DEF ParseStep, AnswerTypes, Parsing, First
  <1>7. CASE WriteFileDone
    <2> DEFINE o == [os EXCEPT !.state = "ReadNextBinary"]
    <2>1. /\ os.state = "ReadBinary" /\ io = "CONTINUE" /\ usage' = [usage EXCEPT !["WRITING"] = NoFile]
          /\ UNCHANGED <<fn, out, sent, announced, log, req, odata, open>> /\ Went(o)
      BY <1>7 DEF WriteFileDone, WriteTurn, Turn, wire, request, UsageCleared
    <2>2. fn.at = "Idle"
      BY <2>1 DEF Reading
    <2>3. usage' \in [Kinds -> Paths \cup {NoFile}] /\ usage'["READING"] = usage["READING"]
      BY <2>1 DEF AnswerTypes, Kinds
    <2>4. DOMAIN o = DOMAIN OsInit /\ o.iOData = os.iOData /\ o.nextChunk = os.nextChunk /\ o.state = "ReadNextBinary"
      BY <1>0, OsFields DEF OsShape
    <2> HIDE DEF o
    <2> QED BY <1>0, <2>1, <2>2, <2>3, <2>4, WentOn DEF ParseStep, AnswerTypes, Parsing
  <1> QED BY <1>1, <1>2, <1>3, <1>4, <1>5, <1>6, <1>7

AnswerInv == AnswerTypes /\ Reading /\ Shape /\ Kept /\ Phase /\ Asking /\ Sending

LEMMA States4 ==
  /\ Parsing \cap Answering = {} /\ "Idle" \notin Parsing \cup Answering \cup {"OutputJSON"}
  /\ "OutputJSON" \notin Parsing \cup Answering
  /\ "ParseJSON" \in Parsing /\ "ReadCount" \in Parsing
  BY DEF Parsing, Answering

LEMMA ParseInv ==
  ASSUME AnswerInv, ParseStep
  PROVE  AnswerInv'
  <1>1. /\ os.state \in Parsing /\ fn.at = "Idle" /\ os'.state \in Parsing \cup {"OutputJSON"}
        /\ UNCHANGED <<fn, out, sent, announced, log>> /\ io' \in {"READ", "CONTINUE"} /\ io = "CONTINUE"
        /\ usage'["READING"] = usage["READING"] /\ open'["READING"] = open["READING"]
        /\ odata' \in {odata, <<>>} /\ req' \in {req, <<>>}
        /\ (os'.state = "ParseJSON" \/ First' => First /\ odata' = odata)
    BY DEF ParseStep
  <1>2. AnswerTypes'
    <2>1. <<>> \in Seq(Commands) /\ LogFirst(<<>>) /\ <<>> \in Seq(Answers)
      BY DEF LogFirst
    <2>2. LogFirst(req') /\ req' \in Seq(Commands) /\ odata' \in Seq(Answers)
      BY <1>1, <2>1 DEF AnswerInv, AnswerTypes
    <2> QED BY <1>1, <2>2 DEF AnswerInv, AnswerTypes, ParseStep
  <1>3. Reading'
    BY <1>1 DEF Reading
  <1>4. Shape'
    BY <1>1 DEF Shape, AnswerInv
  <1>5. Kept'
    BY <1>1 DEF Kept, LogAsked, Late, AnswerInv
  <1>6. Phase'
    BY <1>1, States4 DEF Phase, AnswerInv
  <1>7. Asking'
    <2>1. /\ sent = <<>> /\ (\A i \in DOMAIN odata : odata[i].iOut = 0)
          /\ (HasRead => usage["READING"] # NoFile /\ open["READING"])
          /\ (First => fn = [i |-> 1, at |-> "Idle"] /\ odata = <<>> /\ log.asked = -1)
      BY <1>1 DEF Asking, AnswerInv
    <2>2. /\ sent' = <<>> /\ (\A i \in DOMAIN odata' : odata'[i].iOut = 0)
          /\ (HasRead' => usage'["READING"] # NoFile /\ open'["READING"])
      BY <1>1, <2>1 DEF HasRead
    <2>3. os'.state = "ParseJSON" \/ First' => odata' = <<>> /\ log'.asked = -1 /\ fn' = [i |-> 1, at |-> "Idle"]
      BY <1>1, <2>1
    <2> QED BY <2>2, <2>3 DEF Asking
  <1>8. Sending'
    BY <1>1, States4 DEF Sending
  <1> QED BY <1>2, <1>3, <1>4, <1>5, <1>6, <1>7, <1>8 DEF AnswerInv

-----------------------------------------------------------------------------
(* The commands.                                                           *)

LEMMA Params ==
  /\ CbResp \in Nat \ {0} /\ CbDMA \in Nat \ {0} /\ CActiveCh \in Nat \ {0} /\ Fsize \in Nat
  /\ CSVBUFF \in Nat \ {0} /\ CSVBUFF % (8 * CActiveCh) = 0 /\ MaxTotal \in Nat
  /\ \A r \in Requests : r.cmds \in Seq(Commands) /\ r.bin \in Nat
  BY BinaryDataAssumption

LEMMA CommandTypes ==
  /\ \A c \in Commands : c.do \in {"write", "read", "log"} /\ c.at \in Nat
  /\ \A c \in Commands : c.do # "log" => c.path \in Paths
  /\ \A c \in Commands : c.do # "write" => c.cb \in Nat \cup {-1}
  /\ \A c \in Commands : c.do = "write" => c.cb \in Nat
  BY DEF Commands

LEMMA CmdIs ==
  ASSUME AnswerTypes, NEW s, At(s)
  PROVE  /\ os.state = "ParseJSON" /\ io = "CONTINUE" /\ fn.i \in 1 .. Len(req) /\ fn.at = s
         /\ Cmd \in Commands /\ Len(req) \in Nat
         /\ Entry \in Kinds /\ (Entry = "READING" <=> Cmd.do # "write")
  <1>1. os.state = "ParseJSON" /\ io = "CONTINUE" /\ fn.i <= Len(req) /\ fn.at = s
    BY DEF At, Turn
  <1>2. fn.i \in 1 .. Len(req) /\ Len(req) \in Nat
    BY <1>1 DEF AnswerTypes
  <1>3. Cmd \in Commands
    BY <1>2 DEF Cmd, AnswerTypes
  <1> QED BY <1>1, <1>2, <1>3 DEF Entry, Kinds

\* A step of a command that adds nothing to the answer.
CommandStep ==
  /\ os.state = "ParseJSON" /\ io = "CONTINUE"
  /\ UNCHANGED <<os, io, req, odata, out, sent, announced, log>>
  /\ fn' \in [i : Nat \ {0}, at : {"Idle", "WaitingForResources", "JSONSeekFile", "JSONClose"}] /\ fn'.i >= fn.i
  /\ usage' \in [Kinds -> Paths \cup {NoFile}] /\ open' \in [Kinds -> BOOLEAN]
  /\ Reading'
  /\ HasRead => usage'["READING"] # NoFile /\ open'["READING"]
  /\ fn'.at # "Idle" /\ Cmd'.do = "read" => usage'["READING"] # NoFile /\ ~HasRead
  /\ fn'.at = "JSONSeekFile" /\ Cmd'.do = "read" => open'["READING"]

LEMMA CommandInv ==
  ASSUME AnswerInv, CommandStep
  PROVE  AnswerInv'
  <1>1. /\ os.state = "ParseJSON" /\ io = "CONTINUE"
        /\ UNCHANGED <<os, io, req, odata, out, sent, announced, log>>
    BY DEF CommandStep
  <1>2. AnswerTypes'
    BY <1>1 DEF AnswerInv, AnswerTypes, CommandStep
  <1>3. Reading'
    BY DEF CommandStep
  <1>4. Shape'
    BY <1>1 DEF Shape, AnswerInv
  <1>5. Kept'
    BY <1>1 DEF Kept, LogAsked, Late, AnswerInv
  <1>0. HasRead' = HasRead
    BY <1>1 DEF HasRead
  <1>6. Phase'
    BY <1>0, <1>1, States4 DEF Phase, CommandStep
  <1>7. Asking'
    <2>1. /\ sent = <<>> /\ (\A i \in DOMAIN odata : odata[i].iOut = 0)
          /\ (odata # <<>> => \E j \in DOMAIN req : j < fn.i /\ req[j].do # "write")
          /\ (odata = <<>> => log.asked = -1)
      BY <1>1, States4 DEF Asking, AnswerInv
    <2>2. ~First'
      BY <1>1 DEF First
    <2>3. odata # <<>> => \E j \in DOMAIN req : j < fn'.i /\ req[j].do # "write"
      <3>1. \A j \in DOMAIN req : j \in Nat
        BY DEF AnswerInv, AnswerTypes
      <3>2. fn.i \in Nat /\ fn'.i \in Nat /\ fn'.i >= fn.i
        BY DEF AnswerInv, AnswerTypes, CommandStep
      <3>3. \A j \in DOMAIN req : j < fn.i => j < fn'.i
        BY <3>1, <3>2
      <3> QED BY <2>1, <3>3
    <2> QED BY <1>0, <1>1, <2>1, <2>2, <2>3 DEF Asking, CommandStep
  <1>8. Sending'
    BY <1>1, States4 DEF Sending
  <1> QED BY <1>2, <1>3, <1>4, <1>5, <1>6, <1>7, <1>8 DEF AnswerInv

LEMMA UsageIs ==
  ASSUME usage \in [Kinds -> Paths \cup {NoFile}], NEW d \in Kinds, NEW p \in Paths \cup {NoFile}
  PROVE  /\ [usage EXCEPT ![d] = p] \in [Kinds -> Paths \cup {NoFile}] /\ [usage EXCEPT ![d] = p][d] = p
         /\ \A e \in Kinds \ {d} : [usage EXCEPT ![d] = p][e] = usage[e]
  OBVIOUS

LEMMA OpenIs ==
  ASSUME open \in [Kinds -> BOOLEAN], NEW d \in Kinds, NEW b \in BOOLEAN
  PROVE  /\ [open EXCEPT ![d] = b] \in [Kinds -> BOOLEAN] /\ [open EXCEPT ![d] = b][d] = b
         /\ \A e \in Kinds \ {d} : [open EXCEPT ![d] = b][e] = open[e]
  OBVIOUS

LEMMA NoPath == NoFile \notin Paths /\ "READING" \in Kinds /\ "WRITING" \in Kinds
  BY DEF NoFile, Paths, Kinds

LEMMA SetUsageStep ==
  ASSUME AnswerInv, SetUsage
  PROVE  CommandStep
  <1>t. AnswerTypes /\ At("Idle") /\ Cmd.do # "log"
    BY DEF AnswerInv, SetUsage
  <1>1. /\ os.state = "ParseJSON" /\ io = "CONTINUE" /\ fn.i \in 1 .. Len(req) /\ fn.at = "Idle"
        /\ Cmd \in Commands /\ Len(req) \in Nat
        /\ Entry \in Kinds /\ (Entry = "READING" <=> Cmd.do # "write")
    BY <1>t, CmdIs
  <1>2. UNCHANGED <<os, io, req, odata, out, sent, announced, log, open>>
    BY DEF SetUsage, wire
  <1>3. HasRead => usage["READING"] # NoFile /\ open["READING"]
    BY <1>1, States4 DEF AnswerInv, Asking
  <1>4. usage \in [Kinds -> Paths \cup {NoFile}] /\ open' \in [Kinds -> BOOLEAN] /\ fn.i \in Nat \ {0}
        /\ fn = [i |-> fn.i, at |-> fn.at]
    BY <1>2 DEF AnswerInv, AnswerTypes
  <1>5. CASE /\ usage[Entry] = NoFile /\ usage' = [usage EXCEPT ![Entry] = Cmd.path]
             /\ fn' = Goto("WaitingForResources")
    <2>1. fn' = [i |-> fn.i, at |-> "WaitingForResources"]
      BY <1>4, <1>5 DEF Goto
    <2>2. Cmd.path \in Paths
      BY <1>t, <1>1, CommandTypes
    <2>3. /\ usage' \in [Kinds -> Paths \cup {NoFile}] /\ usage'[Entry] = Cmd.path
          /\ \A e \in Kinds \ {Entry} : usage'[e] = usage[e]
      BY <1>1, <1>4, <1>5, <2>2, UsageIs
    <2>4. Cmd' = Cmd
      BY <1>2, <2>1 DEF Cmd
    <2>5. HasRead => usage'["READING"] # NoFile
      BY <1>3, <2>2, <2>3, NoPath
    <2>6. Cmd.do = "read" => usage'["READING"] # NoFile /\ ~HasRead
      BY <1>1, <1>3, <1>5, <2>2, <2>3, NoPath
    <2>7. Reading'
      BY <1>t, <1>1, <1>2, <2>1, <2>4 DEF Reading
    <2> QED BY <1>1, <1>2, <1>3, <1>4, <2>1, <2>3, <2>4, <2>5, <2>6, <2>7 DEF CommandStep
  <1>6. CASE fn' = NextCommand /\ UNCHANGED usage
    <2>1. fn' = [i |-> fn.i + 1, at |-> "Idle"]
      BY <1>6 DEF NextCommand
    <2>2. Reading'
      BY <2>1 DEF Reading
    <2> QED BY <1>1, <1>2, <1>3, <1>4, <1>6, <2>1, <2>2 DEF CommandStep
  <1> QED BY <1>5, <1>6 DEF SetUsage

LEMMA OpenFileStep ==
  ASSUME AnswerInv, OpenFile
  PROVE  CommandStep
  <1>t. AnswerTypes /\ At("WaitingForResources")
    BY DEF AnswerInv, OpenFile
  <1>1. /\ os.state = "ParseJSON" /\ io = "CONTINUE" /\ fn.i \in 1 .. Len(req) /\ fn.at = "WaitingForResources"
        /\ Cmd \in Commands /\ Len(req) \in Nat
        /\ Entry \in Kinds /\ (Entry = "READING" <=> Cmd.do # "write")
    BY <1>t, CmdIs
  <1>2. UNCHANGED <<os, io, req, odata, out, sent, announced, log>>
    BY DEF OpenFile, wire
  <1>3. HasRead => usage["READING"] # NoFile /\ open["READING"]
    BY <1>1, States4 DEF AnswerInv, Asking
  <1>r. Cmd.do # "log" /\ (Cmd.do = "read" => usage["READING"] # NoFile /\ ~HasRead)
    BY <1>1 DEF AnswerInv, Reading, Phase
  <1>4. usage \in [Kinds -> Paths \cup {NoFile}] /\ open \in [Kinds -> BOOLEAN] /\ fn.i \in Nat \ {0}
        /\ fn = [i |-> fn.i, at |-> fn.at]
    BY DEF AnswerInv, AnswerTypes
  <1>5. CASE /\ open' = [open EXCEPT ![Entry] = TRUE] /\ UNCHANGED usage
             /\ fn' = Goto(IF Cmd.do = "write" \/ InFile THEN "JSONSeekFile" ELSE "JSONClose")
    <2>1. /\ fn' = [i |-> fn.i, at |-> fn'.at] /\ fn'.at \in {"JSONSeekFile", "JSONClose"}
          /\ (fn'.at = "JSONSeekFile" => Cmd.do = "write" \/ InFile)
      BY <1>4, <1>5 DEF Goto
    <2>3. /\ open' \in [Kinds -> BOOLEAN] /\ open'[Entry]
          /\ \A e \in Kinds \ {Entry} : open'[e] = open[e]
      BY <1>1, <1>4, <1>5, OpenIs
    <2>i. fn'.i = fn.i
      BY <2>1
    <2>4. Cmd' = Cmd
      BY <1>2, <2>i DEF Cmd
    <2>5. InFile' = InFile
      BY <2>4 DEF InFile, CbRead
    <2>7. Reading'
      BY <1>1, <1>2, <1>r, <2>1, <2>i, <2>4, <2>5 DEF Reading
    <2>8. "READING" \in Kinds
      BY NoPath
    <2>9. HasRead => open'["READING"]
      BY <1>3, <2>3, <2>8
    <2>10. Cmd.do = "read" => open'["READING"]
      BY <1>1, <2>3, <2>8
    <2>11. fn' \in [i : Nat \ {0}, at : {"Idle", "WaitingForResources", "JSONSeekFile", "JSONClose"}] /\ fn'.i >= fn.i
      BY <1>4, <2>1, <2>i
    <2> QED BY <1>1, <1>2, <1>3, <1>4, <1>5, <1>r, <2>3, <2>4, <2>7, <2>9, <2>10, <2>11 DEF CommandStep
  <1>6. CASE fn' = NextCommand /\ usage' = UsageCleared(Entry) /\ UNCHANGED open
    <2>1. fn' = [i |-> fn.i + 1, at |-> "Idle"]
      BY <1>6 DEF NextCommand
    <2>2. Reading'
      BY <2>1 DEF Reading
    <2>3. /\ usage' \in [Kinds -> Paths \cup {NoFile}]
          /\ \A e \in Kinds \ {Entry} : usage'[e] = usage[e]
      BY <1>1, <1>4, <1>6, UsageIs DEF UsageCleared
    <2>4. HasRead => usage'["READING"] # NoFile
      BY <1>1, <1>3, <1>r, <2>3, NoPath, CommandTypes
    <2> QED BY <1>1, <1>2, <1>3, <1>4, <1>6, <2>1, <2>2, <2>3, <2>4 DEF CommandStep
  <1> QED BY <1>5, <1>6 DEF OpenFile

LEMMA CloseFileStep ==
  ASSUME AnswerInv, CloseFile
  PROVE  CommandStep
  <1>t. AnswerTypes /\ At("JSONClose")
    BY DEF AnswerInv, CloseFile
  <1>1. /\ os.state = "ParseJSON" /\ io = "CONTINUE" /\ fn.i \in 1 .. Len(req) /\ fn.at = "JSONClose"
        /\ Cmd \in Commands /\ Len(req) \in Nat
        /\ Entry \in Kinds /\ (Entry = "READING" <=> Cmd.do # "write")
    BY <1>t, CmdIs
  <1>2. UNCHANGED <<os, io, req, odata, out, sent, announced, log>>
    BY DEF CloseFile, wire
  <1>3. HasRead => usage["READING"] # NoFile /\ open["READING"]
    BY <1>1, States4 DEF AnswerInv, Asking
  <1>r. Cmd.do # "log" /\ (Cmd.do = "read" => usage["READING"] # NoFile /\ ~HasRead)
    BY <1>1 DEF AnswerInv, Reading, Phase
  <1>4. usage \in [Kinds -> Paths \cup {NoFile}] /\ open \in [Kinds -> BOOLEAN] /\ fn.i \in Nat \ {0}
    BY DEF AnswerInv, AnswerTypes
  <1>5. PICK ok \in BOOLEAN : /\ open' = [open EXCEPT ![Entry] = ~ok]
                              /\ usage' = UsageCleared(Entry) /\ fn' = NextCommand
    BY DEF CloseFile, Outcomes
  <1>6. fn' = [i |-> fn.i + 1, at |-> "Idle"]
    BY <1>5 DEF NextCommand
  <1>7. Reading'
    BY <1>6 DEF Reading
  <1>8. /\ usage' \in [Kinds -> Paths \cup {NoFile}] /\ open' \in [Kinds -> BOOLEAN]
        /\ \A e \in Kinds \ {Entry} : usage'[e] = usage[e] /\ open'[e] = open[e]
    BY <1>1, <1>4, <1>5, UsageIs, OpenIs DEF UsageCleared
  <1>9. HasRead => usage'["READING"] # NoFile /\ open'["READING"]
    BY <1>1, <1>3, <1>r, <1>8, NoPath, CommandTypes
  <1> QED BY <1>1, <1>2, <1>4, <1>6, <1>7, <1>8, <1>9 DEF CommandStep

\* A command that adds to what is to be sent.
AddStep(a) ==
  /\ os.state = "ParseJSON" /\ io = "CONTINUE" /\ fn.i \in 1 .. Len(req) /\ Cmd.do # "write"
  /\ UNCHANGED <<os, io, req, out, sent, announced, usage, open>>
  /\ fn' = [i |-> fn.i + 1, at |-> "Idle"]
  /\ a \in Answers /\ a.iOut = 0 /\ odata' = Append(odata, a)
  /\ log' \in [state : {"Running", "Stopped", "Finishing"}, csTotal : Nat, asked : Nat \cup {-1}]

LEMMA AppendIs ==
  ASSUME odata \in Seq(Answers), NEW a \in Answers, odata' = Append(odata, a)
  PROVE  /\ odata' \in Seq(Answers) /\ Len(odata') = Len(odata) + 1 /\ odata'[Len(odata) + 1] = a
         /\ \A i \in 1 .. Len(odata) : odata'[i] = odata[i]
         /\ DOMAIN odata' = 1 .. Len(odata) + 1 /\ DOMAIN odata = 1 .. Len(odata) /\ Len(odata) \in Nat
         /\ odata' # <<>>
  OBVIOUS

LEMMA AddInv ==
  ASSUME AnswerInv, NEW a, AddStep(a), Shape', Kept',
         a.do = "read" \/ HasRead => usage["READING"] # NoFile /\ open["READING"]
  PROVE  AnswerInv'
  <1>1. /\ os.state = "ParseJSON" /\ io = "CONTINUE" /\ fn.i \in 1 .. Len(req) /\ Cmd.do # "write"
        /\ UNCHANGED <<os, io, req, out, sent, announced, usage, open>>
        /\ fn' = [i |-> fn.i + 1, at |-> "Idle"]
        /\ a \in Answers /\ a.iOut = 0 /\ odata' = Append(odata, a)
    BY DEF AddStep
  <1>2. /\ odata' \in Seq(Answers) /\ Len(odata') = Len(odata) + 1 /\ odata'[Len(odata) + 1] = a
        /\ (\A i \in 1 .. Len(odata) : odata'[i] = odata[i])
        /\ DOMAIN odata' = 1 .. Len(odata) + 1 /\ DOMAIN odata = 1 .. Len(odata) /\ Len(odata) \in Nat
        /\ odata' # <<>>
    BY <1>1, AppendIs DEF AnswerInv, AnswerTypes
  <1>3. fn.i \in Nat \ {0}
    BY DEF AnswerInv, AnswerTypes
  <1>4. AnswerTypes'
    BY <1>1, <1>2, <1>3 DEF AnswerInv, AnswerTypes, AddStep
  <1>5. Reading'
    BY <1>1 DEF Reading
  <1>6. Phase'
    BY <1>1, States4 DEF Phase
  <1>7. Asking'
    <2>1. sent = <<>> /\ (\A i \in DOMAIN odata : odata[i].iOut = 0)
      BY <1>1, States4 DEF Asking, AnswerInv
    <2>2. \A i \in DOMAIN odata' : i = Len(odata) + 1 \/ i \in DOMAIN odata
      BY <1>2
    <2>3. \A i \in DOMAIN odata' : odata'[i].iOut = 0
      BY <1>1, <1>2, <2>1, <2>2
    <2>4. HasRead' => a.do = "read" \/ HasRead
      BY <1>2, <2>2 DEF HasRead
    <2>5. \E j \in DOMAIN req : j < fn.i + 1 /\ req[j].do # "write"
      <3>1. fn.i \in DOMAIN req /\ fn.i < fn.i + 1
        BY <1>1, <1>3 DEF AnswerInv, AnswerTypes
      <3> QED BY <1>1, <3>1 DEF Cmd
    <2>6. ~First' /\ fn'.i = fn.i + 1
      BY <1>1 DEF First
    <2> QED BY <1>1, <1>2, <2>1, <2>3, <2>4, <2>5, <2>6 DEF Asking
  <1>8. Sending'
    BY <1>1, States4 DEF Sending
  <1> QED BY <1>4, <1>5, <1>6, <1>7, <1>8 DEF AnswerInv

LEMMA SeekFileInv ==
  ASSUME AnswerInv, SeekFile
  PROVE  AnswerInv'
  <1>t. AnswerTypes /\ At("JSONSeekFile")
    BY DEF AnswerInv, SeekFile
  <1>1. /\ os.state = "ParseJSON" /\ io = "CONTINUE" /\ fn.i \in 1 .. Len(req) /\ fn.at = "JSONSeekFile"
        /\ Cmd \in Commands /\ Len(req) \in Nat
        /\ Entry \in Kinds /\ (Entry = "READING" <=> Cmd.do # "write")
    BY <1>t, CmdIs
  <1>2. UNCHANGED <<os, io, req, out, sent, announced, log, usage, open>>
    BY DEF SeekFile, wire, file
  <1>3. HasRead => usage["READING"] # NoFile /\ open["READING"]
    BY <1>1, States4 DEF AnswerInv, Asking
  <1>r. Cmd.do # "log" /\ (Cmd.do = "read" => usage["READING"] # NoFile /\ open["READING"] /\ ~HasRead /\ InFile)
    BY <1>1 DEF AnswerInv, Reading, Phase
  <1>4. usage \in [Kinds -> Paths \cup {NoFile}] /\ open \in [Kinds -> BOOLEAN] /\ fn.i \in Nat \ {0}
        /\ fn = [i |-> fn.i, at |-> fn.at] /\ odata \in Seq(Answers)
    BY DEF AnswerInv, AnswerTypes
  <1>5. CASE fn' = NextCommand /\ Cmd.do = "write" /\ UNCHANGED odata
    <2>1. fn' = [i |-> fn.i + 1, at |-> "Idle"]
      BY <1>5 DEF NextCommand
    <2>2. Reading'
      BY <2>1 DEF Reading
    <2>3. CommandStep
      BY <1>1, <1>2, <1>3, <1>4, <1>5, <2>1, <2>2 DEF CommandStep
    <2> QED BY <2>3, CommandInv
  <1>6. CASE fn' = Goto("JSONClose") /\ UNCHANGED odata
    <2>1. fn' = [i |-> fn.i, at |-> "JSONClose"]
      BY <1>4, <1>6 DEF Goto
    <2>2. Cmd' = Cmd
      BY <1>2, <2>1 DEF Cmd
    <2>3. Reading'
      BY <1>1, <1>2, <1>r, <2>1, <2>2 DEF Reading
    <2>4. CommandStep
      BY <1>1, <1>2, <1>3, <1>4, <1>6, <1>r, <2>1, <2>2, <2>3 DEF CommandStep
    <2> QED BY <2>4, CommandInv
  <1>7. CASE /\ fn' = NextCommand /\ Cmd.do # "write"
             /\ odata' = Append(odata, [do |-> "read", at |-> Cmd.at, cb |-> CbRead, iOut |-> 0, offset |-> Total])
    <2> DEFINE a == [do |-> "read", at |-> Cmd.at, cb |-> CbRead, iOut |-> 0, offset |-> Total]
    <2>1. fn' = [i |-> fn.i + 1, at |-> "Idle"]
      BY <1>7 DEF NextCommand
    <2>2. Cmd.do = "read" /\ Cmd.at \in Nat
      BY <1>1, <1>r, <1>7, CommandTypes
    <2>3. CbRead \in Nat /\ Cmd.at + CbRead <= Fsize
      BY <1>1, <1>r, <2>2, CommandTypes, Params DEF CbRead, InFile
    <2>4. Total \in Nat
      BY <1>4, TotalNat
    <2>5. a \in Answers /\ a.do = "read" /\ a.iOut = 0 /\ a.at = Cmd.at /\ a.cb = CbRead /\ a.offset = Total
      BY <2>2, <2>3, <2>4 DEF Answers
    <2> HIDE DEF a
    <2>6. AddStep(a)
      BY <1>1, <1>2, <1>7, <2>1, <2>5 DEF AddStep, AnswerInv, AnswerTypes, a
    <2>7. /\ Len(odata') = Len(odata) + 1 /\ odata'[Len(odata) + 1] = a
          /\ (\A i \in 1 .. Len(odata) : odata'[i] = odata[i])
          /\ DOMAIN odata' = 1 .. Len(odata) + 1 /\ DOMAIN odata = 1 .. Len(odata) /\ Len(odata) \in Nat
          /\ odata' # <<>>
      BY <1>4, <2>5, <2>6, AppendIs DEF AddStep
    <2>8. \A i \in DOMAIN odata : odata[i].do = "log" /\ i = 1
      BY <1>4, <1>r, <2>2, AnswerAt DEF HasRead, AnswerInv, Shape, Answers
    <2>9. Len(odata) = 0 \/ Len(odata) = 1
      <3>1. \A n \in Nat : n \in 1 .. n \/ n = 0
        OBVIOUS
      <3> QED BY <2>7, <2>8, <3>1
    <2>10. Total = IF Len(odata) = 0 THEN 0 ELSE odata[1].cb
      <3>0. Len(odata) <= 2
        BY <2>9
      <3>1. Total = Sum(Len(odata))
        BY <1>4, <3>0, TotalOfTwo
      <3> QED BY <2>9, <3>1 DEF Sum
    <2>11. Shape'
      <3>1. CASE Len(odata) = 0
        <4>1. DOMAIN odata' = {1} /\ odata'[1] = a /\ Len(odata') = 1
          BY <2>7, <3>1
        <4> QED BY <2>3, <2>5, <2>10, <3>1, <4>1 DEF Shape
      <3>2. CASE Len(odata) = 1
        <4>1. /\ DOMAIN odata' = {1, 2} /\ odata'[2] = a /\ Len(odata') = 2
              /\ odata'[1] = odata[1] /\ odata[1].do = "log"
              /\ 1 \in DOMAIN odata
          BY <2>7, <2>8, <3>2
        <4>2. odata[1].iOut <= odata[1].cb /\ odata[1].offset = 0
          BY <4>1 DEF AnswerInv, Shape
        <4>3. a.iOut <= a.cb
          BY <2>3, <2>5
        <4> QED BY <2>3, <2>5, <2>10, <3>2, <4>1, <4>2, <4>3 DEF Shape
      <3> QED BY <2>9, <3>1, <3>2
    <2>12. Kept'
      <3>1. LogAsked' => LogAsked /\ odata'[1] = odata[1]
        <4>1. CASE Len(odata) = 0
          <5>1. odata'[1] = a
            BY <2>7, <4>1
          <5> QED BY <2>5, <5>1 DEF LogAsked
        <4>2. CASE Len(odata) = 1
          <5>1. odata'[1] = odata[1]
            BY <2>7, <4>2
          <5>2. odata # <<>>
            <6>1. odata = <<>> => Len(odata) = 0
              OBVIOUS
            <6> QED BY <4>2, <6>1
          <5> QED BY <1>2, <5>1, <5>2 DEF LogAsked
        <4> QED BY <2>9, <4>1, <4>2
      <3> QED BY <1>2, <3>1 DEF AnswerInv, Kept, Late
    <2> QED BY <1>3, <1>r, <2>2, <2>6, <2>11, <2>12, AddInv
  <1> QED BY <1>5, <1>6, <1>7 DEF SeekFile

-----------------------------------------------------------------------------
(* The voltage ring.                                                       *)

LEMMA DivModIs ==
  ASSUME NEW x \in Nat, NEW N \in Nat \ {0}
  PROVE  /\ x % N \in 0 .. N - 1 /\ x \div N \in Nat /\ x = N * (x \div N) + (x % N)
  BY Z3

LEMMA RestIs ==
  ASSUME NEW q \in Int, NEW N \in Nat \ {0}, NEW r \in 0 .. N - 1
  PROVE  (N * q + r) % N = r /\ (N * q + r) \div N = q
  BY Z3

\* A place that is at most one ring further on.
LEMMA PlaceOn ==
  ASSUME NEW x \in Nat, NEW k \in Nat, NEW N \in Nat \ {0}, (x % N) + k < 2 * N
  PROVE  (x + k) % N = IF (x % N) + k >= N THEN (x % N) + k - N ELSE (x % N) + k
  <1> DEFINE q == x \div N
             r == x % N
  <1>1. r \in 0 .. N - 1 /\ q \in Nat /\ x = N * q + r
    BY DivModIs
  <1> HIDE DEF q, r
  <1>2. N * q \in Nat /\ N * (q + 1) = N * q + N /\ q + 1 \in Int
    BY <1>1
  <1>3. CASE r + k >= N
    <2>1. r + k - N \in 0 .. N - 1 /\ x + k = N * (q + 1) + (r + k - N)
      BY <1>1, <1>2, <1>3 DEF r
    <2>2. (N * (q + 1) + (r + k - N)) % N = r + k - N
      BY <1>2, <2>1, RestIs
    <2> QED BY <1>3, <2>1, <2>2 DEF r
  <1>4. CASE ~(r + k >= N)
    <2>1. r + k \in 0 .. N - 1 /\ x + k = N * q + (r + k)
      BY <1>1, <1>2, <1>4
    <2>2. q \in Int /\ r + k \in 0 .. N - 1
      BY <1>1, <2>1
    <2>3. (N * q + (r + k)) % N = r + k
      BY <2>2, RestIs
    <2> QED BY <1>4, <2>1, <2>3 DEF r
  <1> QED BY <1>3, <1>4

\* Two samples less than a ring apart are in different places.
LEMMA OnePlace ==
  ASSUME NEW x \in Nat, NEW y \in Nat, NEW N \in Nat \ {0}, x % N = y % N, x < y + N, y < x + N
  PROVE  x = y
  <1> DEFINE p == x \div N
             q == y \div N
             r == x % N
  <1>1. r \in 0 .. N - 1 /\ p \in Nat /\ q \in Nat /\ x = N * p + r /\ y = N * q + r
    BY DivModIs
  <1> HIDE DEF p, q, r
  <1>2. x - y = N * (p - q)
    BY <1>1
  <1>3. p - q \in Int
    BY <1>1
  <1>4. p - q >= 1 => N * (p - q) >= N
    BY <1>3
  <1>5. p - q <= -1 => N * (p - q) <= -N
    BY <1>3
  <1>6. p - q = 0
    BY <1>2, <1>3, <1>4, <1>5
  <1> QED BY <1>2, <1>6

LEMMA SampleIs ==
  ASSUME AnswerTypes, NEW n \in Nat, n < log.csTotal, n + CSVBUFF >= log.csTotal
  PROVE  Sample(n % CSVBUFF) = n
  <1>1. log.csTotal \in Nat /\ CSVBUFF \in Nat \ {0}
    BY Params DEF AnswerTypes
  <1> DEFINE p == n % CSVBUFF
  <1>2. n \in InRing(p)
    BY <1>1 DEF InRing
  <1>3. \A m \in InRing(p) : m \in Nat /\ m % CSVBUFF = n % CSVBUFF /\ m < n + CSVBUFF /\ n < m + CSVBUFF
    BY <1>1 DEF InRing
  <1>4. \A m \in InRing(p) : m = n
    BY <1>1, <1>3, OnePlace
  <1> HIDE DEF p
  <1>5. Sample(p) = n
    BY <1>2, <1>4 DEF Sample
  <1> QED BY <1>5 DEF p

\* In the place of a sample there is that sample, or one that came later.
LEMMA LatestIs ==
  ASSUME AnswerTypes, NEW n \in Nat, n < log.csTotal
  PROVE  Sample(n % CSVBUFF) \in Int /\ Sample(n % CSVBUFF) >= n
  <1>1. PICK N \in Nat \ {0}, T \in Nat : N = CSVBUFF /\ T = log.csTotal /\ n < T
    BY Params DEF AnswerTypes
  <1> DEFINE r == n % N
             q == n \div N
             b == (T - 1 - n) \div N
             m == N * (q + b) + r
  <1>2. r \in 0 .. N - 1 /\ q \in Nat /\ n = N * q + r
    BY <1>1, DivModIs
  <1>3. PICK d \in Nat : d = T - 1 - n
    BY <1>1
  <1>4. b \in Nat /\ d % N \in 0 .. N - 1 /\ d = N * b + (d % N)
    BY <1>3, DivModIs
  <1> HIDE DEF q, b
  <1>5. m \in Nat /\ m = n + N * b /\ N * b \in Nat
    <2> HIDE DEF r
    <2>1. r \in Nat /\ N * q \in Nat /\ N * b \in Nat
      BY <1>2, <1>4
    <2>2. N * (q + b) = N * q + N * b
      BY <1>2, <1>4
    <2> QED BY <1>2, <2>1, <2>2
  <1>6. m < T /\ m + N >= T
    BY <1>1, <1>3, <1>4, <1>5
  <1>7. m % N = r
    <2>1. q + b \in Int
      BY <1>2, <1>4
    <2> HIDE DEF r
    <2> QED BY <1>2, <2>1, RestIs
  <1> HIDE DEF m
  <1>8. m \in InRing(r)
    BY <1>1, <1>5, <1>6, <1>7 DEF InRing
  <1>9. \A x \in InRing(r) : x \in Nat /\ x % N = r /\ x + N >= T
    BY <1>1 DEF InRing
  <1>10. \A x \in InRing(r) : x >= n
    <2> SUFFICES ASSUME NEW x \in InRing(r), x < n
                 PROVE  FALSE
      BY <1>9
    <2>1. x \in Nat /\ x % N = n % N /\ x < n + N /\ n < x + N
      BY <1>1, <1>9
    <2>2. x = n
      BY <2>1, OnePlace
    <2> QED BY <2>2
  <1>11. Sample(r) \in InRing(r)
    BY <1>8 DEF Sample
  <1> QED BY <1>1, <1>9, <1>10, <1>11

\* The ring and its eighths are whole scans.
LEMMA RingIs ==
  \E k \in Nat \ {0} : CSVBUFF = 8 * (CActiveCh * k) /\ CSVBUFF \div 8 = CActiveCh * k
                       /\ (7 * CSVBUFF) \div 8 = CActiveCh * (7 * k)
  <1> DEFINE N == 8 * CActiveCh
             k == CSVBUFF \div N
  <1>1. CActiveCh \in Nat \ {0} /\ CSVBUFF \in Nat \ {0} /\ N \in Nat \ {0}
    BY Params
  <1>2. k \in Nat /\ CSVBUFF = N * k + (CSVBUFF % N)
    BY <1>1, DivModIs
  <1>3. CSVBUFF % N = 0
    BY Params
  <1> HIDE DEF k
  <1>0. N * k \in Nat
    BY <1>1, <1>2
  <1>4. CSVBUFF = N * k
    BY <1>0, <1>2, <1>3
  <1>5. k # 0
    <2>1. N * 0 = 0
      BY <1>1
    <2> QED BY <1>1, <1>4, <2>1
  <1>6. PICK m \in Nat : m = CActiveCh * k
    BY <1>1, <1>2
  <1>7. CSVBUFF = 8 * m
    BY <1>1, <1>2, <1>4, <1>6
  <1>8. CSVBUFF \div 8 = m /\ (7 * CSVBUFF) \div 8 = 7 * m
    BY <1>7
  <1>9. CActiveCh * (7 * k) = 7 * m
    BY <1>1, <1>2, <1>6
  <1> QED BY <1>2, <1>5, <1>6, <1>7, <1>8, <1>9

\* What a log read may send: all of the ring if it stands still, else seven eighths.
LEMMA LogRange ==
  ASSUME AnswerTypes, log.csTotal % CActiveCh = 0, log.state \in {"Running", "Stopped"},
         NEW c \in Commands, c = Cmd, c.do = "log",
         NEW iStart, iStart = IF OldestScan < c.at THEN c.at ELSE OldestScan,
         NEW iEnd, iEnd = IF c.cb < 0 THEN log.csTotal \div CActiveCh
                          ELSE Least(c.at + c.cb, log.csTotal \div CActiveCh),
         iEnd > iStart
  PROVE  /\ iStart * CActiveCh \in Nat /\ (iEnd - iStart) * CActiveCh \in Nat
         /\ iStart * CActiveCh + (iEnd - iStart) * CActiveCh <= log.csTotal
         /\ log.csTotal <= iStart * CActiveCh + CSVBUFF
         /\ log.state = "Running" => iStart * CActiveCh + 7 * (CSVBUFF \div 8) >= log.csTotal
  <1> DEFINE C == CActiveCh
             T == log.csTotal
             q == T \div C
             B == CSVBUFF
  <1>1. C \in Nat \ {0} /\ T \in Nat /\ c.at \in Nat /\ c.cb \in Nat \cup {-1}
    BY Params, CommandTypes DEF AnswerTypes
  <1>2. q \in Nat /\ T = C * q
    <2>1. q \in Nat /\ T = C * q + (T % C)
      BY <1>1, DivModIs
    <2>2. C * q \in Nat /\ T % C = 0
      BY <1>1, <2>1
    <2> QED BY <2>1, <2>2
  <1>3. PICK k \in Nat \ {0} : B = 8 * (C * k) /\ B \div 8 = C * k /\ (7 * B) \div 8 = C * (7 * k)
    BY RingIs
  <1>4. OldestScan = IF log.state # "Running" THEN q - 8 * k ELSE q - 7 * k
    <2>1. OldestScan = IF log.state # "Running" THEN (T - B) \div C ELSE (T - (7 * B) \div 8) \div C
      BY DEF OldestScan
    <2> HIDE DEF T, q, B, C
    <2>2. T - B = C * (q - 8 * k) + 0 /\ T - (7 * B) \div 8 = C * (q - 7 * k) + 0
      BY <1>1, <1>2, <1>3
    <2>3. 0 \in 0 .. C - 1 /\ q - 8 * k \in Int /\ q - 7 * k \in Int
      BY <1>1, <1>2, <1>3
    <2>4. (C * (q - 8 * k) + 0) \div C = q - 8 * k /\ (C * (q - 7 * k) + 0) \div C = q - 7 * k
      <3>1. PICK x \in Int, y \in Int : x = q - 8 * k /\ y = q - 7 * k
        BY <2>3
      <3>2. (C * x + 0) \div C = x
        BY <1>1, <2>3, RestIs
      <3>3. (C * y + 0) \div C = y
        BY <1>1, <2>3, RestIs
      <3> QED BY <3>1, <3>2, <3>3
    <2> QED BY <2>1, <2>2, <2>4
  <1>5. iEnd <= q /\ iEnd \in Int
    BY <1>1, <1>2 DEF Least
  <1>6. iStart \in Nat /\ iStart >= q - 8 * k /\ (log.state = "Running" => iStart >= q - 7 * k)
    BY <1>1, <1>2, <1>3, <1>4
  <1> HIDE DEF T, q, B, C
  <1>7. iEnd \in Nat /\ iEnd - iStart \in Nat
    BY <1>5, <1>6
  <1>8. iStart * C \in Nat /\ (iEnd - iStart) * C \in Nat /\ iStart * C + (iEnd - iStart) * C = C * iEnd
    BY <1>1, <1>6, <1>7
  <1>9. C * iEnd <= C * q
    BY <1>1, <1>2, <1>5, <1>7
  <1>10. C * (q - 8 * k) <= C * iStart /\ (log.state = "Running" => C * (q - 7 * k) <= C * iStart)
    <2>1. \A x, y \in Int : x <= y => C * x <= C * y
      BY <1>1
    <2>2. q - 8 * k \in Int /\ q - 7 * k \in Int /\ iStart \in Int
      BY <1>2, <1>3, <1>6
    <2> QED BY <1>6, <2>1, <2>2
  <1>11. C * (q - 8 * k) = T - B /\ C * (q - 7 * k) = T - 7 * (B \div 8) /\ C * iStart = iStart * C
         /\ B \in Nat /\ B \div 8 \in Nat
    BY <1>1, <1>2, <1>3, <1>6
  <1> QED BY <1>1, <1>2, <1>8, <1>9, <1>10, <1>11 DEF T, C, B

LEMMA LogReadInv ==
  ASSUME AnswerInv, LogRead
  PROVE  AnswerInv'
  <1>t. AnswerTypes /\ At("Idle") /\ Cmd.do = "log"
    BY DEF AnswerInv, LogRead
  <1>1. /\ os.state = "ParseJSON" /\ io = "CONTINUE" /\ fn.i \in 1 .. Len(req) /\ fn.at = "Idle"
        /\ Cmd \in Commands /\ Len(req) \in Nat
    BY <1>t, CmdIs
  <1>2. /\ UNCHANGED <<os, io, req, out, sent, announced, usage, open>>
        /\ fn' = [i |-> fn.i + 1, at |-> "Idle"]
    BY DEF LogRead, wire, file, NextCommand
  <1>3. usage \in [Kinds -> Paths \cup {NoFile}] /\ open \in [Kinds -> BOOLEAN] /\ fn.i \in Nat \ {0}
        /\ odata \in Seq(Answers)
    BY DEF AnswerInv, AnswerTypes
  <1>4. (odata # <<>> => \E j \in DOMAIN req : j < fn.i /\ req[j].do # "write") /\ (odata = <<>> => log.asked = -1)
    BY <1>1, States4 DEF Asking, AnswerInv
  <1>5. odata = <<>>
    <2>1. \A j \in 1 .. fn.i - 1 : req[j].do = "write"
      <3>1. fn.i \in DOMAIN req
        BY <1>1, <1>t DEF AnswerTypes
      <3> QED BY <1>t, <3>1 DEF AnswerTypes, LogFirst, Cmd
    <2>2. \A j \in DOMAIN req : j < fn.i => j \in 1 .. fn.i - 1
      BY <1>t, <1>3 DEF AnswerTypes
    <2> QED BY <1>4, <2>1, <2>2
  <1>6. CASE UNCHANGED <<odata, log>>
    <2>1. Reading'
      BY <1>2 DEF Reading
    <2>2. HasRead => usage["READING"] # NoFile /\ open["READING"]
      BY <1>5 DEF HasRead
    <2>3. CommandStep
      BY <1>1, <1>2, <1>3, <1>6, <2>1, <2>2 DEF CommandStep
    <2> QED BY <2>3, CommandInv
  <1>7. CASE ~UNCHANGED <<odata, log>>
    <2> DEFINE iStart == IF OldestScan < Cmd.at THEN Cmd.at ELSE OldestScan
               iEnd   == IF Cmd.cb < 0 THEN log.csTotal \div CActiveCh
                         ELSE Least(Cmd.at + Cmd.cb, log.csTotal \div CActiveCh)
               a == [do |-> "log", at |-> iStart * CActiveCh, iOut |-> 0,
                     cb |-> (iEnd - iStart) * CActiveCh, offset |-> 0]
    <2>1. /\ ~(iEnd <= iStart) /\ odata' = Append(odata, a)
          /\ log' = [log EXCEPT !.asked = IF @ = -1 THEN log.csTotal ELSE @]
      BY <1>7 DEF LogRead
    <2>0. log.csTotal \in Nat /\ CActiveCh \in Nat \ {0} /\ CSVBUFF \in Nat
      BY <1>t, Params DEF AnswerTypes
    <2>2. OldestScan \in Int
      <3>1. PICK x \in Int, y \in Int : x = log.csTotal - CSVBUFF /\ y = log.csTotal - (7 * CSVBUFF) \div 8
        BY <2>0
      <3>2. x \div CActiveCh \in Int /\ y \div CActiveCh \in Int
        BY <2>0
      <3> QED BY <3>1, <3>2 DEF OldestScan
    <2>3. iStart \in Int /\ iEnd \in Int
      <3>1. PICK c \in Commands : c = Cmd
        BY <1>1
      <3>2. c.at \in Nat /\ c.cb \in Nat \cup {-1} /\ log.csTotal \div CActiveCh \in Nat
        BY <1>t, <2>0, <3>1, CommandTypes
      <3> QED BY <2>2, <3>1, <3>2 DEF Least
    <2>4. log.csTotal % CActiveCh = 0 /\ log.state \in {"Running", "Stopped"}
      BY <1>t DEF AnswerInv, Kept, AnswerTypes
    <2> HIDE DEF iStart, iEnd
    <2>5. iEnd > iStart
      BY <2>1, <2>3
    <2>6. /\ iStart * CActiveCh \in Nat /\ (iEnd - iStart) * CActiveCh \in Nat
          /\ iStart * CActiveCh + (iEnd - iStart) * CActiveCh <= log.csTotal
          /\ log.csTotal <= iStart * CActiveCh + CSVBUFF
          /\ log.state = "Running" => iStart * CActiveCh + 7 * (CSVBUFF \div 8) >= log.csTotal
      <3>1. iStart = (IF OldestScan < Cmd.at THEN Cmd.at ELSE OldestScan)
            /\ iEnd = (IF Cmd.cb < 0 THEN log.csTotal \div CActiveCh
                       ELSE Least(Cmd.at + Cmd.cb, log.csTotal \div CActiveCh))
        BY DEF iStart, iEnd
      <3> QED BY <1>t, <1>1, <2>4, <2>5, <3>1, LogRange
    <2>7. /\ a \in Answers /\ a.do = "log" /\ a.iOut = 0 /\ a.at = iStart * CActiveCh
          /\ a.cb = (iEnd - iStart) * CActiveCh /\ a.offset = 0
      BY <2>6 DEF Answers
    <2> HIDE DEF a
    <2>8. /\ log.asked = -1 /\ log'.asked = log.csTotal /\ log'.csTotal = log.csTotal /\ log'.state = log.state
          /\ log' \in [state : {"Running", "Stopped", "Finishing"}, csTotal : Nat, asked : Nat \cup {-1}]
          /\ log.csTotal \in Nat
      BY <1>4, <1>5, <1>t, <2>1 DEF AnswerTypes
    <2>9. AddStep(a)
      BY <1>1, <1>2, <1>t, <2>1, <2>7, <2>8 DEF AddStep
    <2>10. /\ Len(odata') = 1 /\ odata'[1] = a /\ DOMAIN odata' = {1} /\ odata' # <<>>
      <3>1. odata' = <<a>>
        BY <1>5, <2>1
      <3> QED BY <3>1
    <2>11. Shape'
      BY <2>6, <2>7, <2>10 DEF Shape
    <2>12. Kept'
      <3>1. log'.asked # -1
        BY <2>8
      <3>2. /\ odata'[1].at + odata'[1].cb <= log'.csTotal /\ log'.csTotal <= odata'[1].at + CSVBUFF
            /\ (log'.state = "Running" => odata'[1].at + 7 * (CSVBUFF \div 8) >= log'.asked)
            /\ odata'[1].at \in Nat /\ odata'[1].cb \in Nat
        BY <2>6, <2>7, <2>8, <2>10
      <3>3. odata'[1].cb <= CSVBUFF
        BY <2>0, <2>8, <3>2
      <3> QED BY <2>4, <2>8, <3>1, <3>2, <3>3 DEF Kept
    <2>13. ~HasRead /\ a.do # "read"
      BY <1>5, <2>7 DEF HasRead
    <2> QED BY <2>9, <2>11, <2>12, <2>13, AddInv
  <1> QED BY <1>6, <1>7

-----------------------------------------------------------------------------
(* The answer.                                                             *)

SameData ==
  /\ odata' \in Seq(Answers) /\ Len(odata') = Len(odata) /\ DOMAIN odata' = DOMAIN odata
  /\ \A i \in DOMAIN odata : /\ odata'[i].do = odata[i].do /\ odata'[i].at = odata[i].at
                             /\ odata'[i].cb = odata[i].cb /\ odata'[i].offset = odata[i].offset
                             /\ odata'[i].iOut <= odata'[i].cb

AnswerStep ==
  /\ os.state \in Answering \cup {"OutputJSON"} /\ os'.state \in Answering
  /\ io # "Listening" /\ io' \in {"CONTINUE", "WRITE"}
  /\ UNCHANGED <<req, fn, log>>
  /\ OsShape(os') /\ SameData
  /\ usage' \in [Kinds -> Paths \cup {NoFile}] /\ open' \in [Kinds -> BOOLEAN]
  /\ out' \in OutPieces /\ sent' \in Seq({"file", "log"} \X Int) /\ announced' \in Nat

LEMMA AnsweringInv ==
  ASSUME AnswerInv, AnswerStep, Turned', SentSoFar'
  PROVE  AnswerInv'
  <1>1. /\ os.state \in Answering \cup {"OutputJSON"} /\ os'.state \in Answering
        /\ io # "Listening" /\ io' \in {"CONTINUE", "WRITE"} /\ UNCHANGED <<req, fn, log>>
    BY DEF AnswerStep
  <1>2. fn.at = "Idle"
    BY <1>1, States4 DEF AnswerInv, Reading
  <1>3. AnswerTypes'
    BY <1>1 DEF AnswerInv, AnswerTypes, AnswerStep, SameData
  <1>4. Reading'
    BY <1>1, <1>2 DEF Reading
  <1>0. /\ odata \in Seq(Answers) /\ odata' \in Seq(Answers)
        /\ Len(odata') = Len(odata) /\ DOMAIN odata' = DOMAIN odata
        /\ \A i \in DOMAIN odata : /\ odata'[i].do = odata[i].do /\ odata'[i].at = odata[i].at
                                   /\ odata'[i].cb = odata[i].cb /\ odata'[i].offset = odata[i].offset
                                   /\ odata'[i].iOut <= odata'[i].cb
    BY DEF AnswerInv, AnswerTypes, AnswerStep, SameData
  <1>5. Shape'
    <2>1. /\ Len(odata) <= 2
          /\ \A i \in DOMAIN odata :
               /\ odata[i].do = "log" => i = 1
               /\ odata[i].do = "read" => i = Len(odata) /\ odata[i].at + odata[i].cb <= Fsize
               /\ odata[i].offset = IF i = 1 THEN 0 ELSE odata[1].cb
      BY DEF AnswerInv, Shape
    <2>2. \A i \in DOMAIN odata : 1 \in DOMAIN odata
      BY <1>0
    <2> QED BY <1>0, <2>1, <2>2 DEF Shape
  <1>6. Kept'
    <2>1. odata' # <<>> => odata # <<>> /\ 1 \in DOMAIN odata
      BY <1>0
    <2>2. LogAsked' => LogAsked /\ odata'[1].at = odata[1].at /\ odata'[1].cb = odata[1].cb
      BY <1>0, <1>1, <2>1 DEF LogAsked
    <2> QED BY <1>1, <2>2 DEF AnswerInv, Kept, Late
  <1>7. Phase'
    BY <1>1, <1>2, States4 DEF Phase
  <1>8. Asking'
    BY <1>1, States4 DEF Asking
  <1>9. Sending'
    BY DEF Sending
  <1> QED BY <1>3, <1>4, <1>5, <1>6, <1>7, <1>8, <1>9 DEF AnswerInv

\* What is known of the pieces, as numbers.
LEMMA TwoAnswers ==
  ASSUME AnswerTypes, Shape
  PROVE  /\ Len(odata) \in {0, 1, 2} /\ DOMAIN odata = 1 .. Len(odata) /\ cOData = Len(odata) + 1
         /\ \A i \in DOMAIN odata : /\ odata[i] \in Answers /\ odata[i].cb \in Nat /\ odata[i].iOut \in Nat
                                    /\ odata[i].at \in Nat /\ i \in {1, 2} /\ odata[i].do \in {"read", "log"}
         /\ (odata = <<>> <=> Len(odata) = 0)
         /\ Sum(0) = 0 /\ (Len(odata) >= 1 => Sum(1) = odata[1].cb)
         /\ (Len(odata) = 2 => Sum(2) = odata[1].cb + odata[2].cb)
         /\ os.iOData \in Nat /\ Total = Sum(Len(odata)) /\ Sum(Len(odata)) \in Nat
  <1>1. odata \in Seq(Answers) /\ Len(odata) <= 2 /\ os.iOData \in Nat
    BY DEF AnswerTypes, Shape, OsShape
  <1>2. Len(odata) \in Nat /\ DOMAIN odata = 1 .. Len(odata) /\ \A i \in DOMAIN odata : odata[i] \in Answers
    BY <1>1, AnswerAt
  <1>3. Len(odata) \in {0, 1, 2}
    <2>1. \A n \in Nat : n <= 2 => n \in {0, 1, 2}
      OBVIOUS
    <2> QED BY <1>1, <1>2, <2>1
  <1>4. odata = <<>> <=> Len(odata) = 0
    BY <1>1
  <1>5. \A i \in DOMAIN odata : /\ odata[i].cb \in Nat /\ odata[i].iOut \in Nat
                                /\ odata[i].at \in Nat /\ odata[i].do \in {"read", "log"}
    BY <1>2 DEF Answers
  <1>6. \A i \in DOMAIN odata : i \in {1, 2}
    BY <1>2, <1>3
  <1>7. Total = Sum(Len(odata)) /\ Total \in Nat
    BY <1>1, TotalOfTwo, TotalNat
  <1> QED BY <1>1, <1>2, <1>3, <1>4, <1>5, <1>6, <1>7 DEF cOData, Sum

LEMMA SamePieces ==
  ASSUME AnswerTypes, Shape, UNCHANGED odata
  PROVE  SameData
  BY DEF AnswerTypes, Shape, SameData

LEMMA SameSums ==
  ASSUME AnswerTypes, Shape, SameData
  PROVE  /\ \A i \in 0 .. Len(odata) : Sum(i)' = Sum(i)
         /\ cOData' = cOData
  <1>1. /\ Len(odata) \in {0, 1, 2} /\ DOMAIN odata = 1 .. Len(odata)
    BY TwoAnswers
  <1>2. Len(odata') = Len(odata) /\ \A i \in DOMAIN odata : odata'[i].cb = odata[i].cb
    BY DEF SameData
  <1>3. \A i \in 0 .. Len(odata) : \/ i = 0
                                   \/ i = 1 /\ 1 \in DOMAIN odata
                                   \/ i = 2 /\ 1 \in DOMAIN odata /\ 2 \in DOMAIN odata
    BY <1>1
  <1> QED BY <1>2, <1>3 DEF Sum, cOData

LEMMA OutputJSONInv ==
  ASSUME AnswerInv, OutputJSON
  PROVE  AnswerInv'
  <1>t. AnswerTypes /\ Shape /\ OsShape(os)
    BY DEF AnswerInv, AnswerTypes
  <1>1. /\ os.state = "OutputJSON" /\ io = "CONTINUE"
        /\ UNCHANGED <<req, fn, odata, io, usage, open, out, sent, announced, log>>
    BY DEF OutputJSON, Turn, wire, file, request
  <1>2. /\ OsShape(os') /\ os'.state \in {"WriteChunkSize", "WriteOData"} /\ os'.iOData = 0
    <2>1. DOMAIN os' = DOMAIN OsInit /\ os'.state \in {"WriteChunkSize", "WriteOData"} /\ os'.iOData = 0
          /\ os'.nextChunk = os.nextChunk
      BY <1>t, OsFields DEF OutputJSON, OsShape
    <2> QED BY <1>t, <2>1 DEF OsShape, States, Answering
  <1>w. os'.state = "WriteOData" => cOData <= 1
    BY <1>t, OsFields, TwoAnswers DEF OutputJSON, OsShape
  <1>3. sent = <<>> /\ (\A i \in DOMAIN odata : odata[i].iOut = 0) /\ (HasRead => open["READING"])
    BY <1>1 DEF AnswerInv, Asking
  <1>4. /\ Len(odata) \in {0, 1, 2} /\ DOMAIN odata = 1 .. Len(odata) /\ cOData = Len(odata) + 1
    BY <1>t, TwoAnswers
  <1>5. ~Begun' /\ ~Pending' /\ ~Counted' /\ cOData' = cOData /\ Len(sent') = 0 /\ SentTo' = 0
    BY <1>1, <1>2, <1>3 DEF Begun, Pending, Counted, cOData, SentTo
  <1>6. Turned'
    BY <1>1, <1>2, <1>3, <1>4, <1>5 DEF Turned, HasRead
  <1>7. SentSoFar'
    <2>1. \A k \in 1 .. Len(sent') : FALSE
      BY <1>5
    <2> QED BY <1>1, <1>2, <1>5, <2>1 DEF SentSoFar
  <1>8. AnswerStep
    BY <1>t, <1>1, <1>2, SamePieces DEF AnswerStep, AnswerTypes, Answering
  <1> QED BY <1>6, <1>7, <1>8, AnsweringInv

\* What Sending says, and what it says when nothing is on its way to the client.
LEMMA AtTurn ==
  ASSUME AnswerInv, io = "CONTINUE", os.state \in Answering
  PROVE  /\ Turned /\ ~Pending /\ ~Counted /\ Len(sent) = SentTo
         /\ (\A k \in 1 .. Len(sent) :
               Right(sent[k], IF k <= odata[1].cb THEN Item(odata[1], k) ELSE Item(odata[2], k - odata[1].cb)))
         /\ (odata # <<>> /\ (Begun \/ os.iOData >= 2) => announced = Sum(Len(odata)))
  BY DEF AnswerInv, Sending, SentSoFar, Pending, Counted

\* A turn that moves no data.
LEMMA SameSent ==
  ASSUME AnswerInv, io = "CONTINUE", os.state \in Answering, SameData, UNCHANGED <<sent, announced, log>>,
         ~Pending', SentTo' = SentTo, io' = "WRITE" /\ out'.what = "count" => Counted',
         odata' # <<>> /\ (Begun' \/ os'.iOData >= 2) =>
           Counted' \/ (odata # <<>> /\ (Begun \/ os.iOData >= 2))
  PROVE  SentSoFar'
  <1>1. /\ Len(sent) = SentTo
        /\ (\A k \in 1 .. Len(sent) :
               Right(sent[k], IF k <= odata[1].cb THEN Item(odata[1], k) ELSE Item(odata[2], k - odata[1].cb)))
        /\ (odata # <<>> /\ (Begun \/ os.iOData >= 2) => announced = Sum(Len(odata)))
    BY AtTurn
  <1>2. AnswerTypes /\ Shape
    BY DEF AnswerInv
  <1>3. /\ Len(odata) \in {0, 1, 2} /\ DOMAIN odata = 1 .. Len(odata)
        /\ (\A i \in DOMAIN odata : odata[i].cb \in Nat) /\ (odata = <<>> <=> Len(odata) = 0)
        /\ os.iOData \in Nat
    BY <1>2, TwoAnswers
  <1>4. /\ Len(odata') = Len(odata)
        /\ \A i \in DOMAIN odata : /\ odata'[i].do = odata[i].do /\ odata'[i].at = odata[i].at
                                   /\ odata'[i].cb = odata[i].cb
    BY DEF SameData
  <1>5. Sum(Len(odata))' = Sum(Len(odata))
    <2>1. /\ \A i \in 0 .. Len(odata) : Sum(i)' = Sum(i)
      BY <1>2, SameSums
    <2>2. \A n : n = Len(odata) /\ n \in 0 .. Len(odata) => Sum(n)' = Sum(n)
      BY <2>1
    <2>3. \A n : n = Len(odata) => Sum(n)' = Sum(n)
      BY <1>3, <2>2
    <2> QED BY <1>4, <2>3
  <1>6. \A k \in 1 .. Len(sent') :
          Right(sent'[k], IF k <= odata'[1].cb THEN Item(odata'[1], k) ELSE Item(odata'[2], k - odata'[1].cb))
    <2>0. Len(sent) \in Nat
      BY <1>2 DEF AnswerTypes
    <2> SUFFICES ASSUME NEW k \in 1 .. Len(sent)
                 PROVE  Right(sent[k], IF k <= odata'[1].cb THEN Item(odata'[1], k) ELSE Item(odata'[2], k - odata'[1].cb))
      OBVIOUS
    <2>1. Right(sent[k], IF k <= odata[1].cb THEN Item(odata[1], k) ELSE Item(odata[2], k - odata[1].cb))
      BY <1>1
    <2>2. SentTo >= 1
      BY <1>1, <2>0
    <2>3. Len(odata) # 0
      <3>1. CASE Len(odata) = 0
        <4>1. os.iOData <= 1 /\ (os.state = "WriteOData" => os.iOData <= 0)
          BY <3>1, AtTurn DEF Turned, cOData
        <4>2. SentTo = 0
          BY <1>3, <4>1 DEF SentTo, Begun, Sum
        <4> QED BY <2>2, <4>2
      <3> QED BY <3>1
    <2>4. 1 \in DOMAIN odata
      BY <1>3, <2>3
    <2>5. CASE k <= odata[1].cb
      <3>1. Right(sent[k], Item(odata[1], k))
        BY <2>1, <2>5
      <3>2. Item(odata'[1], k) = Item(odata[1], k) /\ odata'[1].cb = odata[1].cb
        BY <1>4, <2>4 DEF Item
      <3> QED BY <2>5, <3>1, <3>2
    <2>6. CASE ~(k <= odata[1].cb)
      <3>1. Len(odata) = 2
        <4>1. CASE Len(odata) = 1
          <5>1. os.iOData <= 2 /\ (os.state = "WriteOData" => os.iOData <= 1)
            BY <4>1, AtTurn DEF Turned, cOData
          <5>2. odata[1].iOut <= odata[1].cb /\ odata[1].iOut \in Nat
            BY <1>2, <2>4, TwoAnswers DEF Shape
          <5>3. SentTo <= odata[1].cb
            <6>1. os.iOData \in {0, 1, 2}
              BY <1>3, <5>1
            <6>2. odata[1].cb \in Nat
              BY <1>3, <2>4
            <6> QED BY <5>1, <5>2, <6>1, <6>2 DEF SentTo, Begun, Sum
          <5> QED BY <1>1, <1>3, <2>0, <2>4, <2>6, <5>3
        <4> QED BY <1>3, <2>3, <4>1
      <3>2. 2 \in DOMAIN odata
        BY <1>3, <3>1
      <3> QED BY <1>4, <2>1, <2>4, <2>6, <3>2 DEF Item
    <2> QED BY <2>5, <2>6
  <1>7. Len(sent') = SentTo'
    BY <1>1
  <1>8. odata' # <<>> /\ (Begun' \/ os'.iOData >= 2) => Counted' \/ announced' = Sum(Len(odata))'
    BY <1>1, <1>5
  <1>9. Late' = Late
    BY DEF Late
  <1> QED BY <1>6, <1>7, <1>8, <1>9 DEF SentSoFar, Right

LEMMA WriteChunkSizeInv ==
  ASSUME AnswerInv, WriteChunkSize
  PROVE  AnswerInv'
  <1>t. AnswerTypes /\ Shape /\ OsShape(os)
    BY DEF AnswerInv, AnswerTypes
  <1>1. /\ os.state = "WriteChunkSize" /\ io = "CONTINUE" /\ os.state \in Answering
        /\ UNCHANGED <<req, fn, odata, usage, open, sent, announced, log>>
    BY DEF WriteChunkSize, Turn, wire, file, request, Answering
  <1>2. Turned
    BY <1>1, AtTurn
  <1>s. SameData /\ cOData' = cOData
    BY <1>t, <1>1, SamePieces, SameSums
  <1>4. /\ Len(odata) \in {0, 1, 2} /\ DOMAIN odata = 1 .. Len(odata) /\ cOData = Len(odata) + 1
        /\ (odata = <<>> <=> Len(odata) = 0) /\ os.iOData \in Nat /\ Total = Sum(Len(odata)) /\ Total \in Nat
        /\ (\A i \in DOMAIN odata : odata[i].iOut \in Nat)
    BY <1>t, TwoAnswers
  <1>5. CASE os.iOData = cOData \/ cOData = 1
    <2>1. os' = [os EXCEPT !.state = "Done"] /\ io' = "WRITE" /\ out' = [NoOut EXCEPT !.what = "end"]
      BY <1>5 DEF WriteChunkSize
    <2>2. OsShape(os') /\ os'.state = "Done" /\ os'.iOData = os.iOData
      BY <1>t, <2>1, OsFields DEF OsShape, States, Answering
    <2>3. out' \in OutPieces /\ out'.what = "end"
      BY <2>1 DEF OutPieces, NoOut
    <2>4. ~Begun' /\ ~Begun /\ ~Pending' /\ SentTo' = SentTo
      <3>1. ~Begun' /\ ~Begun
        BY <1>1, <2>2 DEF Begun
      <3>2. \A n : n = os.iOData - 1 => Sum(n)' = Sum(n)
        BY <1>1 DEF Sum
      <3> QED BY <2>2, <2>3, <3>1, <3>2 DEF Pending, SentTo
    <2>5. SentSoFar'
      BY <1>1, <1>s, <2>2, <2>3, <2>4, SameSent
    <2>6. Turned'
      BY <1>1, <1>2, <1>4, <1>5, <1>s, <2>2, <2>4 DEF Turned
    <2>7. AnswerStep
      BY <1>t, <1>1, <1>s, <2>1, <2>2, <2>3 DEF AnswerStep, AnswerTypes, Answering
    <2> QED BY <2>5, <2>6, <2>7, AnsweringInv
  <1>6. CASE ~(os.iOData = cOData \/ cOData = 1)
    <2>1. /\ os' = [os EXCEPT !.state = "WriteOData"]
          /\ io' = IF os.iOData <= 1 THEN "WRITE" ELSE "CONTINUE"
          /\ out' = IF os.iOData = 1 THEN [NoOut EXCEPT !.what = "count", !.cb = Total] ELSE NoOut
      BY <1>6 DEF WriteChunkSize
    <2>2. OsShape(os') /\ os'.state = "WriteOData" /\ os'.iOData = os.iOData
      BY <1>t, <2>1, OsFields DEF OsShape, States, Answering
    <2>3. /\ out' \in OutPieces /\ out'.what \in {"count", "nothing"}
          /\ (os.iOData = 1 => out'.what = "count" /\ out'.cb = Total) /\ (os.iOData # 1 => out'.what = "nothing")
      BY <1>4, <2>1 DEF OutPieces, NoOut
    <2>4. os.iOData <= Len(odata)
      BY <1>2, <1>4, <1>6 DEF Turned
    <2>5. os.iOData > 0 => os.iOData \in DOMAIN odata /\ odata[os.iOData].iOut = 0
      <3>1. ~Begun
        BY <1>1 DEF Begun
      <3>2. os.iOData > 0 => os.iOData \in DOMAIN odata
        BY <1>4, <2>4
      <3> QED BY <1>2, <3>1, <3>2 DEF Turned
    <2>6. ~Pending' /\ SentTo' = SentTo /\ (Begun' <=> os.iOData > 0) /\ ~Begun
      <3>1. (Begun' <=> os.iOData > 0) /\ ~Begun /\ ~Pending'
        BY <1>1, <2>2, <2>3 DEF Begun, Pending
      <3>2. \A n : n = os.iOData - 1 => Sum(n)' = Sum(n)
        BY <1>1 DEF Sum
      <3>3. CASE os.iOData = 0
        BY <2>2, <3>1, <3>3 DEF SentTo
      <3>4. CASE os.iOData # 0
        <4>1. SentTo' = Sum(os.iOData - 1) + odata[os.iOData].iOut /\ SentTo = Sum(os.iOData - 1)
          BY <1>1, <1>4, <2>2, <3>1, <3>2, <3>4 DEF SentTo
        <4>2. Sum(os.iOData - 1) \in Nat
          <5>1. Len(odata) >= 1 /\ os.iOData \in {1, 2}
            BY <1>4, <2>4, <3>4
          <5>2. odata[1].cb \in Nat /\ Sum(0) = 0 /\ Sum(1) = odata[1].cb
            BY <1>t, <1>4, <5>1, TwoAnswers
          <5> QED BY <5>1, <5>2
        <4> QED BY <1>4, <2>5, <3>1, <3>4, <4>1, <4>2
      <3> QED BY <3>1, <3>3, <3>4
    <2>7. os.iOData = 1 => Counted'
      <3>1. Sum(Len(odata))' = Sum(Len(odata))
        BY <1>1 DEF Sum
      <3> QED BY <1>4, <2>1, <2>3, <2>6, <3>1 DEF Counted
    <2>8. SentSoFar'
      <3>1. odata' # <<>> /\ (Begun' \/ os'.iOData >= 2) => Counted' \/ (odata # <<>> /\ (Begun \/ os.iOData >= 2))
        <4>1. CASE os.iOData = 0
          BY <2>2, <2>6, <4>1
        <4>2. CASE os.iOData = 1
          BY <2>7, <4>2
        <4>3. CASE os.iOData >= 2
          BY <1>1, <4>3
        <4> QED BY <1>4, <4>1, <4>2, <4>3
      <3>2. io' = "WRITE" /\ out'.what = "count" => Counted'
        BY <2>3, <2>7
      <3> QED BY <1>1, <1>s, <2>6, <3>1, <3>2, SameSent
    <2>9. Turned'
      <3>1. /\ os'.iOData <= cOData' /\ (os'.state = "WriteOData" => os'.iOData <= Len(odata')) /\ os'.state # "Done"
        BY <1>1, <1>4, <2>2, <2>4, <1>s
      <3>3. \A i \in DOMAIN odata : odata[i].do = "read" /\ i >= os.iOData => open["READING"]
        BY <1>2, <2>6 DEF Turned
      <3>4. \A i \in DOMAIN odata : i > os.iOData \/ i = os.iOData => odata[i].iOut = 0
        BY <1>2, <1>4, <2>6 DEF Turned
      <3> QED BY <1>1, <2>2, <3>1, <3>3, <3>4 DEF Turned
    <2>10. AnswerStep
      BY <1>t, <1>1, <1>s, <2>1, <2>2, <2>3 DEF AnswerStep, AnswerTypes, Answering
    <2> QED BY <2>8, <2>9, <2>10, AnsweringInv
  <1> QED BY <1>5, <1>6

LEMMA WriteJSONRespInv ==
  ASSUME AnswerInv, WriteJSONResp
  PROVE  AnswerInv'
  <1>t. AnswerTypes /\ Shape /\ OsShape(os)
    BY DEF AnswerInv, AnswerTypes
  <1>1. /\ os.state = "WriteOData" /\ io = "CONTINUE" /\ os.state \in Answering /\ os.iOData = 0
        /\ UNCHANGED <<req, fn, odata, usage, open, sent, announced, log>>
        /\ os' = NextOData /\ io' = "WRITE" /\ out' = [NoOut EXCEPT !.what = "json"]
    BY DEF WriteJSONResp, Turn, wire, file, request, Answering
  <1>2. Turned
    BY <1>1, AtTurn
  <1>s. SameData /\ cOData' = cOData
    BY <1>t, <1>1, SamePieces, SameSums
  <1>3. OsShape(os') /\ os'.state = "WriteChunkSize" /\ os'.iOData = 1
    BY <1>t, <1>1, OsFields DEF OsShape, States, Answering, NextOData
  <1>4. /\ Len(odata) \in {0, 1, 2} /\ DOMAIN odata = 1 .. Len(odata) /\ cOData = Len(odata) + 1
    BY <1>t, TwoAnswers
  <1>5. out' \in OutPieces /\ out'.what = "json"
    BY <1>1 DEF OutPieces, NoOut
  <1>6. ~Begun /\ ~Begun' /\ ~Pending' /\ SentTo = 0 /\ SentTo' = 0
    <2>1. ~Begun /\ ~Begun' /\ ~Pending'
      BY <1>1, <1>3, <1>5 DEF Begun, Pending
    <2>2. \A n : n = 1 - 1 => Sum(n)' = 0
      BY DEF Sum
    <2> QED BY <1>1, <1>3, <2>1, <2>2 DEF SentTo
  <1>7. SentSoFar'
    BY <1>1, <1>3, <1>5, <1>6, <1>s, SameSent
  <1>8. Turned'
    <2>1. \A i \in DOMAIN odata : i > 0 /\ odata[i].iOut = 0
      BY <1>1, <1>2, <1>4 DEF Turned
    <2>2. \A i \in DOMAIN odata : odata[i].do = "read" => open["READING"]
      BY <1>1, <1>2, <1>6, <2>1 DEF Turned
    <2> QED BY <1>1, <1>3, <1>4, <1>6, <1>s, <2>1, <2>2 DEF Turned
  <1>9. AnswerStep
    BY <1>t, <1>1, <1>s, <1>3, <1>5 DEF AnswerStep, AnswerTypes, Answering
  <1> QED BY <1>7, <1>8, <1>9, AnsweringInv

\* A piece is handed to the client: of a file or of the ring, from where the last one ended.
LEMMA PieceInv ==
  ASSUME AnswerInv, Sends, NEW n \in Nat \ {0}, n <= OfThis, Out(n),
         UNCHANGED <<req, fn, os, usage, open, sent, announced, log>>,
         NEW w \in {"file", "log"}, w = "file" <=> O.do = "read", NEW a \in Nat,
         w = "file" => a = O.at + O.iOut,
         w = "log" => a = (O.at + O.iOut) % CSVBUFF /\ a + n <= CSVBUFF,
         O.do = "read" => open["READING"],
         out' = [what |-> w, at |-> a, cb |-> n]
  PROVE  AnswerInv'
  <1>t. AnswerTypes /\ Shape /\ OsShape(os)
    BY DEF AnswerInv, AnswerTypes
  <1>1. /\ os.state = "WriteOData" /\ io = "CONTINUE" /\ os.state \in Answering /\ os.iOData > 0 /\ Begun
    BY DEF Sends, Turn, Answering, Begun
  <1>2. /\ Turned /\ ~Pending /\ Len(sent) = SentTo
        /\ (\A k \in 1 .. Len(sent) :
               Right(sent[k], IF k <= odata[1].cb THEN Item(odata[1], k) ELSE Item(odata[2], k - odata[1].cb)))
        /\ (odata # <<>> /\ (Begun \/ os.iOData >= 2) => announced = Sum(Len(odata)))
    BY <1>1, AtTurn
  <1> DEFINE p == os.iOData
  <1>3. /\ Len(odata) \in {0, 1, 2} /\ DOMAIN odata = 1 .. Len(odata) /\ cOData = Len(odata) + 1
        /\ (odata = <<>> <=> Len(odata) = 0) /\ os.iOData \in Nat
        /\ (\A i \in DOMAIN odata : /\ odata[i] \in Answers /\ odata[i].cb \in Nat /\ odata[i].iOut \in Nat
                                    /\ odata[i].at \in Nat /\ i \in {1, 2} /\ odata[i].do \in {"read", "log"})
    BY <1>t, TwoAnswers
  <1>4. p \in DOMAIN odata /\ O = odata[p] /\ p \in 1 .. Len(odata)
    BY <1>1, <1>2, <1>3 DEF Turned, O
  <1>5. /\ odata' = [odata EXCEPT ![p].iOut = @ + n] /\ io' = "WRITE"
    BY DEF Out
  <1>6. PICK m \in Nat : m = odata[p].iOut + n /\ m <= odata[p].cb
    <2>1. odata[p].iOut \in Nat /\ odata[p].cb \in Nat
      BY <1>3, <1>4
    <2>2. PICK y \in Nat, c \in Nat : y = odata[p].iOut /\ c = odata[p].cb
      BY <2>1
    <2>3. OfThis = c - y
      BY <1>4, <2>2 DEF OfThis
    <2> HIDE DEF p
    <2>4. PICK m \in Nat : m = y + n
      OBVIOUS
    <2>5. m <= c
      BY <2>3, <2>4
    <2> QED BY <2>2, <2>4, <2>5
  <1>7. /\ odata' \in Seq(Answers) /\ Len(odata') = Len(odata) /\ DOMAIN odata' = DOMAIN odata
        /\ \A i \in DOMAIN odata : i # p => odata'[i] = odata[i]
        /\ odata'[p] = [odata[p] EXCEPT !.iOut = m]
    <2>1. odata \in Seq(Answers)
      BY <1>t DEF AnswerTypes
    <2> DEFINE x == [odata[p] EXCEPT !.iOut = m]
    <2>2. x \in Answers
      <3>1. odata[p] \in Answers
        BY <1>3, <1>4
      <3> HIDE DEF p
      <3> QED BY <1>6, <3>1 DEF Answers
    <2>3. odata' = [odata EXCEPT ![p] = x]
      BY <1>5, <1>6
    <2> HIDE DEF x
    <2>4. /\ odata' \in Seq(Answers) /\ Len(odata') = Len(odata) /\ odata'[p] = x
          /\ \A i \in DOMAIN odata : i # p => odata'[i] = odata[i]
      BY <1>4, <2>1, <2>2, <2>3
    <2>5. DOMAIN odata' = DOMAIN odata
      BY <2>3
    <2> QED BY <2>4, <2>5 DEF x
  <1>8. /\ odata'[p].iOut = m /\ odata'[p].do = odata[p].do /\ odata'[p].at = odata[p].at
        /\ odata'[p].cb = odata[p].cb /\ odata'[p].offset = odata[p].offset
    <2>1. odata[p] \in Answers
      BY <1>3, <1>4
    <2> QED BY <1>7, <2>1 DEF Answers
  <1>9. SameData
    <2>1. \A i \in DOMAIN odata : odata[i].iOut <= odata[i].cb
      BY <1>t DEF Shape
    <2>2. \A i \in DOMAIN odata : i # p => /\ odata'[i].do = odata[i].do /\ odata'[i].at = odata[i].at
                             /\ odata'[i].cb = odata[i].cb /\ odata'[i].offset = odata[i].offset
                             /\ odata'[i].iOut <= odata'[i].cb
      BY <1>7, <2>1
    <2> HIDE DEF p
    <2>3. odata'[p].iOut <= odata'[p].cb
      BY <1>6, <1>8
    <2> QED BY <1>4, <1>7, <1>8, <2>2, <2>3 DEF SameData
  <1>10. \A i \in 0 .. Len(odata) : Sum(i)' = Sum(i)
    BY <1>t, <1>9, SameSums
  <1>11. cOData' = cOData
    BY <1>7 DEF cOData
  <1>12. Begun' /\ Pending' /\ O' = odata'[p] /\ out'.what = w /\ out'.at = a /\ out'.cb = n /\ ~Counted'
    BY <1>1, <1>5 DEF Begun, Pending, O, Counted
  <1>13. SentTo' = SentTo + n
    <2>1. SentTo = Sum(p - 1) + odata[p].iOut
      BY <1>1, <1>4, <1>3 DEF SentTo
    <2>2. SentTo' = Sum(p - 1)' + odata'[p].iOut
      BY <1>1, <1>3, <1>4, <1>12 DEF SentTo
    <2>3. p - 1 \in 0 .. Len(odata) /\ p - 1 \in {0, 1}
      BY <1>3, <1>4
    <2>4. \A i \in 0 .. Len(odata) : p - 1 = i => Sum(p - 1)' = Sum(p - 1)
      <3> SUFFICES ASSUME NEW i \in 0 .. Len(odata), p - 1 = i PROVE Sum(p - 1)' = Sum(p - 1)
        OBVIOUS
      <3>1. Sum(i)' = Sum(i)
        BY <1>10
      <3>2. Sum(p - 1)' = Sum(i)'
        BY <1>1 DEF Sum
      <3> QED BY <3>1, <3>2
    <2>5. Sum(p - 1) \in Nat
      <3>1. Sum(0) = 0 /\ Sum(1) = odata[1].cb /\ 1 \in DOMAIN odata
        BY <1>t, <1>3, <1>4, TwoAnswers
      <3>2. p - 1 = 0 \/ p - 1 = 1
        BY <2>3
      <3> QED BY <1>3, <3>1, <3>2
    <2>6. Sum(p - 1)' = Sum(p - 1)
      BY <2>3, <2>4
    <2> HIDE DEF p
    <2>7. PICK x \in Nat, y \in Nat : x = Sum(p - 1) /\ y = odata[p].iOut
      BY <1>3, <1>4, <2>5
    <2>8. SentTo = x + y /\ SentTo' = x + m /\ m = y + n
      BY <1>6, <1>8, <2>1, <2>2, <2>6, <2>7
    <2> QED BY <2>8
  <1>14. Turned'
    <2>1. \A i \in DOMAIN odata : i > p => odata'[i].iOut = 0
      <3>1. \A i \in DOMAIN odata : i > p => odata[i].iOut = 0 /\ i # p
        BY <1>2, <1>3 DEF Turned
      <3> QED BY <1>7, <3>1
    <2>2. \A i \in DOMAIN odata : odata[i].do = "read" /\ i >= p => open["READING"]
      <3> SUFFICES ASSUME NEW i \in DOMAIN odata, odata[i].do = "read", i >= p PROVE open["READING"]
        OBVIOUS
      <3>1. CASE i = p
        BY <1>4, <3>1
      <3>2. CASE i # p
        BY <1>2, <3>2 DEF Turned
      <3> QED BY <3>1, <3>2
    <2>3. \A i \in DOMAIN odata : odata'[i].do = odata[i].do
      BY <1>9 DEF SameData
    <2> QED BY <1>1, <1>2, <1>7, <1>11, <1>12, <2>1, <2>2, <2>3 DEF Turned
  <1>15. SentSoFar'
    <2>1. Len(sent') + out'.cb = SentTo' /\ out'.cb <= O'.iOut
      <3>1. n <= m
        BY <1>3, <1>4, <1>6
      <3> QED BY <1>2, <1>8, <1>12, <1>13, <3>1
    <2>2. (out'.what = "file" <=> O'.do = "read")
      BY <1>4, <1>8, <1>12
    <2>3. O'.at + O'.iOut - n = O.at + O.iOut
      <3>1. PICK x \in Nat, y \in Nat : x = odata[p].at /\ y = odata[p].iOut
        BY <1>3, <1>4
      <3>2. O'.at = x /\ O'.iOut = m /\ O.at = x /\ O.iOut = y /\ m = y + n
        BY <1>4, <1>6, <1>8, <1>12, <3>1
      <3> QED BY <3>2
    <2>4. /\ (out'.what = "file" => out'.at = O'.at + O'.iOut - out'.cb)
          /\ (out'.what = "log" => out'.at = (O'.at + O'.iOut - out'.cb) % CSVBUFF /\ out'.at + out'.cb <= CSVBUFF)
      BY <1>12, <2>3
    <2>5. Sum(Len(odata))' = Sum(Len(odata)) /\ odata # <<>>
      <3>1. \A i \in 0 .. Len(odata) : Len(odata) = i => Sum(Len(odata))' = Sum(Len(odata))
        <4> SUFFICES ASSUME NEW i \in 0 .. Len(odata), Len(odata) = i PROVE Sum(Len(odata))' = Sum(Len(odata))
          OBVIOUS
        <4>1. Sum(i)' = Sum(i)
          BY <1>10
        <4>2. Sum(Len(odata))' = Sum(i)'
          BY <1>7 DEF Sum
        <4> QED BY <4>1, <4>2
      <3>2. Len(odata) \in 0 .. Len(odata) /\ Len(odata) # 0
        BY <1>3, <1>4
      <3> QED BY <1>3, <3>1, <3>2
    <2>6. announced' = Sum(Len(odata))'
      BY <1>1, <1>2, <2>5
    <2>7. \A k \in 1 .. Len(sent') :
             Right(sent'[k], IF k <= odata'[1].cb THEN Item(odata'[1], k) ELSE Item(odata'[2], k - odata'[1].cb))
      <3> SUFFICES ASSUME NEW k \in 1 .. Len(sent)
                   PROVE Right(sent[k], IF k <= odata'[1].cb THEN Item(odata'[1], k) ELSE Item(odata'[2], k - odata'[1].cb))
        OBVIOUS
      <3>1. Right(sent[k], IF k <= odata[1].cb THEN Item(odata[1], k) ELSE Item(odata[2], k - odata[1].cb))
        BY <1>2
      <3>2. 1 \in DOMAIN odata
        BY <1>3, <1>4
      <3>3. \A i \in DOMAIN odata : \A j : Item(odata'[i], j) = Item(odata[i], j)
        BY <1>9 DEF Item, SameData
      <3>4. odata'[1].cb = odata[1].cb
        BY <1>9, <3>2 DEF SameData
      <3>5. CASE k <= odata[1].cb
        BY <3>1, <3>2, <3>3, <3>4, <3>5
      <3>6. CASE ~(k <= odata[1].cb)
        <4>1. 2 \in DOMAIN odata
          <5>1. CASE Len(odata) = 1
            <6>1. p = 1
              BY <1>4, <5>1
            <6>2. SentTo = odata[1].iOut
              <7>1. \A i : i = 1 - 1 => Sum(i) = 0
                BY DEF Sum
              <7>2. SentTo = Sum(1 - 1) + odata[1].iOut
                BY <1>1, <6>1 DEF SentTo
              <7> QED BY <1>3, <3>2, <7>1, <7>2
            <6>3. odata[1].iOut <= odata[1].cb
              BY <1>t, <3>2 DEF Shape
            <6>4. k \in Nat /\ k <= SentTo
              BY <1>2, <1>t DEF AnswerTypes
            <6> QED BY <1>3, <3>2, <3>6, <6>2, <6>3, <6>4
          <5> QED BY <1>3, <1>4, <5>1
        <4> QED BY <3>1, <3>3, <3>4, <3>6, <4>1
      <3> QED BY <3>5, <3>6
    <2>8. Late' = Late
      BY DEF Late
    <2> QED BY <1>12, <2>1, <2>2, <2>4, <2>6, <2>7, <2>8 DEF SentSoFar, Right
  <1>16. AnswerStep
    <2>1. out' \in OutPieces
      BY DEF OutPieces
    <2> QED BY <1>t, <1>1, <1>5, <1>9, <2>1 DEF AnswerStep, AnswerTypes, Answering
  <1> QED BY <1>14, <1>15, <1>16, AnsweringInv

LEMMA SendingIs ==
  ASSUME AnswerInv, Sends
  PROVE  /\ os.state = "WriteOData" /\ io = "CONTINUE" /\ os.state \in Answering /\ os.iOData > 0 /\ Begun
         /\ os.iOData \in DOMAIN odata /\ os.iOData \in Nat /\ O = odata[os.iOData] /\ O \in Answers
         /\ O.cb \in Nat /\ O.iOut \in Nat /\ O.at \in Nat /\ O.do \in {"read", "log"} /\ O.iOut <= O.cb
         /\ (O.do = "read" => os.iOData = Len(odata) /\ O.at + O.cb <= Fsize)
         /\ (O.do = "log" => os.iOData = 1)
         /\ (O.do = "read" => open["READING"] \/ O.iOut = O.cb)
  <1>t. AnswerTypes /\ Shape
    BY DEF AnswerInv
  <1>1. /\ os.state = "WriteOData" /\ io = "CONTINUE" /\ os.state \in Answering /\ os.iOData > 0 /\ Begun
    BY DEF Sends, Turn, Answering, Begun
  <1>2. Turned
    BY <1>1, AtTurn
  <1>3. /\ Len(odata) \in {0, 1, 2} /\ DOMAIN odata = 1 .. Len(odata) /\ os.iOData \in Nat
        /\ (\A i \in DOMAIN odata : /\ odata[i] \in Answers /\ odata[i].cb \in Nat /\ odata[i].iOut \in Nat
                                    /\ odata[i].at \in Nat /\ i \in {1, 2} /\ odata[i].do \in {"read", "log"})
    BY <1>t, TwoAnswers
  <1>4. os.iOData \in DOMAIN odata /\ O = odata[os.iOData]
    BY <1>1, <1>2, <1>3 DEF Turned, O
  <1>5. O.do = "read" => open["READING"] \/ O.iOut = O.cb
    BY <1>2, <1>3, <1>4 DEF Turned
  <1>6. /\ O.iOut <= O.cb /\ (O.do = "read" => os.iOData = Len(odata) /\ O.at + O.cb <= Fsize)
        /\ (O.do = "log" => os.iOData = 1)
    BY <1>t, <1>4 DEF Shape
  <1> QED BY <1>1, <1>3, <1>4, <1>5, <1>6

LEMMA CbMaxIs ==
  ASSUME AnswerInv, Sends, O.do = "read"
  PROVE  /\ CbMax \in Int /\ CbMax <= OfThis
         /\ (CbMax <= 0 => O.iOut = O.cb)
  <1>1. O.cb \in Nat /\ O.iOut \in Nat /\ O.at \in Nat /\ O.iOut <= O.cb /\ O.at + O.cb <= Fsize
    BY SendingIs
  <1>2. CbResp \in Nat \ {0} /\ Fsize \in Nat
    BY Params
  <1>3. OfThis = O.cb - O.iOut
    BY DEF OfThis
  <1>4. CbMax = Least(Least(Fsize - (O.at + O.iOut), CbResp), OfThis)
    BY DEF CbMax
  <1> QED BY <1>1, <1>2, <1>3, <1>4 DEF Least

LEMMA ReadFileInv ==
  ASSUME AnswerInv, ReadFile, "read" \notin Faults
  PROVE  AnswerInv'
  <1>1. Sends /\ O.do = "read" /\ open["READING"] /\ CbMax > 0
    BY DEF ReadFile
  <1>2. Out(CbMax) /\ out' = [what |-> "file", at |-> O.at + O.iOut, cb |-> CbMax]
    BY DEF ReadFile, Outcomes
  <1>3. UNCHANGED <<req, fn, os, usage, open, sent, announced, log>>
    BY DEF ReadFile, file
  <1>4. CbMax \in Nat \ {0} /\ CbMax <= OfThis
    BY <1>1, CbMaxIs
  <1>5. O.at + O.iOut \in Nat
    BY <1>1, SendingIs
  <1> HIDE DEF CbMax
  <1> QED BY <1>1, <1>2, <1>3, <1>4, <1>5, PieceInv

\* The file is read to its end.
LEMMA ReadFileCloseInv ==
  ASSUME AnswerInv, ReadFileClose
  PROVE  AnswerInv'
  <1>t. AnswerTypes /\ Shape /\ OsShape(os)
    BY DEF AnswerInv, AnswerTypes
  <1>1. Sends /\ O.do = "read" /\ CbMax <= 0
        /\ UNCHANGED <<req, fn, odata, io, os, usage, out, sent, announced, log>>
    BY DEF ReadFileClose, wire, request
  <1>2. /\ os.state = "WriteOData" /\ io = "CONTINUE" /\ os.state \in Answering /\ os.iOData > 0 /\ Begun
        /\ os.iOData \in DOMAIN odata /\ O = odata[os.iOData] /\ os.iOData = Len(odata) /\ O.iOut = O.cb
    BY <1>1, SendingIs, CbMaxIs
  <1>3. open' \in [Kinds -> BOOLEAN]
    <2>1. PICK ok \in BOOLEAN : open' = [open EXCEPT !["READING"] = ~ok]
      BY DEF ReadFileClose, Outcomes
    <2>2. open \in [Kinds -> BOOLEAN] /\ "READING" \in Kinds
      BY <1>t, NoPath DEF AnswerTypes
    <2>3. (~ok) \in BOOLEAN
      OBVIOUS
    <2> QED BY <2>1, <2>2, <2>3, OpenIs
  <1>s. SameData /\ cOData' = cOData
    BY <1>t, <1>1, SamePieces, SameSums
  <1>4. Turned /\ ~Pending /\ ~Counted
    BY <1>2, AtTurn
  <1>5. ~Pending' /\ SentTo' = SentTo /\ Begun'
    <2>1. \A n : n = os.iOData - 1 => Sum(n)' = Sum(n)
      BY <1>1 DEF Sum
    <2>2. Begun' /\ ~Pending'
      BY <1>1, <1>2 DEF Begun, Pending
    <2> QED BY <1>1, <1>2, <2>1, <2>2 DEF SentTo
  <1>6. SentSoFar'
    BY <1>1, <1>2, <1>5, <1>s, SameSent
  <1>7. Turned'
    <2>1. \A i \in DOMAIN odata : i >= os.iOData => i = os.iOData
      BY <1>t, <1>2, TwoAnswers
    <2> QED BY <1>1, <1>2, <1>4, <1>5, <1>s, <2>1 DEF Turned
  <1>8. AnswerStep
    BY <1>t, <1>1, <1>2, <1>3, <1>s DEF AnswerStep, AnswerTypes, Answering
  <1> QED BY <1>6, <1>7, <1>8, AnsweringInv

\* A piece is all out.
LEMMA PieceDoneInv ==
  ASSUME AnswerInv, Sends, O.iOut = O.cb, os' = NextOData,
         UNCHANGED <<req, fn, odata, io, open, out, sent, announced, log>>,
         usage' \in [Kinds -> Paths \cup {NoFile}]
  PROVE  AnswerInv'
  <1>t. AnswerTypes /\ Shape /\ OsShape(os)
    BY DEF AnswerInv, AnswerTypes
  <1>2. /\ os.state = "WriteOData" /\ io = "CONTINUE" /\ os.state \in Answering /\ os.iOData > 0 /\ Begun
        /\ os.iOData \in DOMAIN odata /\ O = odata[os.iOData] /\ os.iOData \in Nat
        /\ (O.do = "read" => os.iOData = Len(odata))
    BY SendingIs
  <1>3. OsShape(os') /\ os'.state = "WriteChunkSize" /\ os'.iOData = os.iOData + 1
    <2>1. DOMAIN os' = DOMAIN OsInit /\ os'.state = "WriteChunkSize" /\ os'.iOData = os.iOData + 1
          /\ os'.nextChunk = os.nextChunk
      BY <1>t, OsFields DEF OsShape, NextOData
    <2>2. os'.iOData \in Nat
      BY <1>2, <2>1
    <2> QED BY <1>t, <2>1, <2>2 DEF OsShape, States, Answering
  <1>s. SameData /\ cOData' = cOData
    BY <1>t, SamePieces, SameSums
  <1>4. /\ Len(odata) \in {0, 1, 2} /\ DOMAIN odata = 1 .. Len(odata) /\ cOData = Len(odata) + 1
        /\ (\A i \in DOMAIN odata : odata[i].cb \in Nat)
        /\ Sum(0) = 0 /\ (Len(odata) >= 1 => Sum(1) = odata[1].cb)
        /\ (Len(odata) = 2 => Sum(2) = odata[1].cb + odata[2].cb)
    BY <1>t, TwoAnswers
  <1>5. Turned /\ ~Pending /\ ~Counted
    BY <1>2, AtTurn
  <1>6. ~Begun' /\ ~Pending' /\ SentTo' = SentTo
    <2>1. ~Begun' /\ ~Pending'
      BY <1>2, <1>3 DEF Begun, Pending
    <2>2. \A n : n = os.iOData => Sum(n)' = Sum(n)
      BY DEF Sum
    <2>3. SentTo' = Sum(os.iOData)
      <3>1. os'.iOData # 0 /\ os'.iOData - 1 = os.iOData
        BY <1>2, <1>3
      <3>2. \A n : n = os'.iOData - 1 => SentTo' = Sum(n)
        BY <2>1, <3>1 DEF SentTo, Sum
      <3> QED BY <3>1, <3>2
    <2>4. SentTo = Sum(os.iOData - 1) + odata[os.iOData].cb
      BY <1>2 DEF SentTo
    <2>5. CASE os.iOData = 1
      <3>1. Sum(os.iOData - 1) = 0 /\ Sum(os.iOData) = odata[1].cb
        BY <1>2, <1>4, <2>5
      <3> QED BY <1>2, <1>4, <2>1, <2>3, <2>4, <2>5, <3>1
    <2>6. CASE os.iOData = 2
      <3>1. Sum(os.iOData - 1) = odata[1].cb /\ Sum(os.iOData) = odata[1].cb + odata[2].cb
        BY <1>2, <1>4, <2>6
      <3> QED BY <1>2, <1>4, <2>1, <2>3, <2>4, <2>6, <3>1
    <2> QED BY <1>2, <1>4, <2>5, <2>6
  <1>7. SentSoFar'
    <2>1. odata' # <<>> /\ (Begun' \/ os'.iOData >= 2) => Counted' \/ (odata # <<>> /\ (Begun \/ os.iOData >= 2))
      BY <1>2
    <2>2. io' = "WRITE" /\ out'.what = "count" => Counted'
      BY <1>2
    <2> QED BY <1>2, <1>6, <1>s, <2>1, <2>2, SameSent
  <1>8. Turned'
    <2>1. os'.iOData <= cOData' /\ os'.state # "WriteOData" /\ os'.state # "Done"
      BY <1>2, <1>3, <1>4, <1>s
    <2>2. \A i \in DOMAIN odata : i > os'.iOData \/ i = os'.iOData => i > os.iOData
      BY <1>2, <1>3, <1>4
    <2>3. \A i \in DOMAIN odata : i >= os'.iOData => i >= os.iOData /\ i # os.iOData /\ os.iOData # Len(odata)
      BY <1>2, <1>3, <1>4
    <2>4. \A i \in DOMAIN odata : i > os'.iOData \/ (i = os'.iOData /\ ~Begun') => odata[i].iOut = 0
      BY <1>5, <2>2 DEF Turned
    <2>5. \A i \in DOMAIN odata : odata[i].do = "read" /\ i >= os'.iOData => open["READING"]
      BY <1>5, <2>3 DEF Turned
    <2> QED BY <2>1, <2>4, <2>5 DEF Turned
  <1>9. AnswerStep
    BY <1>t, <1>2, <1>3, <1>s DEF AnswerStep, AnswerTypes, Answering
  <1> QED BY <1>7, <1>8, <1>9, AnsweringInv

LEMMA ReadFileDoneInv ==
  ASSUME AnswerInv, ReadFileDone
  PROVE  AnswerInv'
  <1>1. /\ Sends /\ O.do = "read" /\ ~open["READING"] /\ os' = NextOData
        /\ UNCHANGED <<req, fn, odata, io, open, out, sent, announced, log>>
        /\ usage' = [usage EXCEPT !["READING"] = NoFile]
    BY DEF ReadFileDone, wire, request, UsageCleared
  <1>2. O.iOut = O.cb
    BY <1>1, SendingIs
  <1>3. usage' \in [Kinds -> Paths \cup {NoFile}]
    <2>1. usage \in [Kinds -> Paths \cup {NoFile}]
      BY DEF AnswerInv, AnswerTypes
    <2> QED BY <1>1, <2>1, NoPath, UsageIs
  <1> QED BY <1>1, <1>2, <1>3, PieceDoneInv

LEMMA ReadVoltageLogInv ==
  ASSUME AnswerInv, ReadVoltageLog
  PROVE  AnswerInv'
  <1> DEFINE start == (O.at % CSVBUFF) + O.iOut
             p     == IF start >= CSVBUFF THEN start - CSVBUFF ELSE start
  <1>1. Sends /\ O.do = "log" /\ UNCHANGED <<req, fn, usage, open, sent, announced, log>>
    BY DEF ReadVoltageLog, file
  <1>2. /\ O.cb \in Nat /\ O.iOut \in Nat /\ O.at \in Nat /\ O.iOut <= O.cb /\ os.iOData = 1 /\ O = odata[1]
        /\ io = "CONTINUE" /\ 1 \in DOMAIN odata
    BY <1>1, SendingIs
  <1>3. usage \in [Kinds -> Paths \cup {NoFile}]
    BY DEF AnswerInv, AnswerTypes
  <1>4. CASE OfThis = 0
    <2>1. os' = NextOData /\ UNCHANGED <<io, odata, out>>
      BY <1>4 DEF ReadVoltageLog
    <2>2. O.iOut = O.cb
      BY <1>2, <1>4 DEF OfThis
    <2> QED BY <1>1, <1>3, <2>1, <2>2, PieceDoneInv
  <1>5. CASE OfThis # 0
    <2>1. Out(CbLog(p)) /\ out' = [what |-> "log", at |-> p, cb |-> CbLog(p)] /\ UNCHANGED os
      BY <1>5 DEF ReadVoltageLog
    <2>2. O.cb <= CSVBUFF
      <3>1. LogAsked
        BY <1>1, <1>2 DEF LogAsked, AnswerInv, AnswerTypes
      <3> QED BY <1>2, <3>1 DEF AnswerInv, Kept
    <2>3. O.iOut < O.cb /\ OfThis = O.cb - O.iOut
      BY <1>2, <1>5 DEF OfThis
    <2>4. CSVBUFF \in Nat \ {0} /\ CbDMA \in Nat \ {0}
      BY Params
    <2>5. O.at % CSVBUFF \in 0 .. CSVBUFF - 1
      BY <1>2, <2>4, DivModIs
    <2>6. p = (O.at + O.iOut) % CSVBUFF
      <3>1. (O.at % CSVBUFF) + O.iOut < 2 * CSVBUFF
        BY <1>2, <2>2, <2>3, <2>4, <2>5
      <3>2. (O.at + O.iOut) % CSVBUFF = IF (O.at % CSVBUFF) + O.iOut >= CSVBUFF
                                        THEN (O.at % CSVBUFF) + O.iOut - CSVBUFF ELSE (O.at % CSVBUFF) + O.iOut
        <4>1. PICK x \in Nat, k \in Nat, N \in Nat \ {0} : x = O.at /\ k = O.iOut /\ N = CSVBUFF
          BY <1>2, <2>4
        <4> QED BY <3>1, <4>1, PlaceOn
      <3>3. CASE start >= CSVBUFF
        <4>1. p = start - CSVBUFF
          BY <3>3
        <4> QED BY <1>2, <2>4, <2>5, <3>2, <3>3, <4>1
      <3>4. CASE ~(start >= CSVBUFF)
        <4>1. p = start
          BY <3>4
        <4> QED BY <1>2, <2>4, <2>5, <3>2, <3>4, <4>1
      <3> QED BY <3>3, <3>4
    <2>7. p \in 0 .. CSVBUFF - 1
      BY <1>2, <2>2, <2>3, <2>4, <2>5
    <2> HIDE DEF p
    <2>8. CbLog(p) \in Nat \ {0} /\ CbLog(p) <= OfThis /\ p + CbLog(p) <= CSVBUFF /\ p \in Nat
      <3>1. CbLog(p) = Least(Least(OfThis, CSVBUFF - p), CbDMA)
        BY DEF CbLog
      <3> QED BY <1>2, <2>3, <2>4, <2>7, <3>1 DEF Least
    <2>9. PICK n \in Nat \ {0} : n = CbLog(p)
      BY <2>8
    <2> QED BY <1>1, <2>1, <2>6, <2>8, <2>9, PieceInv
  <1> QED BY <1>4, <1>5

\* The answer is all out, or the client is gone.
LEMMA EndInv ==
  ASSUME AnswerInv, os.state \in Answering, io' = "Listening", os' = OsInit, out' \in OutPieces,
         UNCHANGED <<req, fn, odata, usage, open, sent, announced, log>>
  PROVE  AnswerInv'
  <1>1. OsShape(OsInit) /\ OsInit.state = "Idle"
    BY DEF OsShape, OsInit, States, NextStates
  <1>2. os'.state = "Idle" /\ OsShape(os')
    BY <1>1
  <1>3. fn.at = "Idle"
    BY States4 DEF AnswerInv, Reading
  <1>4. AnswerTypes'
    BY <1>2 DEF AnswerInv, AnswerTypes
  <1>5. Reading' /\ Shape'
    BY <1>3 DEF AnswerInv, Reading, Shape
  <1>6. Kept'
    BY DEF AnswerInv, Kept, LogAsked, Late
  <1>7. Phase'
    BY <1>2, <1>3 DEF Phase
  <1>8. Asking' /\ Sending'
    BY <1>2, States4 DEF Asking, Sending
  <1> QED BY <1>4, <1>5, <1>6, <1>7, <1>8 DEF AnswerInv

LEMMA DoneInv ==
  ASSUME AnswerInv, Done
  PROVE  AnswerInv'
  <1>1. /\ os.state = "Done" /\ io' = "Listening" /\ os' = OsInit
        /\ UNCHANGED <<req, fn, odata, usage, open, out, sent, announced, log>>
    BY DEF Done, Turn, wire, file, request
  <1>2. os.state \in Answering
    BY <1>1 DEF Answering
  <1>3. out' \in OutPieces
    BY <1>1 DEF AnswerInv, AnswerTypes
  <1> QED BY <1>1, <1>2, <1>3, EndInv

LEMMA DropInv ==
  ASSUME AnswerInv, Drop
  PROVE  AnswerInv'
  <1>1. /\ io = "WRITE" /\ io' = "Listening" /\ os' = OsInit /\ out' = NoOut
        /\ UNCHANGED <<req, fn, odata, usage, open, sent, announced, log>>
    BY DEF Drop, file, request
  <1>2. os.state \in Answering
    BY <1>1 DEF AnswerInv, Phase
  <1>3. out' \in OutPieces
    BY <1>1 DEF NoOut, OutPieces
  <1> QED BY <1>1, <1>2, <1>3, EndInv

\* More of the request comes in.
LEMMA ReceiveInv ==
  ASSUME AnswerInv, NEW n \in 1 .. CbInput, Receive(n)
  PROVE  AnswerInv'
  <1>t. AnswerTypes /\ OsShape(os)
    BY DEF AnswerInv, AnswerTypes
  <1>1. /\ io = "READ" /\ io' = "CONTINUE" /\ os' = [os EXCEPT !.cbStream = n]
        /\ UNCHANGED <<req, fn, odata, usage, open, out, sent, announced, log>>
    BY DEF Receive, wire, file, request
  <1>2. /\ DOMAIN os' = DOMAIN OsInit /\ os'.state = os.state /\ os'.iOData = os.iOData
        /\ os'.nextChunk = os.nextChunk
    BY <1>t, <1>1, OsFields DEF OsShape
  <1>3. AnswerTypes'
    BY <1>t, <1>1, <1>2 DEF AnswerTypes, OsShape
  <1>c. Cmd' = Cmd /\ InFile' = InFile /\ HasRead' = HasRead
    BY <1>1 DEF Cmd, InFile, CbRead, HasRead
  <1>4. Reading' /\ Shape'
    BY <1>1, <1>2, <1>c DEF AnswerInv, Reading, Shape
  <1>5. Kept'
    BY <1>1 DEF AnswerInv, Kept, LogAsked, Late
  <1>6. Phase'
    <2>1. os.state # "Idle"
      BY <1>1 DEF AnswerInv, Phase
    <2> QED BY <1>1, <1>2, <1>c, <2>1 DEF AnswerInv, Phase
  <1>7. Asking'
    BY <1>1, <1>2 DEF AnswerInv, Asking, HasRead, First
  <1>8. Sending'
    <2>1. Begun' = Begun /\ ~Pending /\ ~Pending' /\ ~Counted /\ ~Counted' /\ cOData' = cOData
      BY <1>1, <1>2 DEF Begun, Pending, Counted, cOData
    <2>2. SentTo' = SentTo
      <3>1. \A m : m = os.iOData - 1 => Sum(m)' = Sum(m)
        BY <1>1 DEF Sum
      <3> QED BY <1>1, <1>2, <2>1, <3>1 DEF SentTo
    <2>3. Sum(Len(odata))' = Sum(Len(odata))
      BY <1>1 DEF Sum
    <2> SUFFICES ASSUME os.state \in Answering
                 PROVE  Turned' /\ SentSoFar'
      BY <1>2 DEF Sending
    <2>4. Turned /\ SentSoFar
      BY DEF AnswerInv, Sending
    <2>5. Turned'
      BY <1>1, <1>2, <2>1, <2>4 DEF Turned
    <2>6. SentSoFar'
      BY <1>1, <1>2, <2>1, <2>2, <2>3, <2>4 DEF SentSoFar, Right, Late
    <2> QED BY <2>5, <2>6
  <1> QED BY <1>3, <1>4, <1>5, <1>6, <1>7, <1>8 DEF AnswerInv

\* The log moves on.
LEMMA LogStepInv ==
  ASSUME AnswerInv, UNCHANGED <<req, io, os, fn, odata, usage, open, out, sent, announced>>,
         log' \in [state : {"Running", "Stopped", "Finishing"}, csTotal : Nat, asked : Nat \cup {-1}],
         log'.asked = log.asked, log'.csTotal >= log.csTotal, Kept'
  PROVE  AnswerInv'
  <1>1. AnswerTypes'
    BY DEF AnswerInv, AnswerTypes
  <1>c. Cmd' = Cmd /\ InFile' = InFile /\ HasRead' = HasRead
    BY DEF Cmd, InFile, CbRead, HasRead
  <1>2. Reading' /\ Shape'
    BY <1>c DEF AnswerInv, Reading, Shape
  <1>3. Phase'
    BY <1>c DEF AnswerInv, Phase
  <1>4. Asking'
    BY DEF AnswerInv, Asking, HasRead, First
  <1>5. Sending'
    <2>1. Begun' = Begun /\ Pending' = Pending /\ cOData' = cOData
      BY DEF Begun, Pending, cOData
    <2>2. SentTo' = SentTo
      BY <2>1 DEF SentTo, Sum
    <2>3. Counted' = Counted
      BY <2>1 DEF Counted, Sum
    <2>4. Sum(Len(odata))' = Sum(Len(odata)) /\ O' = O
      BY DEF Sum, O
    <2>5. Turned' = Turned
      BY <2>1 DEF Turned
    <2>6. Late => Late'
      BY Params DEF AnswerInv, AnswerTypes, Late
    <2>7. SentSoFar => SentSoFar'
      BY <2>1, <2>2, <2>3, <2>4, <2>6 DEF SentSoFar, Right
    <2> QED BY <2>5, <2>7 DEF AnswerInv, Sending
  <1> QED BY <1>1, <1>2, <1>3, <1>4, <1>5 DEF AnswerInv

LEMMA ConvertInv ==
  ASSUME AnswerInv, Convert
  PROVE  AnswerInv'
  <1>1. /\ UNCHANGED <<req, io, os, fn, odata, usage, open, out, sent, announced>>
        /\ log.state # "Stopped" /\ log' = [log EXCEPT !.csTotal = @ + CActiveCh]
    BY DEF Convert, wire, file, request
  <1>2. /\ log.csTotal \in Nat /\ log.asked \in Nat \cup {-1} /\ log.state = "Running"
        /\ log.csTotal % CActiveCh = 0 /\ CActiveCh \in Nat \ {0} /\ CSVBUFF \in Nat
    BY <1>1, Params DEF AnswerInv, AnswerTypes, Kept
  <1>3. /\ log' \in [state : {"Running", "Stopped", "Finishing"}, csTotal : Nat, asked : Nat \cup {-1}]
        /\ log'.csTotal = log.csTotal + CActiveCh /\ log'.asked = log.asked /\ log'.state = log.state
    <2>1. PICK s \in Nat : s = log.csTotal + CActiveCh
      BY <1>2
    <2>2. log \in [state : {"Running", "Stopped", "Finishing"}, csTotal : Nat, asked : Nat \cup {-1}]
      BY DEF AnswerInv, AnswerTypes
    <2>3. log' = [log EXCEPT !.csTotal = s]
      BY <1>1, <2>1
    <2> QED BY <2>1, <2>2, <2>3
  <1>4. Kept'
    <2>1. log'.csTotal % CActiveCh = 0
      <3>1. PICK T \in Nat, C \in Nat \ {0} : T = log.csTotal /\ C = CActiveCh
        BY <1>2
      <3>2. T = C * (T \div C) + (T % C) /\ T \div C \in Nat /\ T % C = 0
        BY <1>2, <3>1, DivModIs
      <3>3. PICK q \in Nat : q = T \div C
        BY <3>2
      <3>4. T + C = C * (q + 1) + 0
        BY <3>2, <3>3
      <3>5. q + 1 \in Int /\ 0 \in 0 .. C - 1
        OBVIOUS
      <3>6. (C * (q + 1) + 0) % C = 0
        BY <3>5, RestIs
      <3> QED BY <1>3, <3>1, <3>4, <3>6
    <2>2. ASSUME LogAsked'
          PROVE  /\ odata'[1].at + odata'[1].cb <= log'.csTotal /\ odata'[1].cb <= CSVBUFF
                 /\ (~Late' => log'.csTotal <= odata'[1].at + CSVBUFF)
                 /\ log'.asked # -1
                 /\ (log'.state = "Running" => odata'[1].at + 7 * (CSVBUFF \div 8) >= log'.asked)
      <3>1. LogAsked /\ odata' = odata
        BY <1>1, <2>2 DEF LogAsked
      <3>2. /\ odata[1].at + odata[1].cb <= log.csTotal /\ odata[1].cb <= CSVBUFF
            /\ log.asked # -1 /\ odata[1].at + 7 * (CSVBUFF \div 8) >= log.asked
        BY <1>2, <3>1 DEF AnswerInv, Kept
      <3>3. odata[1].at \in Nat /\ odata[1].cb \in Nat
        <4>1. odata \in Seq(Answers) /\ odata # <<>>
          BY <3>1 DEF AnswerInv, AnswerTypes, LogAsked
        <4>2. odata[1] \in Answers
          BY <4>1
        <4> QED BY <4>2 DEF Answers
      <3>4. PICK e \in Nat : CSVBUFF \div 8 = e /\ CSVBUFF = 8 * e
        <4>1. PICK k \in Nat \ {0} : CSVBUFF = 8 * (CActiveCh * k) /\ CSVBUFF \div 8 = CActiveCh * k
          BY RingIs
        <4>2. CActiveCh * k \in Nat
          BY <1>2
        <4> QED BY <4>1, <4>2
      <3>5. ~Late' => log'.csTotal <= log.asked + e
        BY <1>2, <1>3, <3>2, <3>4 DEF Late
      <3>6. ~Late' => log'.csTotal <= odata[1].at + CSVBUFF
        BY <1>2, <1>3, <3>2, <3>3, <3>4, <3>5
      <3> QED BY <1>2, <1>3, <3>1, <3>2, <3>3, <3>6
    <2> QED BY <1>2, <1>3, <2>1, <2>2 DEF Kept
  <1> QED BY <1>1, <1>2, <1>3, <1>4, LogStepInv

LEMMA StopInv ==
  ASSUME AnswerInv, Stop, "finishing" \notin Faults
  PROVE  AnswerInv'
  <1>1. /\ UNCHANGED <<req, io, os, fn, odata, usage, open, out, sent, announced>>
        /\ log' = [log EXCEPT !.state = "Stopped"]
    BY DEF Stop, wire, file, request
  <1>2. /\ log' \in [state : {"Running", "Stopped", "Finishing"}, csTotal : Nat, asked : Nat \cup {-1}]
        /\ log'.csTotal = log.csTotal /\ log'.asked = log.asked /\ log'.state = "Stopped" /\ log.csTotal \in Nat
    BY <1>1 DEF AnswerInv, AnswerTypes
  <1>3. Kept'
    BY <1>1, <1>2 DEF AnswerInv, Kept, LogAsked, Late
  <1> QED BY <1>1, <1>2, <1>3, LogStepInv

LEMMA ListenInv ==
  ASSUME AnswerInv, NEW r \in Requests, Listen(r), LogFirst(r.cmds)
  PROVE  AnswerInv'
  <1>1. /\ io' = "CONTINUE" /\ fn' = [i |-> 1, at |-> "Idle"] /\ odata' = <<>> /\ req' = r.cmds
        /\ out' = NoOut /\ sent' = <<>> /\ announced' = 0
        /\ log' = [log EXCEPT !.asked = -1] /\ UNCHANGED <<usage, open>>
    BY DEF Listen, file
  <1>2. OsShape(os') /\ os'.state \in {"ReadCount", "ParseJSON"}
    <2>1. os' = [OsInit EXCEPT !.cbStream = 1, !.nextChunk = "ParseJSON",
                               !.state = IF r.bin = 0 THEN "ParseJSON" ELSE "ReadCount"]
      BY DEF Listen
    <2> QED BY <2>1 DEF OsShape, OsInit, States, NextStates, Parsing
  <1>3. /\ log' \in [state : {"Running", "Stopped", "Finishing"}, csTotal : Nat, asked : Nat \cup {-1}]
        /\ log'.csTotal = log.csTotal /\ log'.asked = -1 /\ log'.state = log.state
    BY <1>1 DEF AnswerInv, AnswerTypes
  <1>4. /\ odata' \in Seq(Answers) /\ sent' \in Seq({"file", "log"} \X Int)
        /\ out' \in OutPieces /\ req' \in Seq(Commands)
    BY <1>1, Params DEF NoOut, OutPieces
  <1>5. AnswerTypes'
    BY <1>1, <1>2, <1>3, <1>4 DEF AnswerInv, AnswerTypes
  <1>6. DOMAIN odata' = {} /\ ~HasRead' /\ Len(odata') = 0
    BY <1>1 DEF HasRead
  <1>7. Reading' /\ Shape'
    BY <1>1, <1>6 DEF Reading, Shape
  <1>8. Kept'
    BY <1>1, <1>3 DEF AnswerInv, Kept, LogAsked, Late
  <1>9. Phase'
    BY <1>1, <1>2 DEF Phase
  <1>10. Asking'
    BY <1>1, <1>3, <1>6 DEF Asking
  <1>11. Sending'
    BY <1>2 DEF Sending, Answering
  <1> QED BY <1>5, <1>7, <1>8, <1>9, <1>10, <1>11 DEF AnswerInv

LEMMA InitInv == RequestInit => AnswerInv
  <1> SUFFICES ASSUME RequestInit
               PROVE  AnswerInv
    OBVIOUS
  <1>1. /\ req = <<>> /\ io = "Listening" /\ os = OsInit /\ fn = [i |-> 1, at |-> "Idle"] /\ odata = <<>>
        /\ usage = [d \in {"WRITING", "READING"} |-> NoFile] /\ open = [d \in DOMAIN usage |-> FALSE]
        /\ out = NoOut /\ sent = <<>> /\ announced = 0
        /\ log = [state |-> "Running", csTotal |-> 0, asked |-> -1]
    BY DEF RequestInit
  <1>2. OsShape(os) /\ os.state = "Idle"
    BY <1>1 DEF OsShape, OsInit, States, NextStates
  <1>3. AnswerTypes
    <2>1. /\ req \in Seq(Commands) /\ odata \in Seq(Answers) /\ sent \in Seq({"file", "log"} \X Int)
          /\ out \in OutPieces /\ LogFirst(req)
      BY <1>1 DEF NoOut, OutPieces, LogFirst
    <2>2. usage \in [Kinds -> Paths \cup {NoFile}] /\ open \in [Kinds -> BOOLEAN]
      BY <1>1 DEF Kinds
    <2> QED BY <1>1, <1>2, <2>1, <2>2 DEF AnswerTypes
  <1>4. Reading /\ Shape
    BY <1>1 DEF Reading, Shape
  <1>5. Kept
    <2>1. 0 % CActiveCh = 0
      BY Params
    <2> QED BY <1>1, <2>1 DEF Kept, LogAsked
  <1>6. Phase
    BY <1>1, <1>2 DEF Phase
  <1>7. Asking /\ Sending
    BY <1>2, States4 DEF Asking, Sending
  <1> QED BY <1>3, <1>4, <1>5, <1>6, <1>7 DEF AnswerInv

LEMMA StillInv ==
  ASSUME AnswerInv, UNCHANGED requestVars
  PROVE  AnswerInv'
  <1>1. UNCHANGED <<req, io, os, fn, odata, usage, open, out, sent, announced, log>>
    BY DEF requestVars
  <1>2. Kept'
    BY <1>1 DEF AnswerInv, Kept, LogAsked, Late
  <1>3. /\ log' \in [state : {"Running", "Stopped", "Finishing"}, csTotal : Nat, asked : Nat \cup {-1}]
        /\ log'.csTotal >= log.csTotal
    BY <1>1 DEF AnswerInv, AnswerTypes
  <1> QED BY <1>1, <1>2, <1>3, LogStepInv

-----------------------------------------------------------------------------
(* What goes out.                                                          *)

LEMMA SampleInt == \A p : Sample(p) \in Int
  <1> SUFFICES ASSUME NEW p
               PROVE  Sample(p) \in Int
    OBVIOUS
  <1>1. CASE InRing(p) = {}
    BY <1>1 DEF Sample
  <1>2. CASE InRing(p) # {}
    <2>1. Sample(p) \in InRing(p)
      BY <1>2 DEF Sample
    <2> QED BY <2>1 DEF InRing
  <1> QED BY <1>1, <1>2

\* A piece that is on its way is the next part of what was promised.
LEMMA PartIs ==
  ASSUME AnswerInv, Pending, NEW j \in 1 .. out.cb, NEW k, k = Len(sent) + j
  PROVE  Right(IF out.what = "file" THEN <<"file", out.at + j>> ELSE <<"log", Sample(out.at + j - 1)>>,
               IF k <= odata[1].cb THEN Item(odata[1], k) ELSE Item(odata[2], k - odata[1].cb))
  <1>t. AnswerTypes /\ Shape
    BY DEF AnswerInv
  <1>0. os.state \in Answering /\ Turned /\ SentSoFar
    BY DEF AnswerInv, Pending, Phase, Sending
  <1>1. /\ Begun /\ Len(sent) + out.cb = SentTo /\ out.cb <= O.iOut
        /\ (out.what = "file" <=> O.do = "read") /\ out.what \in {"file", "log"}
        /\ (out.what = "file" => out.at = O.at + O.iOut - out.cb)
        /\ (out.what = "log" => out.at = (O.at + O.iOut - out.cb) % CSVBUFF /\ out.at + out.cb <= CSVBUFF)
    BY <1>0 DEF SentSoFar, Pending
  <1>2. /\ Len(odata) \in {0, 1, 2} /\ DOMAIN odata = 1 .. Len(odata) /\ os.iOData \in Nat
        /\ (\A i \in DOMAIN odata : /\ odata[i].cb \in Nat /\ odata[i].iOut \in Nat
                                    /\ odata[i].at \in Nat /\ odata[i].do \in {"read", "log"})
    BY <1>t, TwoAnswers
  <1>3. /\ os.iOData \in {1, 2} /\ os.iOData \in DOMAIN odata /\ O = odata[os.iOData] /\ 1 \in DOMAIN odata
        /\ (os.iOData = 2 => 2 \in DOMAIN odata)
    BY <1>0, <1>1, <1>2 DEF Begun, Turned, O
  <1>4. /\ O.cb \in Nat /\ O.iOut \in Nat /\ O.at \in Nat /\ O.do \in {"read", "log"} /\ O.iOut <= O.cb
        /\ (O.do = "log" => os.iOData = 1)
    BY <1>t, <1>2, <1>3 DEF Shape
  <1>5. out.cb \in Nat /\ out.at \in Nat /\ Len(sent) \in Nat /\ CSVBUFF \in Nat \ {0} /\ log.csTotal \in Nat
    BY <1>t, Params DEF AnswerTypes, OutPieces
  <1>n. PICK at \in Nat, cb \in Nat, iOut \in Nat, n \in Nat, a \in Nat, l \in Nat, N \in Nat \ {0} :
               /\ at = O.at /\ cb = O.cb /\ iOut = O.iOut /\ n = out.cb /\ a = out.at /\ l = Len(sent)
               /\ N = CSVBUFF
    BY <1>4, <1>5
  <1>6. PICK b \in Nat : b = IF os.iOData = 1 THEN 0 ELSE odata[1].cb
    BY <1>2, <1>3
  <1>7. l + n = b + iOut
    <2>1. \A x : x = os.iOData - 1 => Sum(x) = b
      BY <1>3, <1>6 DEF Sum
    <2>2. SentTo = b + O.iOut
      BY <1>1, <1>3, <2>1 DEF SentTo, Begun
    <2> QED BY <1>1, <1>n, <2>2
  <1>8. PICK f \in Nat : f + n = iOut /\ k = b + f + j /\ f + j \in 1 .. cb /\ k \in Nat
    <2>1. j \in 1 .. n /\ n <= iOut /\ iOut <= cb /\ k = l + j
      BY <1>1, <1>4, <1>n
    <2>2. PICK f \in Nat : f = iOut - n
      BY <2>1
    <2> QED BY <1>7, <2>1, <2>2
  <1>9. (IF k <= odata[1].cb THEN Item(odata[1], k) ELSE Item(odata[2], k - odata[1].cb)) = Item(O, f + j)
    <2>1. CASE os.iOData = 1
      <3>1. b = 0 /\ cb = odata[1].cb
        BY <1>3, <1>6, <1>n, <2>1
      <3>2. k = f + j /\ k <= cb
        BY <1>8, <3>1
      <3> QED BY <1>3, <2>1, <3>1, <3>2
    <2>2. CASE os.iOData = 2
      <3>1. b = odata[1].cb
        BY <1>6, <2>2
      <3>2. ~(k <= odata[1].cb) /\ k - odata[1].cb = f + j
        BY <1>8, <3>1
      <3> QED BY <1>3, <2>2, <3>2
    <2> QED BY <1>3, <2>1, <2>2
  <1>j. j \in 1 .. n
    BY <1>n
  <1>10. CASE out.what = "file"
    <2>1. Item(O, f + j) = <<"file", at + (f + j)>>
      BY <1>1, <1>10, <1>n DEF Item
    <2>2. a = at + iOut - n
      BY <1>1, <1>10, <1>n
    <2>3. out.at + j = at + (f + j)
      <3>1. a + j = at + (f + j)
        BY <1>8, <1>j, <2>2
      <3> QED BY <1>n, <3>1
    <2> QED BY <1>9, <1>10, <2>1, <2>3 DEF Right
  <1>11. CASE out.what = "log"
    <2>0. O.do = "log"
      BY <1>1, <1>4, <1>11
    <2>1. Item(O, f + j) = <<"log", at + (f + j) - 1>> /\ os.iOData = 1
      BY <1>4, <1>n, <2>0 DEF Item
    <2>2. PICK m \in Nat, x \in Nat : m = j - 1 /\ x = at + f
      BY <1>j
    <2>3. x + m = at + (f + j) - 1 /\ m < n /\ f + j = f + m + 1
      BY <1>8, <1>j, <2>2
    <2>4. x % N = a /\ a + n <= N
      <3>1. x = at + iOut - n
        BY <1>8, <2>2
      <3>2. a = (at + iOut - n) % N /\ a + n <= N
        BY <1>1, <1>11, <1>n
      <3> QED BY <3>1, <3>2
    <2>5. (x + m) % N = a + m
      <3>1. (x % N) + m < 2 * N /\ ~((x % N) + m >= N)
        BY <2>3, <2>4
      <3> QED BY <2>4, <3>1, PlaceOn
    <2>6. x + m < log.csTotal /\ (~Late => (x + m) + N >= log.csTotal)
      <3>1. LogAsked
        <4>1. io # "Listening"
          BY DEF Pending
        <4>2. odata # <<>> /\ odata[1].do = "log"
          BY <1>3, <2>0, <2>1
        <4> QED BY <4>1, <4>2 DEF LogAsked
      <3>2. O.at + O.cb <= log.csTotal /\ (~Late => log.csTotal <= O.at + CSVBUFF)
        BY <1>3, <2>1, <3>1 DEF AnswerInv, Kept
      <3>3. PICK T \in Nat : T = log.csTotal
        BY <1>5
      <3>4. at + cb <= T /\ (~Late => T <= at + N)
        BY <1>n, <3>2, <3>3
      <3>5. f + m + 1 <= cb
        BY <1>8, <2>3
      <3> QED BY <2>2, <3>3, <3>4, <3>5
    <2>7. PICK y \in Nat : y = x + m
      OBVIOUS
    <2>8. y < log.csTotal /\ (~Late => y + CSVBUFF >= log.csTotal)
      BY <1>n, <2>6, <2>7
    <2>9. Sample(y % CSVBUFF) = y \/ (Late /\ Sample(y % CSVBUFF) > y)
      <3>1. CASE Late
        <4>1. Sample(y % CSVBUFF) \in Int /\ Sample(y % CSVBUFF) >= y
          BY <1>t, <2>8, LatestIs
        <4> QED BY <3>1, <4>1
      <3>2. CASE ~Late
        BY <1>t, <2>8, <3>2, SampleIs
      <3> QED BY <3>1, <3>2
    <2>10. out.at + j - 1 = y % CSVBUFF
      BY <1>j, <1>n, <2>2, <2>5, <2>7
    <2>11. Item(O, f + j) = <<"log", y>>
      BY <2>1, <2>3, <2>7
    <2>12. Right(<<"log", Sample(out.at + j - 1)>>, Item(O, f + j))
      BY <2>9, <2>10, <2>11 DEF Right
    <2> QED BY <1>9, <1>11, <2>12
  <1> QED BY <1>1, <1>10, <1>11

LEMMA FunctionIsSeq ==
  ASSUME NEW S, NEW n \in Nat, NEW f \in [1 .. n -> S]
  PROVE  f \in Seq(S) /\ Len(f) = n
  BY SeqDef, LenProperties

LEMMA TransmitInv ==
  ASSUME AnswerInv, Transmit
  PROVE  AnswerInv'
  <1>t. AnswerTypes /\ Shape /\ OsShape(os)
    BY DEF AnswerInv, AnswerTypes
  <1>1. /\ io = "WRITE" /\ io' = "CONTINUE" /\ out' = NoOut
        /\ UNCHANGED <<req, os, fn, odata, usage, open, log>>
    BY DEF Transmit, file, request
  <1>2. os.state \in Answering /\ Turned /\ SentSoFar
    BY <1>1 DEF AnswerInv, Phase, Sending
  <1>s. SameData /\ cOData' = cOData
    BY <1>t, <1>1, SamePieces, SameSums
  <1>3. ~Pending' /\ ~Counted' /\ Begun' = Begun /\ out' \in OutPieces
    BY <1>1 DEF Pending, Counted, Begun, NoOut, OutPieces
  <1>4. SentTo' = SentTo /\ Sum(Len(odata))' = Sum(Len(odata))
    <2>1. \A m : m = os.iOData - 1 => Sum(m)' = Sum(m)
      BY <1>1 DEF Sum
    <2>2. Sum(Len(odata))' = Sum(Len(odata))
      BY <1>1 DEF Sum
    <2> QED BY <1>1, <1>3, <2>1, <2>2 DEF SentTo
  <1>5. announced' \in Nat
        /\ (odata # <<>> /\ (Begun \/ os.iOData >= 2) => announced' = Sum(Len(odata)))
    <2>1. CASE out.what = "count"
      <3>1. announced' = out.cb
        BY <2>1 DEF Transmit
      <3>2. Counted
        BY <1>1, <1>2, <2>1 DEF SentSoFar
      <3> QED BY <1>t, <3>1, <3>2 DEF Counted, AnswerTypes, OutPieces
    <2>2. CASE out.what # "count"
      <3>1. announced' = announced
        BY <2>2 DEF Transmit
      <3>2. ~Counted
        BY <2>2 DEF Counted
      <3> QED BY <1>t, <1>2, <3>1, <3>2 DEF SentSoFar, AnswerTypes
    <2> QED BY <2>1, <2>2
  <1>6. /\ sent' \in Seq({"file", "log"} \X Int) /\ Len(sent') = SentTo
        /\ \A k \in 1 .. Len(sent') :
             Right(sent'[k], IF k <= odata[1].cb THEN Item(odata[1], k) ELSE Item(odata[2], k - odata[1].cb))
    <2>0. sent \in Seq({"file", "log"} \X Int) /\ Len(sent) \in Nat /\ out.cb \in Nat /\ out.at \in Nat
      BY <1>t DEF AnswerTypes, OutPieces
    <2>k. \A k \in 1 .. Len(sent) :
             Right(sent[k], IF k <= odata[1].cb THEN Item(odata[1], k) ELSE Item(odata[2], k - odata[1].cb))
      BY <1>2 DEF SentSoFar
    <2>1. CASE ~Pending
      <3>1. sent' = sent
        BY <1>1, <2>1 DEF Transmit, Pending
      <3>2. Len(sent) = SentTo
        BY <1>2, <2>1 DEF SentSoFar
      <3> QED BY <2>0, <2>k, <3>1, <3>2
    <2>2. CASE Pending
      <3> DEFINE part == [i \in 1 .. out.cb |-> IF out.what = "file" THEN <<"file", out.at + i>>
                                                ELSE <<"log", Sample(out.at + i - 1)>>]
      <3>1. sent' = sent \o part
        <4>1. CASE out.what = "file"
          BY <4>1 DEF Transmit
        <4>2. CASE out.what = "log"
          BY <4>2 DEF Transmit
        <4> QED BY <2>2, <4>1, <4>2 DEF Pending
      <3>2. \A i \in 1 .. out.cb : part[i] \in {"file", "log"} \X Int
        <4>1. \A i \in 1 .. out.cb : out.at + i \in Int /\ Sample(out.at + i - 1) \in Int
          BY <2>0, SampleInt
        <4> QED BY <4>1
      <3>3. part \in Seq({"file", "log"} \X Int) /\ Len(part) = out.cb
        <4>1. part \in [1 .. out.cb -> {"file", "log"} \X Int]
          BY <3>2
        <4> HIDE DEF part
        <4> QED BY <2>0, <4>1, FunctionIsSeq
      <3>4. \A j \in 1 .. out.cb : \A k : k = Len(sent) + j =>
              Right(part[j], IF k <= odata[1].cb THEN Item(odata[1], k) ELSE Item(odata[2], k - odata[1].cb))
        BY <2>2, PartIs
      <3> HIDE DEF part
      <3>5. sent' \in Seq({"file", "log"} \X Int) /\ Len(sent') = Len(sent) + out.cb
        BY <2>0, <3>1, <3>3, ConcatProperties
      <3>6. Len(sent') = SentTo
        BY <1>2, <2>2, <3>5 DEF SentSoFar
      <3>7. \A k \in 1 .. Len(sent') :
              sent'[k] = IF k <= Len(sent) THEN sent[k] ELSE part[k - Len(sent)]
        BY <2>0, <3>1, <3>3, ConcatProperties
      <3>8. ASSUME NEW k \in 1 .. Len(sent')
            PROVE  Right(sent'[k], IF k <= odata[1].cb THEN Item(odata[1], k) ELSE Item(odata[2], k - odata[1].cb))
        <4>1. CASE k <= Len(sent)
          <5>1. sent'[k] = sent[k] /\ k \in 1 .. Len(sent)
            BY <2>0, <3>7, <4>1
          <5> QED BY <2>k, <5>1
        <4>2. CASE ~(k <= Len(sent))
          <5>0. PICK l \in Nat, n \in Nat : l = Len(sent) /\ n = out.cb
            BY <2>0
          <5>n. k \in 1 .. l + n /\ ~(k <= l)
            BY <3>5, <4>2, <5>0
          <5>j. PICK j \in Nat : j = k - l
            BY <5>n
          <5>1. j \in 1 .. out.cb /\ k = Len(sent) + j /\ j = k - Len(sent)
            BY <5>0, <5>n, <5>j
          <5>2. sent'[k] = part[j]
            BY <3>7, <4>2, <5>1
          <5> QED BY <3>4, <5>1, <5>2
        <4> QED BY <4>1, <4>2
      <3> QED BY <3>5, <3>6, <3>8
    <2> QED BY <2>1, <2>2
  <1>7. SentSoFar'
    BY <1>1, <1>3, <1>4, <1>5, <1>6 DEF SentSoFar, Item, Right, Late
  <1>8. Turned'
    BY <1>1, <1>2, <1>3, <1>s DEF Turned
  <1>9. AnswerStep
    BY <1>t, <1>1, <1>2, <1>3, <1>5, <1>6, <1>s DEF AnswerStep, AnswerTypes
  <1> QED BY <1>7, <1>8, <1>9, AnsweringInv

-----------------------------------------------------------------------------
(* The whole.                                                              *)

LEMMA NextInv ==
  ASSUME AnswerInv, RequestNext, {"read", "finishing"} \cap Faults = {}, \A r \in Requests : LogFirst(r.cmds)
  PROVE  AnswerInv'
  <1>0. AnswerTypes /\ Reading /\ "read" \notin Faults /\ "finishing" \notin Faults
    BY DEF AnswerInv
  <1>1. CASE ReadCount
    BY <1>0, <1>1, ReadsCount, ParseInv
  <1>2. CASE JsonDone \/ SyntaxError \/ ReadNextBinary \/ SkipBinary \/ WriteFile \/ WriteFileClose \/ WriteFileDone
    BY <1>0, <1>2, Parses, ParseInv
  <1>3. CASE SetUsage
    BY <1>3, SetUsageStep, CommandInv
  <1>4. CASE OpenFile
    BY <1>4, OpenFileStep, CommandInv
  <1>5. CASE CloseFile
    BY <1>5, CloseFileStep, CommandInv
  <1>6. CASE SeekFile
    BY <1>6, SeekFileInv
  <1>7. CASE LogRead
    BY <1>7, LogReadInv
  <1>8. CASE OutputJSON
    BY <1>8, OutputJSONInv
  <1>9. CASE WriteChunkSize
    BY <1>9, WriteChunkSizeInv
  <1>10. CASE WriteJSONResp
    BY <1>10, WriteJSONRespInv
  <1>11. CASE ReadFile
    BY <1>0, <1>11, ReadFileInv
  <1>12. CASE ReadFileClose
    BY <1>12, ReadFileCloseInv
  <1>13. CASE ReadFileDone
    BY <1>13, ReadFileDoneInv
  <1>14. CASE ReadVoltageLog
    BY <1>14, ReadVoltageLogInv
  <1>15. CASE Done
    BY <1>15, DoneInv
  <1>16. CASE Client
    BY <1>16, TransmitInv, ReceiveInv DEF Client
  <1>17. CASE Drop
    BY <1>17, DropInv
  <1>18. CASE Convert
    BY <1>18, ConvertInv
  <1>19. CASE Stop
    BY <1>0, <1>19, StopInv
  <1>20. CASE \E r \in Requests : Listen(r)
    BY <1>20, ListenInv
  <1> QED BY <1>1, <1>2, <1>3, <1>4, <1>5, <1>6, <1>7, <1>8, <1>9, <1>10, <1>11, <1>12, <1>13, <1>14, <1>15,
             <1>16, <1>17, <1>18, <1>19, <1>20 DEF RequestNext, StreamOS

\* s[i] is the first i of the pieces p, one after the other.
IsJoined(s, p, N) == s = [i \in 0 .. N |-> IF i = 0 THEN <<>> ELSE s[i - 1] \o p[i]]

LEMMA JoinedOfTwo ==
  ASSUME NEW N \in {1, 2}, NEW p
  PROVE  /\ \E s : IsJoined(s, p, N)
         /\ \A s : IsJoined(s, p, N) => /\ s[0] = <<>> /\ s[1] = <<>> \o p[1]
                                        /\ (N = 2 => s[2] = (<<>> \o p[1]) \o p[2])
  <1>1. PICK b : b = <<>> \o p[1]
    OBVIOUS
  <1>2. PICK c : c = b \o p[2]
    OBVIOUS
  <1> DEFINE v == [i \in 0 .. N |-> IF i = 0 THEN <<>> ELSE IF i = 1 THEN b ELSE c]
  <1>3. \A i \in 0 .. N : i = 0 \/ i = 1 \/ i = 2
    OBVIOUS
  <1>4. 0 \in 0 .. N /\ 1 \in 0 .. N
    OBVIOUS
  <1>5. v[0] = <<>> /\ v[1] = b
    BY <1>4
  <1>6. ASSUME NEW i \in 0 .. N
        PROVE  v[i] = IF i = 0 THEN <<>> ELSE v[i - 1] \o p[i]
    <2>1. CASE i = 0
      BY <1>5, <2>1
    <2>2. CASE i = 1
      <3>1. v[i] = b /\ i - 1 = 0
        BY <1>5, <2>2
      <3> HIDE DEF v
      <3> QED BY <1>1, <1>5, <2>2, <3>1
    <2>3. CASE i = 2
      <3>1. v[i] = c /\ i - 1 = 1
        BY <2>3
      <3> HIDE DEF v
      <3> QED BY <1>2, <1>5, <2>3, <3>1
    <2> QED BY <1>3, <2>1, <2>2, <2>3
  <1>7. IsJoined(v, p, N)
    <2>1. v = [i \in 0 .. N |-> v[i]]
      OBVIOUS
    <2> HIDE DEF v
    <2>2. [i \in 0 .. N |-> v[i]] = [i \in 0 .. N |-> IF i = 0 THEN <<>> ELSE v[i - 1] \o p[i]]
      BY <1>6
    <2> QED BY <2>1, <2>2 DEF IsJoined
  <1>8. ASSUME NEW s, IsJoined(s, p, N)
        PROVE  /\ s[0] = <<>> /\ s[1] = <<>> \o p[1]
               /\ (N = 2 => s[2] = (<<>> \o p[1]) \o p[2])
    <2>1. \A i \in 0 .. N : s[i] = IF i = 0 THEN <<>> ELSE s[i - 1] \o p[i]
      BY <1>8 DEF IsJoined
    <2>2. s[0] = <<>> /\ s[1] = s[0] \o p[1]
      <3>1. s[0] = <<>>
        BY <1>4, <2>1
      <3>2. \A i \in 0 .. N : i = 1 => s[i] = s[i - 1] \o p[i] /\ i - 1 = 0
        <4>1. ASSUME NEW i \in 0 .. N, i = 1
              PROVE  s[i] = s[i - 1] \o p[i] /\ i - 1 = 0
          <5>1. i # 0 /\ i - 1 = 0
            BY <4>1
          <5>2. s[i] = IF i = 0 THEN <<>> ELSE s[i - 1] \o p[i]
            BY <2>1
          <5> QED BY <5>1, <5>2, Zenon
        <4> QED BY <4>1
      <3> QED BY <1>4, <3>1, <3>2
    <2>3. N = 2 => s[2] = s[1] \o p[2]
      <3>1. N = 2 => 2 \in 0 .. N /\ 2 - 1 = 1 /\ 2 # 0
        OBVIOUS
      <3>2. N = 2 => s[2] = s[2 - 1] \o p[2]
        BY <2>1, <3>1
      <3> QED BY <3>1, <3>2
    <2> QED BY <2>2, <2>3
  <1> QED BY <1>7, <1>8

Parts == [i \in 1 .. Len(odata) |-> Promised(odata[i])]

LEMMA PromisedIs ==
  ASSUME NEW o \in Answers
  PROVE  /\ Promised(o) \in Seq({"file", "log"} \X Int) /\ Len(Promised(o)) = o.cb /\ o.cb \in Nat
         /\ \A i \in 1 .. o.cb : Promised(o)[i] = Item(o, i)
  <1>1. o.cb \in Nat /\ o.at \in Nat /\ o.do \in {"read", "log"}
    BY DEF Answers
  <1>2. \A i \in 1 .. o.cb : Item(o, i) \in {"file", "log"} \X Int
    BY <1>1 DEF Item
  <1>3. Promised(o) = [i \in 1 .. o.cb |-> Item(o, i)]
    BY DEF Promised, Item
  <1>4. Promised(o) \in [1 .. o.cb -> {"file", "log"} \X Int]
    BY <1>2, <1>3
  <1>5. Promised(o) \in Seq({"file", "log"} \X Int) /\ Len(Promised(o)) = o.cb
    <2>0. PICK f : f = Promised(o)
      OBVIOUS
    <2>1. PICK n \in Nat : n = o.cb /\ f = Promised(o)
      BY <1>1, <2>0
    <2>2. f \in [1 .. n -> {"file", "log"} \X Int]
      BY <1>4, <2>1
    <2>3. f \in Seq({"file", "log"} \X Int) /\ Len(f) = n
      BY <2>2, FunctionIsSeq
    <2> QED BY <2>1, <2>3
  <1> QED BY <1>1, <1>3, <1>5

\* The answer is whole when it is done.
LEMMA AnswerDone ==
  ASSUME AnswerInv
  PROVE  AnswerWhole
  <1>t. AnswerTypes /\ Shape
    BY DEF AnswerInv
  <1> DEFINE W(s) == s = [i \in 0 .. Len(odata) |-> IF i = 0 THEN <<>> ELSE s[i - 1] \o Promised(odata[i])]
             S == CHOOSE s : W(s)
  <1>1. AnswerWhole <=> (os.state = "Done" /\ Len(odata) > 0 =>
                           /\ Len(sent) = Len(S[Len(odata)]) /\ announced = Len(sent)
                           /\ \A k \in 1 .. Len(sent) : Right(sent[k], S[Len(odata)][k])
                           /\ \A i \in DOMAIN odata : odata[i].offset = Len(S[i - 1]))
    BY DEF AnswerWhole
  <1> SUFFICES ASSUME os.state = "Done", Len(odata) > 0
               PROVE  /\ Len(sent) = Len(S[Len(odata)]) /\ announced = Len(sent)
                      /\ \A k \in 1 .. Len(sent) : Right(sent[k], S[Len(odata)][k])
                      /\ \A i \in DOMAIN odata : odata[i].offset = Len(S[i - 1])
    BY <1>1
  <1>2. /\ Len(odata) \in {1, 2} /\ DOMAIN odata = 1 .. Len(odata) /\ cOData = Len(odata) + 1
        /\ (\A i \in DOMAIN odata : odata[i] \in Answers /\ odata[i].cb \in Nat)
        /\ odata # <<>> /\ os.iOData \in Nat /\ 1 \in DOMAIN odata
    BY <1>t, TwoAnswers
  <1>3. W(S)
    <2>1. \A i \in 0 .. Len(odata) : i # 0 => Parts[i] = Promised(odata[i])
      BY <1>2 DEF Parts
    <2>2. \A s : IsJoined(s, Parts, Len(odata)) <=> W(s)
      BY <2>1 DEF IsJoined
    <2>3. \E s : W(s)
      <3>0. PICK p : p = Parts
        OBVIOUS
      <3>1. PICK n \in {1, 2} : n = Len(odata) /\ p = Parts
        BY <1>2, <3>0
      <3>2. \E s : IsJoined(s, p, n)
        BY JoinedOfTwo
      <3> HIDE DEF W
      <3> QED BY <2>2, <3>1, <3>2
    <2> HIDE DEF W
    <2> QED BY <2>3
  <1>4. /\ S[0] = <<>> /\ S[1] = <<>> \o Promised(odata[1])
        /\ (Len(odata) = 2 => S[2] = (<<>> \o Promised(odata[1])) \o Promised(odata[2]))
    <2>1. \A i \in 0 .. Len(odata) : i # 0 => Parts[i] = Promised(odata[i])
      BY <1>2 DEF Parts
    <2>2. \A s : IsJoined(s, Parts, Len(odata)) <=> W(s)
      BY <2>1 DEF IsJoined
    <2>3. IsJoined(S, Parts, Len(odata))
      <3> HIDE DEF S, W
      <3> QED BY <1>3, <2>2
    <2>4. Parts[1] = Promised(odata[1]) /\ (Len(odata) = 2 => Parts[2] = Promised(odata[2]))
      BY <1>2, <2>1
    <2> HIDE DEF S, W
    <2>p. PICK p, s : p = Parts /\ s = S
      OBVIOUS
    <2>5. PICK n \in {1, 2} : n = Len(odata) /\ p = Parts /\ s = S
      BY <1>2, <2>p
    <2>6. s[0] = <<>> /\ s[1] = <<>> \o p[1] /\ (n = 2 => s[2] = (<<>> \o p[1]) \o p[2])
      <3>1. IsJoined(s, p, n)
        BY <2>3, <2>5
      <3> QED BY <3>1, JoinedOfTwo
    <2> QED BY <2>4, <2>5, <2>6
  <1> HIDE DEF S, W
  <1>5. /\ ~Begun /\ ~Pending /\ ~Counted /\ os.iOData = Len(odata) + 1 /\ os.iOData >= 2
        /\ Turned /\ SentSoFar
    <2>1. Turned /\ SentSoFar /\ ~Begun
      BY DEF AnswerInv, Sending, Answering, Begun
    <2>2. ~Pending /\ ~Counted
      BY <2>1 DEF SentSoFar, Counted
    <2> QED BY <1>2, <2>1, <2>2 DEF Turned
  <1>6. Len(sent) = Sum(Len(odata)) /\ announced = Sum(Len(odata))
    <2>1. announced = Sum(Len(odata))
      BY <1>2, <1>5 DEF SentSoFar
    <2>2. Len(sent) = SentTo
      BY <1>5 DEF SentSoFar
    <2>3. os.iOData - 1 = Len(odata) /\ os.iOData # 0
      BY <1>2, <1>5
    <2>4. SentTo = Sum(Len(odata))
      BY <1>5, <2>3 DEF SentTo
    <2> QED BY <2>1, <2>2, <2>4
  <1>7. \A k \in 1 .. Len(sent) :
          Right(sent[k], IF k <= odata[1].cb THEN Item(odata[1], k) ELSE Item(odata[2], k - odata[1].cb))
    BY <1>5 DEF SentSoFar
  <1>8. sent \in Seq({"file", "log"} \X Int)
    BY <1>t DEF AnswerTypes
  <1>9. /\ Promised(odata[1]) \in Seq({"file", "log"} \X Int) /\ Len(Promised(odata[1])) = odata[1].cb
        /\ (\A i \in 1 .. odata[1].cb : Promised(odata[1])[i] = Item(odata[1], i)) /\ odata[1].cb \in Nat
    BY <1>2, PromisedIs
  <1>10. S[1] = Promised(odata[1])
    BY <1>4, <1>9, ConcatEmptySeq
  <1>11. Len(S[0]) = 0 /\ Len(S[1]) = odata[1].cb
    BY <1>4, <1>9, <1>10
  <1>12. \A i \in DOMAIN odata : odata[i].offset = Len(S[i - 1])
    <2>1. ASSUME NEW i \in DOMAIN odata
          PROVE  odata[i].offset = Len(S[i - 1])
      <3>1. odata[i].offset = IF i = 1 THEN 0 ELSE odata[1].cb
        BY <1>t DEF Shape
      <3>2. (i = 1 /\ i - 1 = 0) \/ (i = 2 /\ i - 1 = 1)
        BY <1>2
      <3> QED BY <1>11, <3>1, <3>2
    <2> QED BY <2>1
  <1>13. Len(sent) = Len(S[Len(odata)]) /\ \A k \in 1 .. Len(sent) : Right(sent[k], S[Len(odata)][k])
    <2>1. CASE Len(odata) = 1
      <3>1. Len(sent) = odata[1].cb
        BY <1>6, <2>1 DEF Sum
      <3>2. \A k \in 1 .. Len(sent) : Right(sent[k], Promised(odata[1])[k])
        BY <1>7, <1>9, <3>1
      <3> QED BY <1>9, <1>10, <2>1, <3>1, <3>2
    <2>2. CASE Len(odata) = 2
      <3>1. Len(sent) = odata[1].cb + odata[2].cb
        BY <1>6, <2>2 DEF Sum
      <3>2. 2 \in DOMAIN odata
        BY <1>2, <2>2
      <3>3. /\ Promised(odata[2]) \in Seq({"file", "log"} \X Int) /\ Len(Promised(odata[2])) = odata[2].cb
            /\ (\A i \in 1 .. odata[2].cb : Promised(odata[2])[i] = Item(odata[2], i)) /\ odata[2].cb \in Nat
        BY <1>2, <3>2, PromisedIs
      <3>4. S[2] = Promised(odata[1]) \o Promised(odata[2])
        BY <1>4, <1>10, <2>2
      <3>5. /\ S[2] \in Seq({"file", "log"} \X Int) /\ Len(S[2]) = odata[1].cb + odata[2].cb
            /\ \A k \in 1 .. odata[1].cb + odata[2].cb :
                 S[2][k] = IF k <= odata[1].cb THEN Promised(odata[1])[k] ELSE Promised(odata[2])[k - odata[1].cb]
        <4>1. PICK x \in Seq({"file", "log"} \X Int), y \in Seq({"file", "log"} \X Int) :
                     x = Promised(odata[1]) /\ y = Promised(odata[2])
          BY <1>9, <3>3
        <4>2. /\ x \o y \in Seq({"file", "log"} \X Int) /\ Len(x \o y) = Len(x) + Len(y)
              /\ \A k \in 1 .. Len(x) + Len(y) : (x \o y)[k] = IF k <= Len(x) THEN x[k] ELSE y[k - Len(x)]
          BY ConcatProperties
        <4>3. S[2] = x \o y /\ Len(x) = odata[1].cb /\ Len(y) = odata[2].cb
          BY <1>9, <3>3, <3>4, <4>1
        <4> QED BY <4>1, <4>2, <4>3
      <3>6. ASSUME NEW k \in 1 .. Len(sent)
            PROVE  Right(sent[k], S[2][k])
        <4>1. CASE k <= odata[1].cb
          <5>1. k \in 1 .. odata[1].cb /\ k \in 1 .. odata[1].cb + odata[2].cb
            BY <1>9, <3>1, <3>3, <4>1
          <5> QED BY <1>7, <1>9, <3>5, <4>1, <5>1
        <4>2. CASE ~(k <= odata[1].cb)
          <5>1. k - odata[1].cb \in 1 .. odata[2].cb /\ k \in 1 .. odata[1].cb + odata[2].cb
            BY <1>9, <3>1, <3>3, <4>2
          <5> QED BY <1>7, <3>3, <3>5, <4>2, <5>1
        <4> QED BY <4>1, <4>2
      <3> QED BY <2>2, <3>1, <3>5, <3>6
    <2> QED BY <1>2, <2>1, <2>2
  <1> QED BY <1>6, <1>12, <1>13

\* The binary part of every answer has the length that was sent ahead of it, and each
\* piece is where the JSON says.  It holds the bytes of the files, and the samples that
\* were promised as long as the log has gone on by no more than an eighth of the ring
\* since it was read; after that a later sample may be in the place of one of them.
\* Files may be refused, closes and writes may fail, and the client may be slow or go.
THEOREM AnswersWhole ==
  ASSUME {"read", "finishing"} \cap Faults = {}, \A r \in Requests : LogFirst(r.cmds)
  PROVE  RequestSpec => []AnswerWhole
  <1>1. RequestInit => AnswerInv
    BY InitInv
  <1>2. AnswerInv /\ [RequestNext]_requestVars => AnswerInv'
    BY NextInv, StillInv
  <1>3. AnswerInv => AnswerWhole
    BY AnswerDone
  <1> QED BY <1>1, <1>2, <1>3, PTL DEF RequestSpec

-----------------------------------------------------------------------------
(* Requests, from the first byte to the last: what a client sends, what     *)
(* takes it apart, and what the file gets of it.                            *)

Units == [is : {"count", "json", "data"}, n : Nat]

(* The messages.  Chunks is what the part of a message up to byte i looks  *)
(* like, whatever the places it is cut at.                                 *)

\* Where a message of n bytes that is cut at cuts ends a chunk, and what it has for byte i.
Ends(n, cuts) == cuts \cup {n}
NextEnd(n, cuts, i) == CHOOSE e \in Ends(n, cuts) : e >= i /\ \A f \in Ends(n, cuts) : f >= i => f >= e
OneByte(n, cuts, i) ==
  IF i = 1 \/ i - 1 \in cuts THEN <<Count(NextEnd(n, cuts, i) - (i - 1)), Data(i)>> ELSE <<Data(i)>>

\* How many bytes come before the chunk whose count is at p.
ToldIn(u, p) == IF p = 1 THEN 0 ELSE u[p - 1].n
\* The chunk whose count is at p, in the first i bytes.
ChunkFrom(u, p, t, c, i, n, cuts) ==
  /\ c >= 1 /\ t \in 0 .. i - 1 /\ t + c \in Ends(n, cuts) /\ t + c <= n
  /\ \A f \in Ends(n, cuts) : f >= t + 1 => f >= t + c
  /\ \A k \in 1 .. c : p + k <= Len(u) => u[p + k] = Data(t + k)
  /\ IF p + c < Len(u) THEN u[p + c + 1].is = "count" ELSE i = t + (Len(u) - p)
Chunk(u, p, i, n, cuts) == ChunkFrom(u, p, ToldIn(u, p), u[p].n, i, n, cuts)
\* A place holds a count, or one of the bytes so far.
Place(u, p, i, n, cuts) ==
  (u[p].is = "count" /\ Chunk(u, p, i, n, cuts)) \/ (u[p].is = "data" /\ u[p].n \in 1 .. i)
Chunks(u, i, n, cuts) ==
  /\ u \in Seq(Units)
  /\ IF i = 0 THEN u = <<>> ELSE Len(u) >= 2 /\ u[1].is = "count" /\ u[Len(u)] = Data(i)
  /\ \A p \in 1 .. Len(u) : Place(u, p, i, n, cuts)
  /\ \A p, q \in 1 .. Len(u) : p < q /\ u[p].is = "data" /\ u[q].is = "data" => u[p].n < u[q].n
  /\ \A j \in 1 .. i : \E p \in 1 .. Len(u) : u[p] = Data(j)

LEMMA UnitTypes ==
  /\ \A n \in Nat : Count(n) \in Units /\ Data(n) \in Units /\ Json \in Units
  /\ \A n : Count(n).is = "count" /\ Count(n).n = n /\ Data(n).is = "data" /\ Data(n).n = n /\ Json.is = "json"
  /\ \A u \in Units : u.n \in Nat
  BY DEF Units, Count, Data, Json

LEMMA AppendedOne ==
  ASSUME NEW S, NEW u \in Seq(S), NEW a \in S
  PROVE  /\ u \o <<a>> \in Seq(S) /\ Len(u \o <<a>>) = Len(u) + 1
         /\ (\A p \in 1 .. Len(u) : (u \o <<a>>)[p] = u[p]) /\ (u \o <<a>>)[Len(u) + 1] = a
  OBVIOUS

LEMMA AppendedTwo ==
  ASSUME NEW S, NEW u \in Seq(S), NEW a \in S, NEW b \in S
  PROVE  /\ u \o <<a, b>> \in Seq(S) /\ Len(u \o <<a, b>>) = Len(u) + 2
         /\ \A p \in 1 .. Len(u) : (u \o <<a, b>>)[p] = u[p]
         /\ (u \o <<a, b>>)[Len(u) + 1] = a /\ (u \o <<a, b>>)[Len(u) + 2] = b
  <1>1. <<a, b>> \in Seq(S) /\ Len(<<a, b>>) = 2 /\ <<a, b>>[1] = a /\ <<a, b>>[2] = b
    OBVIOUS
  <1> DEFINE w == <<a, b>>
  <1> HIDE DEF w
  <1>2. w \in Seq(S) /\ Len(w) = 2 /\ w[1] = a /\ w[2] = b
    BY <1>1 DEF w
  <1>3. /\ u \o w \in Seq(S) /\ Len(u \o w) = Len(u) + 2
        /\ (\A p \in 1 .. Len(u) : (u \o w)[p] = u[p])
        /\ (u \o w)[Len(u) + 1] = w[1] /\ (u \o w)[Len(u) + 2] = w[2]
    <2>1. Len(u) \in Nat
      OBVIOUS
    <2>2. u \o w \in Seq(S) /\ Len(u \o w) = Len(u) + Len(w)
      BY <1>2, ConcatProperties
    <2>3. \A p \in 1 .. Len(u) + Len(w) : (u \o w)[p] = IF p <= Len(u) THEN u[p] ELSE w[p - Len(u)]
      BY <1>2, ConcatProperties
    <2>4. Len(u) + 1 \in 1 .. Len(u) + Len(w) /\ Len(u) + 2 \in 1 .. Len(u) + Len(w)
      BY <1>2, <2>1
    <2>5. (u \o w)[Len(u) + 1] = w[Len(u) + 1 - Len(u)] /\ (u \o w)[Len(u) + 2] = w[Len(u) + 2 - Len(u)]
      BY <2>1, <2>3, <2>4
    <2>6. \A p \in 1 .. Len(u) : (u \o w)[p] = u[p]
      BY <1>2, <2>1, <2>3
    <2>7. Len(u) + 1 - Len(u) = 1 /\ Len(u) + 2 - Len(u) = 2
      BY <2>1
    <2> QED BY <1>2, <2>2, <2>5, <2>6, <2>7
  <1> QED BY <1>2, <1>3 DEF w

LEMMA NextEndIs ==
  ASSUME NEW n \in Nat \ {0}, NEW cuts \in SUBSET (1 .. n - 1), NEW i \in 1 .. n
  PROVE  /\ NextEnd(n, cuts, i) \in Ends(n, cuts) /\ NextEnd(n, cuts, i) \in i .. n
         /\ \A f \in Ends(n, cuts) : f >= i => f >= NextEnd(n, cuts, i)
  <1> DEFINE T == {e \in Ends(n, cuts) : e >= i}
             P(e) == e \in Ends(n, cuts) /\ e >= i /\ \A f \in Ends(n, cuts) : f >= i => f >= e
  <1>0. n \in Ends(n, cuts) /\ Ends(n, cuts) \subseteq Nat
    <2>1. \A e \in cuts : e \in Nat
      OBVIOUS
    <2> QED BY <2>1 DEF Ends
  <1>1. T \subseteq Nat /\ n \in T
    BY <1>0
  <1>2. PICK m \in T : \A k \in T : m <= k
    <2> HIDE DEF T
    <2> QED BY <1>1, LeastOf
  <1>3. m \in Nat /\ \A k \in T : k \in Nat
    BY <1>1, <1>2
  <1>4. P(m)
    BY <1>2, <1>3
  <1>5. P(NextEnd(n, cuts, i))
    <2> HIDE DEF T
    <2> QED BY <1>4 DEF NextEnd
  <1> HIDE DEF T, P
  <1>6. /\ NextEnd(n, cuts, i) \in Ends(n, cuts) /\ NextEnd(n, cuts, i) >= i
        /\ \A f \in Ends(n, cuts) : f >= i => f >= NextEnd(n, cuts, i)
    BY <1>5 DEF P
  <1> QED BY <1>0, <1>6

\* The bytes that come next, with a count ahead of them or not.
LEMMA ChunksGrow ==
  ASSUME NEW n \in Nat \ {0}, NEW cuts \in SUBSET (1 .. n - 1), NEW i \in 0 .. n - 1,
         NEW u, Chunks(u, i, n, cuts)
  PROVE  Chunks(u \o OneByte(n, cuts, i + 1), i + 1, n, cuts)
  <1> DEFINE v == u \o OneByte(n, cuts, i + 1)
             L == Len(u)
             e == NextEnd(n, cuts, i + 1)
  <1>1. u \in Seq(Units) /\ L \in Nat /\ \A p \in 1 .. L : u[p] \in Units
    BY DEF Chunks
  <1>2. e \in Ends(n, cuts) /\ e \in i + 1 .. n /\ (\A f \in Ends(n, cuts) : f >= i + 1 => f >= e)
    BY NextEndIs
  <1>3. n \in Nat /\ i \in Nat /\ i < n /\ \A f \in Ends(n, cuts) : f \in Nat
    <2>1. \A f \in cuts : f \in Nat
      OBVIOUS
    <2> QED BY <2>1 DEF Ends
  <1>4. i = 0 <=> L = 0
    BY <1>1, <1>3, EmptySeq DEF Chunks
  <1> HIDE DEF e
  <1>5. CASE i = 0 \/ i \in cuts
    <2>1. OneByte(n, cuts, i + 1) = <<Count(e - i), Data(i + 1)>>
      BY <1>3, <1>5 DEF OneByte, e
    <2>2. Count(e - i) \in Units /\ Data(i + 1) \in Units
      BY <1>2, <1>3, UnitTypes
    <2>3. /\ v \in Seq(Units) /\ Len(v) = L + 2
          /\ \A p \in 1 .. L : v[p] = u[p]
          /\ v[L + 1] = Count(e - i) /\ v[L + 2] = Data(i + 1)
      <3> DEFINE a == Count(e - i)
                 b == Data(i + 1)
      <3>1. v = u \o <<a, b>>
        BY <2>1
      <3>2. a \in Units /\ b \in Units
        BY <2>2
      <3> HIDE DEF v, a, b
      <3>3. /\ v \in Seq(Units) /\ Len(v) = Len(u) + 2 /\ \A p \in 1 .. Len(u) : v[p] = u[p]
            /\ v[Len(u) + 1] = a /\ v[Len(u) + 2] = b
        BY <1>1, <3>1, <3>2, AppendedTwo
      <3> QED BY <3>3 DEF a, b
    <2> HIDE DEF v, L
    <2>4. ASSUME NEW p \in 1 .. L, u[p].is = "count", Chunk(u, p, i, n, cuts)
          PROVE  Chunk(v, p, i + 1, n, cuts)
      <3> DEFINE t == ToldIn(u, p)
                 c == u[p].n
      <3>1. c \in Nat /\ c >= 1 /\ t \in 0 .. i - 1 /\ t + c \in Ends(n, cuts) /\ t + c <= n
        BY <1>1, <2>4, UnitTypes DEF Chunk, ChunkFrom
      <3>2. \A f \in Ends(n, cuts) : f >= t + 1 => f >= t + c
        BY <2>4 DEF Chunk, ChunkFrom
      <3>3. \A k \in 1 .. c : p + k <= L => u[p + k] = Data(t + k)
        BY <2>4 DEF Chunk, ChunkFrom, L
      <3>4. IF p + c < L THEN u[p + c + 1].is = "count" ELSE i = t + (L - p)
        BY <2>4 DEF Chunk, ChunkFrom, L
      <3>5. ToldIn(v, p) = t /\ v[p].n = c
        <4>1. p = 1 \/ p - 1 \in 1 .. L
          BY <1>1
        <4> QED BY <2>3, <4>1 DEF ToldIn
      <3> HIDE DEF t, c
      <3>6. i \in Ends(n, cuts)
        BY <1>5, <3>1, <1>3 DEF Ends
      <3>7. p + c <= L
        BY <1>1, <1>3, <3>1, <3>2, <3>4, <3>6
      <3>8. \A k \in 1 .. c : v[p + k] = Data(t + k)
        <4> SUFFICES ASSUME NEW k \in 1 .. c PROVE v[p + k] = Data(t + k)
          OBVIOUS
        <4>1. p + k <= L /\ p + k \in 1 .. L
          BY <1>1, <3>1, <3>7
        <4>2. v[p + k] = u[p + k]
          BY <2>3, <4>1
        <4> QED BY <3>3, <4>1, <4>2
      <3>9. p + c < L + 2 /\ v[p + c + 1].is = "count"
        <4>0. L \in Nat /\ p \in Nat /\ c \in Nat
          BY <1>1, <3>1
        <4>1. CASE p + c < L
          <5>1. u[p + c + 1].is = "count"
            BY <3>4, <4>1
          <5>2. p + c + 1 \in 1 .. L /\ p + c < L + 2
            BY <4>0, <4>1
          <5> QED BY <2>3, <5>1, <5>2
        <4>2. CASE p + c = L
          <5>1. v[p + c + 1] = Count(e - i)
            BY <2>3, <4>2
          <5>2. p + c < L + 2
            BY <4>0, <4>2
          <5> QED BY <5>1, <5>2, UnitTypes
        <4> QED BY <4>0, <3>7, <4>1, <4>2
      <3>10. t \in 0 .. i + 1 - 1
        BY <1>3, <3>1
      <3>11. ChunkFrom(v, p, t, c, i + 1, n, cuts)
        <4>1. p + c < Len(v)
          BY <2>3, <3>9
        <4>2. \A k \in 1 .. c : p + k <= Len(v) => v[p + k] = Data(t + k)
          BY <3>8
        <4>3. IF p + c < Len(v) THEN v[p + c + 1].is = "count" ELSE i + 1 = t + (Len(v) - p)
          BY <3>9, <4>1
        <4> QED BY <3>1, <3>2, <3>10, <4>2, <4>3 DEF ChunkFrom
      <3> QED BY <3>5, <3>11 DEF Chunk
    <2>5. Chunk(v, L + 1, i + 1, n, cuts)
      <3>1. ToldIn(v, L + 1) = i
        <4>1. CASE i = 0
          BY <1>1, <1>4, <4>1 DEF ToldIn, L
        <4>2. CASE i # 0
          <5>1. L \in Nat \ {0} /\ u[L] = Data(i) /\ L >= 2
            BY <1>1, <1>4, <4>2 DEF Chunks, L
          <5>2. v[L + 1 - 1] = Data(i)
            BY <2>3, <5>1
          <5> QED BY <5>1, <5>2, UnitTypes DEF ToldIn
        <4> QED BY <4>1, <4>2
      <3>2. v[L + 1].n = e - i
        BY <2>3, UnitTypes
      <3>3. \A k \in 1 .. e - i : L + 1 + k <= Len(v) => v[L + 1 + k] = Data(i + k)
        <4> SUFFICES ASSUME NEW k \in 1 .. e - i, L + 1 + k <= Len(v) PROVE v[L + 1 + k] = Data(i + k)
          OBVIOUS
        <4>1. k = 1
          BY <1>1, <1>2, <1>3, <2>3
        <4> QED BY <1>1, <2>3, <4>1
      <3>4. e - i \in Nat /\ e - i >= 1 /\ i + (e - i) = e
        BY <1>2, <1>3
      <3>5. ~(L + 1 + (e - i) < Len(v)) /\ i + 1 = i + (Len(v) - (L + 1))
        BY <1>1, <1>3, <2>3, <3>4
      <3>6. i \in 0 .. i + 1 - 1
        BY <1>3
      <3>7. ChunkFrom(v, L + 1, i, e - i, i + 1, n, cuts)
        <4>1. /\ i + (e - i) \in Ends(n, cuts) /\ i + (e - i) <= n
              /\ \A f \in Ends(n, cuts) : f >= i + 1 => f >= i + (e - i)
          BY <1>2, <3>4
        <4>2. IF L + 1 + (e - i) < Len(v) THEN v[L + 1 + (e - i) + 1].is = "count" ELSE i + 1 = i + (Len(v) - (L + 1))
          BY <3>5
        <4> QED BY SMTT(30), <3>3, <3>4, <3>6, <4>1, <4>2 DEF ChunkFrom
      <3> QED BY <3>1, <3>2, <3>7 DEF Chunk
    <2>6. \A p \in 1 .. Len(v) : p \in 1 .. L \/ p = L + 1 \/ p = L + 2
      BY <1>1, <2>3
    <2>7. \A p \in 1 .. Len(v) : Place(v, p, i + 1, n, cuts)
      <3> SUFFICES ASSUME NEW p \in 1 .. Len(v) PROVE Place(v, p, i + 1, n, cuts)
        OBVIOUS
      <3>1. CASE p \in 1 .. L
        <4>1. Place(u, p, i, n, cuts)
          BY <3>1 DEF Chunks, L
        <4>2. u[p].is = "count" /\ Chunk(u, p, i, n, cuts) => Chunk(v, p, i + 1, n, cuts)
          BY <2>4, <3>1
        <4>3. v[p] = u[p] /\ \A k \in 1 .. i : k \in 1 .. i + 1
          BY <1>3, <2>3, <3>1
        <4> QED BY <4>1, <4>2, <4>3 DEF Place
      <3>2. CASE p = L + 1
        BY <2>3, <2>5, <3>2, UnitTypes DEF Place
      <3>3. CASE p = L + 2
        BY <1>3, <2>3, <3>3, UnitTypes DEF Place
      <3> QED BY <2>6, <3>1, <3>2, <3>3
    <2>8. \A p, q \in 1 .. Len(v) : p < q /\ v[p].is = "data" /\ v[q].is = "data" => v[p].n < v[q].n
      <3> SUFFICES ASSUME NEW p \in 1 .. Len(v), NEW q \in 1 .. Len(v), p < q, v[p].is = "data", v[q].is = "data"
                   PROVE  v[p].n < v[q].n
        OBVIOUS
      <3>1. v[L + 1].is = "count"
        BY <2>3, UnitTypes
      <3>2. CASE q \in 1 .. L
        <4>1. p \in 1 .. L
          BY <1>1, <3>2
        <4>2. u[p].n < u[q].n
          BY <2>3, <3>2, <4>1 DEF Chunks, L
        <4> QED BY <2>3, <3>2, <4>1, <4>2
      <3>3. CASE q = L + 2
        <4>1. p \in 1 .. L
          BY SMTT(30), <1>1, <2>6, <3>1, <3>3
        <4>2. u[p].n \in 1 .. i
          BY <2>3, <4>1 DEF Chunks, L, Place
        <4> QED BY <1>3, <2>3, <3>3, <4>1, <4>2, UnitTypes
      <3> QED BY <2>6, <3>1, <3>2, <3>3
    <2>9. \A j \in 1 .. i + 1 : \E p \in 1 .. Len(v) : v[p] = Data(j)
      <3> SUFFICES ASSUME NEW j \in 1 .. i + 1 PROVE \E p \in 1 .. Len(v) : v[p] = Data(j)
        OBVIOUS
      <3>1. CASE j \in 1 .. i
        <4>1. PICK p \in 1 .. L : u[p] = Data(j)
          BY <3>1 DEF Chunks, L
        <4>2. p \in 1 .. Len(v)
          BY <1>1, <2>3
        <4> QED BY <2>3, <4>1, <4>2
      <3>2. CASE j = i + 1
        <4>1. L + 2 \in 1 .. Len(v)
          BY <1>1, <2>3
        <4> QED BY <2>3, <3>2, <4>1
      <3> QED BY <1>3, <3>1, <3>2
    <2>10. v[1].is = "count" /\ Len(v) >= 2 /\ v[Len(v)] = Data(i + 1)
      <3>1. CASE L = 0
        BY <2>3, <3>1, UnitTypes
      <3>2. CASE L # 0
        <4>1. u[1].is = "count" /\ L >= 2
          BY <1>4, <3>2 DEF Chunks, L
        <4> QED BY SMTT(30), <1>1, <2>3, <4>1
      <3> QED BY <2>3, <3>1, <3>2
    <2>11. i + 1 # 0
      BY <1>3
    <2>12. Chunks(v, i + 1, n, cuts)
      BY <2>3, <2>7, <2>8, <2>9, <2>10, <2>11 DEF Chunks
    <2> QED BY <2>12 DEF v
  <1>6. CASE i # 0 /\ i \notin cuts
    <2>1. OneByte(n, cuts, i + 1) = <<Data(i + 1)>>
      BY <1>3, <1>6 DEF OneByte
    <2>2. Data(i + 1) \in Units
      BY <1>3, UnitTypes
    <2>3. /\ v \in Seq(Units) /\ Len(v) = L + 1
          /\ \A p \in 1 .. L : v[p] = u[p]
          /\ v[L + 1] = Data(i + 1)
      <3> DEFINE a == Data(i + 1)
      <3>1. v = u \o <<a>> /\ a \in Units
        BY <2>1, <2>2
      <3> HIDE DEF v, a
      <3>3. /\ v \in Seq(Units) /\ Len(v) = Len(u) + 1 /\ \A p \in 1 .. Len(u) : v[p] = u[p]
            /\ v[Len(u) + 1] = a
        BY <1>1, <3>1, AppendedOne
      <3> QED BY <3>3 DEF a
    <2>0. L >= 2 /\ u[1].is = "count"
      BY <1>6 DEF Chunks
    <2> HIDE DEF v, L
    <2>4. ASSUME NEW p \in 1 .. L, u[p].is = "count", Chunk(u, p, i, n, cuts)
          PROVE  Chunk(v, p, i + 1, n, cuts)
      <3> DEFINE t == ToldIn(u, p)
                 c == u[p].n
      <3>1. c \in Nat /\ c >= 1 /\ t \in 0 .. i - 1 /\ t + c \in Ends(n, cuts) /\ t + c <= n
        BY <1>1, <2>4, UnitTypes DEF Chunk, ChunkFrom
      <3>2. \A f \in Ends(n, cuts) : f >= t + 1 => f >= t + c
        BY <2>4 DEF Chunk, ChunkFrom
      <3>3. \A k \in 1 .. c : p + k <= L => u[p + k] = Data(t + k)
        BY <2>4 DEF Chunk, ChunkFrom, L
      <3>4. IF p + c < L THEN u[p + c + 1].is = "count" ELSE i = t + (L - p)
        BY <2>4 DEF Chunk, ChunkFrom, L
      <3>5. ToldIn(v, p) = t /\ v[p].n = c
        BY <1>1, <2>3 DEF ToldIn
      <3> HIDE DEF t, c
      <3>6. i \notin Ends(n, cuts)
        BY <1>3, <1>6 DEF Ends
      <3>7. CASE p + c < L
        <4>1. p + c < L + 1 /\ v[p + c + 1].is = "count"
          BY <1>1, <2>3, <3>1, <3>4, <3>7
        <4>2. \A k \in 1 .. c : v[p + k] = Data(t + k)
          <5> SUFFICES ASSUME NEW k \in 1 .. c PROVE v[p + k] = Data(t + k)
            OBVIOUS
          <5>1. p + k <= L /\ p + k \in 1 .. L
            BY <1>1, <3>1, <3>7
          <5>2. v[p + k] = u[p + k]
            BY <2>3, <5>1
          <5> QED BY <3>3, <5>1, <5>2
        <4>3. t \in 0 .. i + 1 - 1
          BY <1>3, <3>1
        <4>5. p + c < Len(v) /\ \A k \in 1 .. c : p + k <= Len(v) => v[p + k] = Data(t + k)
          BY <2>3, <4>1, <4>2
        <4>4. ChunkFrom(v, p, t, c, i + 1, n, cuts)
          BY <3>1, <3>2, <4>1, <4>5, <4>3 DEF ChunkFrom
        <4> QED BY <3>5, <4>4 DEF Chunk
      <3>8. CASE ~(p + c < L)
        <4>1. i = t + (L - p)
          BY <3>4, <3>8
        <4>2. t + c # i
          BY <3>1, <3>6
        <4>3. ~(p + c < L + 1) /\ i + 1 = t + (L + 1 - p)
          BY <1>1, <1>3, <3>1, <3>8, <4>1, <4>2
        <4>4. \A k \in 1 .. c : p + k <= L + 1 => v[p + k] = Data(t + k)
          <5> SUFFICES ASSUME NEW k \in 1 .. c, p + k <= L + 1 PROVE v[p + k] = Data(t + k)
            OBVIOUS
          <5>1. CASE p + k <= L
            BY <1>1, <2>3, <3>1, <3>3, <5>1
          <5>2. CASE p + k = L + 1
            <6>1. t + k = i + 1
              BY <1>1, <1>3, <3>1, <4>1, <5>2
            <6> QED BY <2>3, <5>2, <6>1
          <5> QED BY <1>1, <3>1, <5>1, <5>2
        <4>5. t \in 0 .. i + 1 - 1
          BY <1>3, <3>1
        <4> QED BY <1>1, <2>3, <3>1, <3>2, <3>5, <4>3, <4>4, <4>5 DEF Chunk, ChunkFrom
      <3> QED BY <3>7, <3>8
    <2>6. \A p \in 1 .. Len(v) : p \in 1 .. L \/ p = L + 1
      BY <1>1, <2>3
    <2>7. \A p \in 1 .. Len(v) : Place(v, p, i + 1, n, cuts)
      <3> SUFFICES ASSUME NEW p \in 1 .. Len(v) PROVE Place(v, p, i + 1, n, cuts)
        OBVIOUS
      <3>1. CASE p \in 1 .. L
        <4>1. Place(u, p, i, n, cuts)
          BY <3>1 DEF Chunks, L
        <4>2. u[p].is = "count" /\ Chunk(u, p, i, n, cuts) => Chunk(v, p, i + 1, n, cuts)
          BY <2>4, <3>1
        <4>3. v[p] = u[p] /\ \A k \in 1 .. i : k \in 1 .. i + 1
          BY <1>3, <2>3, <3>1
        <4> QED BY <4>1, <4>2, <4>3 DEF Place
      <3>2. CASE p = L + 1
        BY <1>3, <2>3, <3>2, UnitTypes DEF Place
      <3> QED BY <2>6, <3>1, <3>2
    <2>8. \A p, q \in 1 .. Len(v) : p < q /\ v[p].is = "data" /\ v[q].is = "data" => v[p].n < v[q].n
      <3> SUFFICES ASSUME NEW p \in 1 .. Len(v), NEW q \in 1 .. Len(v), p < q, v[p].is = "data", v[q].is = "data"
                   PROVE  v[p].n < v[q].n
        OBVIOUS
      <3>1. p \in 1 .. L
        BY <1>1, <2>3
      <3>2. CASE q \in 1 .. L
        <4>1. u[p].n < u[q].n
          BY <2>3, <3>1, <3>2 DEF Chunks, L
        <4> QED BY <2>3, <3>1, <3>2, <4>1
      <3>3. CASE q = L + 1
        <4>1. u[p].n \in 1 .. i
          BY <2>3, <3>1 DEF Chunks, L, Place
        <4> QED BY <1>3, <2>3, <3>1, <3>3, <4>1, UnitTypes
      <3> QED BY <2>6, <3>2, <3>3
    <2>9. \A j \in 1 .. i + 1 : \E p \in 1 .. Len(v) : v[p] = Data(j)
      <3> SUFFICES ASSUME NEW j \in 1 .. i + 1 PROVE \E p \in 1 .. Len(v) : v[p] = Data(j)
        OBVIOUS
      <3>1. CASE j \in 1 .. i
        <4>1. PICK p \in 1 .. L : u[p] = Data(j)
          BY <3>1 DEF Chunks, L
        <4>2. p \in 1 .. Len(v)
          BY <1>1, <2>3
        <4> QED BY <2>3, <4>1, <4>2
      <3>2. CASE j = i + 1
        <4>1. L + 1 \in 1 .. Len(v)
          BY <1>1, <2>3
        <4> QED BY <2>3, <3>2, <4>1
      <3> QED BY <1>3, <3>1, <3>2
    <2>10. v[1].is = "count" /\ Len(v) >= 2 /\ v[Len(v)] = Data(i + 1)
      BY <1>1, <2>0, <2>3
    <2>11. i + 1 # 0
      BY <1>3
    <2>12. Chunks(v, i + 1, n, cuts)
      BY <2>3, <2>7, <2>8, <2>9, <2>10, <2>11 DEF Chunks
    <2> QED BY <2>12 DEF v
  <1> QED BY <1>5, <1>6

LEMMA JoinedExists ==
  ASSUME NEW N \in Nat, NEW p
  PROVE  \E s : IsJoined(s, p, N)
  <1> DEFINE T == {k \in Nat : ~\E s : IsJoined(s, p, k)}
  <1> SUFFICES ASSUME T # {} PROVE FALSE
    OBVIOUS
  <1>1. PICK m \in T : \A k \in T : m <= k
    BY LeastOf
  <1>2. m # 0
    <2> DEFINE s == [i \in 0 .. 0 |-> <<>>]
    <2>1. IsJoined(s, p, 0)
      BY DEF IsJoined
    <2> QED BY <2>1
  <1>3. m \in Nat /\ m - 1 \in Nat /\ m - 1 \notin T
    BY <1>1, <1>2
  <1>4. PICK s : IsJoined(s, p, m - 1)
    BY <1>3
  <1> DEFINE v == [i \in 0 .. m |-> IF i = 0 THEN <<>> ELSE s[i - 1] \o p[i]]
  <1>5. \A i \in 0 .. m - 1 : s[i] = v[i]
    BY <1>3, <1>4 DEF IsJoined
  <1>6. \A i \in 0 .. m : i # 0 => i - 1 \in 0 .. m - 1
    BY <1>3
  <1>7. IsJoined(v, p, m)
    BY <1>5, <1>6 DEF IsJoined
  <1> QED BY <1>1, <1>7

\* What each byte adds to the message.
Bytes(n, cuts) == [i \in 1 .. n |-> OneByte(n, cuts, i)]

LEMMA InChunksIs ==
  ASSUME NEW n \in Nat, NEW cuts
  PROVE  \E s : IsJoined(s, Bytes(n, cuts), n) /\ InChunks(n, cuts) = s[n]
  <1> DEFINE W(s) == s = [i \in 0 .. n |-> IF i = 0 THEN <<>> ELSE s[i - 1] \o OneByte(n, cuts, i)]
  <1>1. \A i \in 0 .. n : i # 0 => Bytes(n, cuts)[i] = OneByte(n, cuts, i)
    BY DEF Bytes
  <1>2. \A s : IsJoined(s, Bytes(n, cuts), n) <=> W(s)
    BY <1>1 DEF IsJoined
  <1>3. \E s : W(s)
    BY <1>2, JoinedExists
  <1> DEFINE S == CHOOSE s : W(s)
  <1>4. InChunks(n, cuts) = S[n]
    BY DEF InChunks, OneByte, NextEnd, Ends
  <1>5. W(S)
    <2> HIDE DEF W
    <2> QED BY <1>3
  <1> HIDE DEF S, W
  <1> QED BY <1>2, <1>4, <1>5

LEMMA NoChunks == ASSUME NEW n, NEW cuts PROVE Chunks(<<>>, 0, n, cuts)
  BY DEF Chunks

LEMMA AllChunks ==
  ASSUME NEW n \in Nat \ {0}, NEW cuts \in SUBSET (1 .. n - 1)
  PROVE  Chunks(InChunks(n, cuts), n, n, cuts)
  <1>1. PICK s : IsJoined(s, Bytes(n, cuts), n) /\ InChunks(n, cuts) = s[n]
    BY InChunksIs
  <1> DEFINE T == {k \in 0 .. n : ~Chunks(s[k], k, n, cuts)}
  <1>2. SUFFICES ASSUME T # {} PROVE FALSE
    BY <1>1
  <1>3. T \subseteq Nat
    OBVIOUS
  <1>4. PICK m \in T : \A k \in T : m <= k
    <2> HIDE DEF T
    <2> QED BY <1>2, <1>3, LeastOf
  <1>5. \A i \in 0 .. n : s[i] = IF i = 0 THEN <<>> ELSE s[i - 1] \o Bytes(n, cuts)[i]
    BY <1>1 DEF IsJoined
  <1>6. m # 0
    <2>1. s[0] = <<>>
      BY <1>5
    <2> QED BY <1>4, <2>1, NoChunks
  <1>7. m \in 0 .. n /\ m - 1 \in 0 .. n - 1 /\ m - 1 \in 0 .. n /\ m \in 1 .. n /\ m - 1 + 1 = m /\ ~(m <= m - 1)
    BY <1>4, <1>6
  <1>8. Chunks(s[m - 1], m - 1, n, cuts)
    BY <1>4, <1>7
  <1>9. s[m] = s[m - 1] \o OneByte(n, cuts, m)
    BY <1>5, <1>6, <1>7 DEF Bytes
  <1>10. Chunks(s[m - 1] \o OneByte(n, cuts, m - 1 + 1), m - 1 + 1, n, cuts)
    BY <1>7, <1>8, ChunksGrow
  <1> QED BY <1>4, <1>7, <1>9, <1>10

\* The message of a request with bytes: the JSON is a chunk, then come chunks with their
\* counts until the count 0.  Told is the number of bytes ahead of the count at p.
ToldAt(m, p) == IF p = 3 THEN 0 ELSE m[p - 1].n
CountAt(m, p, c, n) ==
  IF c = 0 THEN ToldAt(m, p) = n
  ELSE /\ p + c + 1 <= Len(m) /\ m[p + c + 1].is = "count"
       /\ ToldAt(m, p) + c <= n
       /\ \A k \in 1 .. c : m[p + k] = Data(ToldAt(m, p) + k)
Framed(m, n) ==
  /\ m \in Seq(Units)
  /\ Len(m) >= 4 /\ m[1] = Count(1) /\ m[2] = Json /\ m[3].is = "count"
  /\ \A p \in 3 .. Len(m) : m[p].is = "count" => CountAt(m, p, m[p].n, n)
DataIn(m) == {i \in DOMAIN m : m[i].is = "data"}

LEMMA MessageIs ==
  ASSUME NEW u \in Seq(Units)
  PROVE  LET m == <<Count(1), Json>> \o u \o <<Count(0)>>
         IN  /\ m \in Seq(Units) /\ Len(m) = Len(u) + 3
             /\ m[1] = Count(1) /\ m[2] = Json /\ m[Len(u) + 3] = Count(0)
             /\ \A p \in 1 .. Len(u) : m[p + 2] = u[p]
  <1> DEFINE h == <<Count(1), Json>>
             l == <<Count(0)>>
             w == h \o u
  <1>1. h \in Seq(Units) /\ Len(h) = 2 /\ h[1] = Count(1) /\ h[2] = Json
    BY UnitTypes
  <1>2. l \in Seq(Units) /\ Len(l) = 1 /\ l[1] = Count(0)
    BY UnitTypes
  <1>0. Len(u) \in Nat
    OBVIOUS
  <1> HIDE DEF h, l
  <1>3. /\ w \in Seq(Units) /\ Len(w) = Len(u) + 2
        /\ \A i \in 1 .. Len(u) + 2 : w[i] = IF i <= 2 THEN h[i] ELSE u[i - 2]
    <2>1. /\ w \in Seq(Units) /\ Len(w) = 2 + Len(u)
          /\ \A i \in 1 .. 2 + Len(u) : w[i] = IF i <= 2 THEN h[i] ELSE u[i - 2]
      <3>1. /\ w \in Seq(Units) /\ Len(w) = Len(h) + Len(u)
            /\ \A i \in 1 .. Len(h) + Len(u) : w[i] = IF i <= Len(h) THEN h[i] ELSE u[i - Len(h)]
        BY <1>1, ConcatProperties
      <3> HIDE DEF w
      <3> QED BY <1>1, <3>1
    <2>2. 2 + Len(u) = Len(u) + 2
      BY <1>0
    <2> HIDE DEF w
    <2> QED BY <2>1, <2>2
  <1> HIDE DEF w
  <1>4. /\ w \o l \in Seq(Units) /\ Len(w \o l) = Len(w) + Len(l)
        /\ \A i \in 1 .. Len(w) + Len(l) : (w \o l)[i] = IF i <= Len(w) THEN w[i] ELSE l[i - Len(w)]
    BY <1>2, <1>3, ConcatProperties
  <1>5. Len(w) + Len(l) = Len(u) + 3
    BY <1>0, <1>2, <1>3
  <1>6. (w \o l)[1] = h[1] /\ (w \o l)[2] = h[2]
    <2>1. 1 \in 1 .. Len(u) + 3 /\ 2 \in 1 .. Len(u) + 3 /\ 1 <= Len(w) /\ 2 <= Len(w)
          /\ 1 \in 1 .. Len(u) + 2 /\ 2 \in 1 .. Len(u) + 2
      BY <1>0, <1>3
    <2> QED BY <1>3, <1>4, <1>5, <2>1
  <1>7. (w \o l)[Len(u) + 3] = l[1]
    <2>1. Len(u) + 3 \in 1 .. Len(u) + 3 /\ ~(Len(u) + 3 <= Len(w)) /\ Len(u) + 3 - Len(w) = 1
      BY <1>0, <1>3
    <2> QED BY <1>4, <1>5, <2>1
  <1>8. \A p \in 1 .. Len(u) : (w \o l)[p + 2] = u[p]
    <2> SUFFICES ASSUME NEW p \in 1 .. Len(u) PROVE (w \o l)[p + 2] = u[p]
      OBVIOUS
    <2>1. p + 2 \in 1 .. Len(u) + 3 /\ p + 2 <= Len(w) /\ p + 2 \in 1 .. Len(u) + 2 /\ ~(p + 2 <= 2)
          /\ p + 2 - 2 = p
      BY <1>0, <1>3
    <2> QED BY <1>3, <1>4, <1>5, <2>1
  <1>9. <<Count(1), Json>> \o u \o <<Count(0)>> = w \o l
    BY DEF w, h, l
  <1> QED BY <1>1, <1>2, <1>4, <1>5, <1>6, <1>7, <1>8, <1>9

LEMMA MessagesFramed ==
  ASSUME NEW n \in Nat \ {0}, NEW m \in Messages(n)
  PROVE  /\ Framed(m, n) /\ IsFiniteSet(DataIn(m)) /\ Cardinality(DataIn(m)) = n
  <1>1. PICK cuts \in SUBSET (1 .. n - 1) : m = <<Count(1), Json>> \o InChunks(n, cuts) \o <<Count(0)>>
    BY DEF Messages
  <1> DEFINE u == InChunks(n, cuts)
             L == Len(u)
  <1>2. Chunks(u, n, n, cuts)
    BY AllChunks
  <1>0. n \in Nat /\ n # 0
    OBVIOUS
  <1> HIDE DEF u
  <1>3. u \in Seq(Units) /\ L \in Nat /\ L >= 2 /\ u[1].is = "count" /\ u[L] = Data(n)
    BY <1>2 DEF Chunks
  <1>4. /\ m \in Seq(Units) /\ Len(m) = L + 3 /\ m[1] = Count(1) /\ m[2] = Json /\ m[L + 3] = Count(0)
        /\ \A p \in 1 .. L : m[p + 2] = u[p]
    BY <1>1, <1>3, MessageIs DEF u
  <1> HIDE DEF L
  <1>5. \A p \in 3 .. Len(m) : p = L + 3 \/ (p - 2 \in 1 .. L /\ m[p] = u[p - 2])
    <2> SUFFICES ASSUME NEW p \in 3 .. Len(m), p # L + 3 PROVE p - 2 \in 1 .. L /\ m[p] = u[p - 2]
      OBVIOUS
    <2>1. p - 2 \in 1 .. L /\ p = p - 2 + 2
      BY SMTT(30), <1>3, <1>4
    <2> QED BY <1>4, <2>1
  <1>6. ASSUME NEW p \in 3 .. Len(m), m[p].is = "count"
        PROVE  CountAt(m, p, m[p].n, n)
    <2>1. CASE p = L + 3
      <3>1. m[p].n = 0
        BY <1>4, <2>1, UnitTypes
      <3>2. p # 3 /\ p - 1 = L + 2 /\ L \in 1 .. L
        BY SMTT(30), <1>3, <2>1
      <3>3. m[p - 1] = Data(n)
        BY <1>3, <1>4, <3>2
      <3> QED BY <3>1, <3>2, <3>3, UnitTypes DEF CountAt, ToldAt
    <2>2. CASE p # L + 3
      <3> DEFINE q == p - 2
                 t == ToldIn(u, q)
                 c == u[q].n
      <3>1. q \in 1 .. L /\ p = q + 2 /\ m[p] = u[q]
        BY <1>5, <2>2
      <3>2. Chunk(u, q, n, n, cuts)
        BY <1>2, <1>6, <3>1 DEF Chunks, L, Place
      <3>3. c \in Nat /\ t \in 0 .. n - 1
        <4>1. u[q] \in Units
          BY <1>3, <3>1 DEF L
        <4> QED BY <4>1, <3>2, UnitTypes DEF Chunk, ChunkFrom
      <3>4. /\ c >= 1 /\ t + c <= n
            /\ \A k \in 1 .. c : q + k <= L => u[q + k] = Data(t + k)
            /\ IF q + c < L THEN u[q + c + 1].is = "count" ELSE n = t + (L - q)
        BY <3>2 DEF Chunk, ChunkFrom, L
      <3>5. ToldAt(m, p) = t
        <4>1. CASE q = 1
          BY <3>1, <4>1 DEF ToldAt, ToldIn
        <4>2. CASE q # 1
          <5>1. q - 1 \in 1 .. L /\ q - 1 + 2 = p - 1 /\ p # 3
            BY <1>3, <3>1, <4>2
          <5>2. m[p - 1] = u[q - 1]
            BY <1>4, <5>1
          <5> QED BY <4>2, <5>1, <5>2 DEF ToldAt, ToldIn
        <4> QED BY <4>1, <4>2
      <3>6. m[p].n = c
        BY <3>1
      <3> HIDE DEF t, c, q
      <3>7. q + c <= L
        BY <1>0, <1>3, <3>1, <3>3, <3>4
      <3>8. \A k \in 1 .. c : m[p + k] = Data(t + k)
        <4> SUFFICES ASSUME NEW k \in 1 .. c PROVE m[p + k] = Data(t + k)
          OBVIOUS
        <4>1. q + k \in 1 .. L /\ q + k <= L /\ q + k + 2 = p + k
          BY <1>3, <3>1, <3>3, <3>7
        <4>2. m[p + k] = u[q + k]
          BY <1>4, <4>1
        <4> QED BY <3>4, <4>1, <4>2
      <3>9. p + c + 1 <= Len(m) /\ m[p + c + 1].is = "count"
        <4>1. CASE q + c < L
          <5>1. q + c + 1 \in 1 .. L /\ q + c + 1 + 2 = p + c + 1 /\ p + c + 1 <= L + 3
            BY <1>3, <3>1, <3>3, <4>1
          <5>2. m[p + c + 1] = u[q + c + 1]
            BY <1>4, <5>1
          <5> QED BY <1>4, <3>4, <4>1, <5>1, <5>2
        <4>2. CASE q + c = L
          <5>1. p + c + 1 = L + 3
            BY SMTT(30), <1>3, <3>1, <3>3, <4>2
          <5> QED BY <1>3, <1>4, <5>1, UnitTypes
        <4> QED BY <1>3, <3>1, <3>3, <3>7, <4>1, <4>2
      <3>10. c # 0
        BY <3>3, <3>4
      <3> QED BY <3>4, <3>5, <3>6, <3>8, <3>9, <3>10 DEF CountAt
    <2> QED BY <2>1, <2>2
  <1>7. Framed(m, n)
    <2>1. 3 \in 3 .. Len(m) /\ 1 \in 1 .. L /\ Len(m) >= 4
      BY <1>3, <1>4
    <2>2. m[3].is = "count"
      <3>1. m[1 + 2] = u[1]
        BY <1>4, <2>1
      <3> QED BY <1>3, <3>1
    <2> QED BY <1>4, <1>6, <2>1, <2>2 DEF Framed
  <1>8. IsFiniteSet(DataIn(m)) /\ Cardinality(DataIn(m)) = n
    <2> DEFINE D == DataIn(m)
               f == [i \in D |-> m[i].n]
    <2>1. D \subseteq 1 .. L + 3 /\ \A i \in D : m[i].is = "data"
      BY <1>4 DEF DataIn
    <2>2. IsFiniteSet(D)
      <3>1. IsFiniteSet(1 .. L + 3)
        BY <1>3, FS_Interval
      <3> HIDE DEF D
      <3> QED BY <2>1, <3>1, FS_Subset
    <2>3. \A i \in D : i - 2 \in 1 .. L /\ m[i] = u[i - 2]
      <3> SUFFICES ASSUME NEW i \in D PROVE i - 2 \in 1 .. L /\ m[i] = u[i - 2]
        OBVIOUS
      <3>1. i \in 1 .. L + 3 /\ m[i].is = "data"
        BY <2>1
      <3>2. i # 1 /\ i # 2 /\ i # L + 3
        BY <1>4, <3>1, UnitTypes DEF Count, Json
      <3>3. i \in 3 .. Len(m)
        BY <1>3, <1>4, <3>1, <3>2
      <3> QED BY <1>5, <3>2, <3>3
    <2>4. \A i \in D : m[i].n \in 1 .. n
      <3> SUFFICES ASSUME NEW i \in D PROVE m[i].n \in 1 .. n
        OBVIOUS
      <3>1. i - 2 \in 1 .. L /\ u[i - 2] = m[i] /\ u[i - 2].is = "data"
        BY <2>1, <2>3
      <3>2. Place(u, i - 2, n, n, cuts)
        BY <1>2, <3>1 DEF Chunks, L
      <3> QED BY <3>1, <3>2 DEF Place
    <2>5. \A i, j \in D : m[i].n = m[j].n => i = j
      <3>1. ASSUME NEW i \in D, NEW j \in D, i < j PROVE m[i].n < m[j].n
        <4>1. /\ i - 2 \in 1 .. L /\ j - 2 \in 1 .. L /\ u[i - 2] = m[i] /\ u[j - 2] = m[j]
              /\ u[i - 2].is = "data" /\ u[j - 2].is = "data"
          BY <2>1, <2>3
        <4>2. i - 2 < j - 2
          BY <1>3, <2>1, <3>1
        <4> QED BY <1>2, <4>1, <4>2 DEF Chunks, L
      <3> SUFFICES ASSUME NEW i \in D, NEW j \in D, m[i].n = m[j].n PROVE i = j
        OBVIOUS
      <3>2. i \in Int /\ j \in Int /\ m[i].n \in Int /\ m[j].n \in Int
        BY <1>3, <2>1, <2>4
      <3>3. ~(i < j) /\ ~(j < i)
        BY <3>1, <3>2
      <3> QED BY <3>2, <3>3
    <2>6. \A j \in 1 .. n : \E i \in D : m[i].n = j
      <3> SUFFICES ASSUME NEW j \in 1 .. n PROVE \E i \in D : m[i].n = j
        OBVIOUS
      <3>1. PICK p \in 1 .. L : u[p] = Data(j)
        BY <1>2 DEF Chunks, L
      <3>2. m[p + 2] = Data(j)
        BY <1>4, <3>1
      <3>3. p + 2 \in 1 .. Len(m) /\ 1 .. Len(m) = DOMAIN m
        BY <1>3, <1>4, <3>1
      <3> QED BY <3>2, <3>3, UnitTypes DEF DataIn
    <2> HIDE DEF D
    <2>7. f \in [D -> 1 .. n] /\ \A i \in D : f[i] = m[i].n
      BY <2>4
    <2> HIDE DEF f
    <2>8. f \in Bijection(D, 1 .. n)
      <3>1. \A a, b \in D : f[a] = f[b] => a = b
        BY <2>5, <2>7
      <3>2. \A t \in 1 .. n : \E a \in D : f[a] = t
        BY <2>6, <2>7
      <3> QED BY <2>7, <3>1, <3>2 DEF Bijection, Injection, Surjection, IsInjective
    <2>9. Cardinality(1 .. n) = Cardinality(D)
      <3>1. ExistsBijection(D, 1 .. n)
        BY <2>8 DEF ExistsBijection
      <3> QED BY <2>2, <3>1, FS_Bijection
    <2>10. Cardinality(1 .. n) = n
      <3>1. 1 \in Int /\ n \in Int /\ ~(1 > n) /\ n - 1 + 1 = n
        BY <1>0
      <3> QED BY <3>1, FS_Interval
    <2> QED BY <2>2, <2>9, <2>10 DEF D
  <1> QED BY <1>7, <1>8

-----------------------------------------------------------------------------
(* RequestInv: where the place of the stream is in the message, which      *)
(* entries are taken, and what becomes of them.                            *)

\* What the variables may hold.
OsPlaces ==
  [state : States, nextChunk : States, base : Int, iStream : Int, cbStream : Int,
   iBinary : Int, iBinaryDone : Int, write : BOOLEAN,
   cbChunk : Int, iChunkStart : Int, iChunk : Int, iOData : Int, fError : BOOLEAN]
Told(s) == \E S : s \in Seq(S) /\ \A x \in S : "do" \in DOMAIN x
RequestTypes ==
  /\ req \in Seq(Commands) /\ os \in OsPlaces
  /\ io \in {"Listening", "CONTINUE", "READ", "WRITE"}
  /\ fn \in [i : Nat \ {0}, at : {"Idle", "WaitingForResources", "JSONSeekFile", "JSONClose"}]
  /\ idata \in [at : Nat \cup {-1}, cb : Nat]
  /\ usage \in [Kinds -> Paths \cup {NoFile}] /\ open \in [Kinds -> BOOLEAN]
  /\ got \in Seq(Units) /\ Len(got) <= Room

\* Where a place o in the message is: in the whole of it, before the end of its chunk, and
\* before that of what was received.
PosOf(o)  == o.base + o.iStream
LeftOf(o) == o.cbChunk - (o.iStream - o.iChunkStart)
InChunk(o, n) ==
  /\ o.cbChunk > 0 /\ LeftOf(o) >= 0 /\ PosOf(o) >= 2
  /\ PosOf(o) + LeftOf(o) + 1 <= Len(msg) /\ msg[PosOf(o) + LeftOf(o) + 1].is = "count"
  /\ ToldAt(msg, PosOf(o) + LeftOf(o) + 1) = o.iBinary + LeftOf(o) /\ o.iBinary + LeftOf(o) <= n
  /\ \A k \in 1 .. LeftOf(o) : msg[PosOf(o) + k] = Data(o.iBinary + k)
AtCount(o) ==
  /\ PosOf(o) >= 2 /\ PosOf(o) + 1 <= Len(msg) /\ msg[PosOf(o) + 1].is = "count"
  /\ ToldAt(msg, PosOf(o) + 1) = o.iBinary
AtFileEnd == os.state = "ReadBinary" /\ os.write /\ os.iBinary = os.iBinaryDone
InStream ==
  /\ os.iStream <= os.cbStream /\ io \in {"READ", "CONTINUE"}
  /\ io = "READ" => os.iStream = 0 /\ os.cbStream = 0
  /\ io = "CONTINUE" => os.iStream < os.cbStream \/ AtFileEnd
\* What is read, or will be when the count has been read.
Stage == IF os.state = "ReadCount" THEN os.nextChunk ELSE os.state
InMessage(n) ==
  /\ InStream
  /\ n = 0 => os.state = "ParseJSON" /\ os.cbChunk = 0
  /\ n > 0 /\ Stage = "ParseJSON" => os.iBinary = 0
       /\ IF First THEN PosOf(os) = 0 ELSE PosOf(os) = 1 /\ os.cbChunk = 1 /\ LeftOf(os) = 1
  /\ os.state = "ReadCount" /\ ~First => Stage \in {"ReadNextBinary", "ReadBinary"} /\ AtCount(os)
  /\ os.state \in {"ReadNextBinary", "ReadBinary"} =>
       /\ InChunk(os, n) /\ (LeftOf(os) = 0 => AtFileEnd)
       /\ os.iChunk = os.cbChunk - LeftOf(os) \/ (AtFileEnd /\ os.iChunk <= os.cbChunk)

\* The command in progress has its entry, and an open file from then on.
Busy == fn.at # "Idle"
InTable ==
  /\ \A d \in Kinds : open[d] => usage[d] # NoFile
  /\ Busy => /\ fn.i <= Len(req) /\ os.state = "ParseJSON" /\ Cmd.do # "log"
             /\ usage[Entry] # NoFile /\ (open[Entry] <=> fn.at # "WaitingForResources")

\* The file that is written, while the JSON is read and then before, amid and after its bytes.
Begins == Busy /\ Cmd.do = "write"
Before ==
  /\ usage["WRITING"] # NoFile /\ open["WRITING"]
  /\ \/ Stage = "ReadNextBinary" /\ os.iBinary <= idata.at
     \/ Stage = "ReadBinary" /\ ~os.write /\ os.iBinary < idata.at /\ os.iBinaryDone = idata.at
Amid ==
  /\ Stage = "ReadBinary" /\ os.write
  /\ idata.at <= os.iBinary /\ os.iBinary <= os.iBinaryDone /\ os.iBinaryDone = idata.at + idata.cb
  /\ os.state = "ReadCount" => os.iBinary < os.iBinaryDone
After == Stage = "ReadNextBinary" /\ os.iBinary = idata.at + idata.cb /\ usage["WRITING"] = NoFile
NoWrite == idata = NoData /\ usage["WRITING"] = NoFile
WriteAt(n) ==
  /\ idata # NoData => idata.at \in Nat /\ idata.at < n /\ idata.at + idata.cb <= n
  /\ First => fn = [i |-> 1, at |-> "Idle"] /\ idata = NoData /\ NoneHeld
  /\ os.state = "ParseJSON" =>
       IF Begins THEN idata = NoData
       ELSE NoWrite \/ (idata # NoData /\ usage["WRITING"] # NoFile /\ open["WRITING"])
  /\ Stage \in {"ReadNextBinary", "ReadBinary"} =>
       IF idata = NoData THEN Stage = "ReadNextBinary" /\ os.iBinary = 0 /\ NoWrite
       ELSE Before \/ Amid \/ After
  /\ os.state \notin Parsing => usage["WRITING"] = NoFile

\* A file that is read is one of those that are to be sent.
ToSend == \E i \in DOMAIN odata : odata[i].do = "read" /\ (os.state \in Answering => os.iOData <= i)
ReadAt(n) ==
  /\ usage["READING"] # NoFile => n = 0 /\ ((Busy /\ Cmd.do = "read") \/ ToSend)
  /\ os.state = "Done" => usage["READING"] = NoFile

\* The request that is being taken apart or answered, and the invariant.
OfRequest(r) ==
  /\ r.bin > 0 => Framed(msg, r.bin)
  /\ req = r.cmds \/ os.state \notin Parsing
  /\ os.state # "Idle" /\ (io = "WRITE" => os.state \in Answering)
  /\ os.state \in Parsing => InMessage(r.bin)
  /\ WriteAt(r.bin) /\ ReadAt(r.bin)
Running ==
  /\ RequestTypes /\ Told(odata) /\ InTable
  /\ IF io = "Listening" THEN os.state = "Idle" /\ NoneHeld ELSE \E r \in Requests : OfRequest(r)
RequestInv == IF halted THEN io \in {"READ", "CONTINUE"} ELSE Running

-----------------------------------------------------------------------------
\* What Went does with a place o: it may be the end of its chunk, or of what was received.
ChunkEnds(o) == o.cbChunk > 0 /\ LeftOf(o) = 0
WentTo(o) ==
  /\ os' \in OsPlaces /\ io' \in {"READ", "CONTINUE"} /\ PosOf(os') = PosOf(o)
  /\ os'.iBinary = o.iBinary /\ os'.iBinaryDone = o.iBinaryDone /\ os'.write = o.write
  /\ os'.iOData = o.iOData /\ os'.fError = o.fError
  /\ IF ChunkEnds(o) THEN os'.state = "ReadCount" /\ os'.nextChunk = o.state
     ELSE os'.state = o.state /\ os'.nextChunk = o.nextChunk /\ os'.cbChunk = o.cbChunk
  /\ o.cbChunk > 0 /\ ~ChunkEnds(o) => LeftOf(os') = LeftOf(o) /\ os'.iChunk = os'.cbChunk - LeftOf(os')
  /\ IF o.iStream = o.cbStream
     THEN os'.iStream = 0 /\ os'.cbStream = 0 /\ (io' = "READ" <=> os'.state # "OutputJSON")
     ELSE os'.iStream = o.iStream /\ os'.cbStream = o.cbStream /\ io' = "CONTINUE"

LEMMA PlaceIs ==
  ASSUME NEW o \in OsPlaces
  PROVE  /\ o.state \in States /\ o.nextChunk \in States /\ o.base \in Int /\ o.iStream \in Int
         /\ o.cbStream \in Int /\ o.iBinary \in Int /\ o.iBinaryDone \in Int /\ o.write \in BOOLEAN
         /\ o.cbChunk \in Int /\ o.iChunkStart \in Int /\ o.iChunk \in Int /\ o.iOData \in Int
         /\ o.fError \in BOOLEAN
  BY DEF OsPlaces

\* All places but some are as they were.
SameBut(p, o, fields) ==
  /\ ("state" \notin fields => p.state = o.state) /\ ("nextChunk" \notin fields => p.nextChunk = o.nextChunk)
  /\ ("base" \notin fields => p.base = o.base) /\ ("iStream" \notin fields => p.iStream = o.iStream)
  /\ ("cbStream" \notin fields => p.cbStream = o.cbStream) /\ ("iBinary" \notin fields => p.iBinary = o.iBinary)
  /\ ("iBinaryDone" \notin fields => p.iBinaryDone = o.iBinaryDone) /\ ("write" \notin fields => p.write = o.write)
  /\ ("cbChunk" \notin fields => p.cbChunk = o.cbChunk) /\ ("iChunk" \notin fields => p.iChunk = o.iChunk)
  /\ ("iChunkStart" \notin fields => p.iChunkStart = o.iChunkStart)
  /\ ("iOData" \notin fields => p.iOData = o.iOData) /\ ("fError" \notin fields => p.fError = o.fError)

LEMMA PlaceSet ==
  ASSUME NEW o \in OsPlaces, NEW v \in Int
  PROVE  /\ [o EXCEPT !.iChunkStart = v] \in OsPlaces /\ [o EXCEPT !.iChunkStart = v].iChunkStart = v
         /\ SameBut([o EXCEPT !.iChunkStart = v], o, {"iChunkStart"})
         /\ [o EXCEPT !.base = v] \in OsPlaces /\ [o EXCEPT !.base = v].base = v
         /\ SameBut([o EXCEPT !.base = v], o, {"base"})
         /\ [o EXCEPT !.iStream = v] \in OsPlaces /\ [o EXCEPT !.iStream = v].iStream = v
         /\ SameBut([o EXCEPT !.iStream = v], o, {"iStream"})
         /\ [o EXCEPT !.cbStream = v] \in OsPlaces /\ [o EXCEPT !.cbStream = v].cbStream = v
         /\ SameBut([o EXCEPT !.cbStream = v], o, {"cbStream"})
         /\ [o EXCEPT !.iBinary = v] \in OsPlaces /\ [o EXCEPT !.iBinary = v].iBinary = v
         /\ SameBut([o EXCEPT !.iBinary = v], o, {"iBinary"})
         /\ [o EXCEPT !.iBinaryDone = v] \in OsPlaces /\ [o EXCEPT !.iBinaryDone = v].iBinaryDone = v
         /\ SameBut([o EXCEPT !.iBinaryDone = v], o, {"iBinaryDone"})
         /\ [o EXCEPT !.cbChunk = v] \in OsPlaces /\ [o EXCEPT !.cbChunk = v].cbChunk = v
         /\ SameBut([o EXCEPT !.cbChunk = v], o, {"cbChunk"})
         /\ [o EXCEPT !.iChunk = v] \in OsPlaces /\ [o EXCEPT !.iChunk = v].iChunk = v
         /\ SameBut([o EXCEPT !.iChunk = v], o, {"iChunk"})
         /\ [o EXCEPT !.iOData = v] \in OsPlaces /\ [o EXCEPT !.iOData = v].iOData = v
         /\ SameBut([o EXCEPT !.iOData = v], o, {"iOData"})
  <1>1. /\ [o EXCEPT !.iChunkStart = v] \in OsPlaces /\ [o EXCEPT !.base = v] \in OsPlaces
        /\ [o EXCEPT !.iStream = v] \in OsPlaces /\ [o EXCEPT !.cbStream = v] \in OsPlaces
        /\ [o EXCEPT !.iBinary = v] \in OsPlaces /\ [o EXCEPT !.iBinaryDone = v] \in OsPlaces
        /\ [o EXCEPT !.cbChunk = v] \in OsPlaces /\ [o EXCEPT !.iChunk = v] \in OsPlaces
        /\ [o EXCEPT !.iOData = v] \in OsPlaces
    BY DEF OsPlaces
  <1>2. /\ [o EXCEPT !.iChunkStart = v].iChunkStart = v
        /\ SameBut([o EXCEPT !.iChunkStart = v], o, {"iChunkStart"})
    BY DEF SameBut, OsPlaces
  <1>3. [o EXCEPT !.base = v].base = v /\ SameBut([o EXCEPT !.base = v], o, {"base"})
    BY DEF SameBut, OsPlaces
  <1>4. [o EXCEPT !.iStream = v].iStream = v /\ SameBut([o EXCEPT !.iStream = v], o, {"iStream"})
    BY DEF SameBut, OsPlaces
  <1>5. [o EXCEPT !.cbStream = v].cbStream = v /\ SameBut([o EXCEPT !.cbStream = v], o, {"cbStream"})
    BY DEF SameBut, OsPlaces
  <1>6. [o EXCEPT !.iBinary = v].iBinary = v /\ SameBut([o EXCEPT !.iBinary = v], o, {"iBinary"})
    BY DEF SameBut, OsPlaces
  <1>7. [o EXCEPT !.iBinaryDone = v].iBinaryDone = v /\ SameBut([o EXCEPT !.iBinaryDone = v], o, {"iBinaryDone"})
    BY DEF SameBut, OsPlaces
  <1>8. [o EXCEPT !.cbChunk = v].cbChunk = v /\ SameBut([o EXCEPT !.cbChunk = v], o, {"cbChunk"})
    BY DEF SameBut, OsPlaces
  <1>9. [o EXCEPT !.iChunk = v].iChunk = v /\ SameBut([o EXCEPT !.iChunk = v], o, {"iChunk"})
    BY DEF SameBut, OsPlaces
  <1>10. [o EXCEPT !.iOData = v].iOData = v /\ SameBut([o EXCEPT !.iOData = v], o, {"iOData"})
    BY DEF SameBut, OsPlaces
  <1> QED BY <1>1, <1>2, <1>3, <1>4, <1>5, <1>6, <1>7, <1>8, <1>9, <1>10

LEMMA StageSet ==
  ASSUME NEW o \in OsPlaces, NEW s \in States
  PROVE  /\ [o EXCEPT !.state = s] \in OsPlaces /\ [o EXCEPT !.state = s].state = s
         /\ SameBut([o EXCEPT !.state = s], o, {"state"})
         /\ [o EXCEPT !.nextChunk = s] \in OsPlaces /\ [o EXCEPT !.nextChunk = s].nextChunk = s
         /\ SameBut([o EXCEPT !.nextChunk = s], o, {"nextChunk"})
  BY DEF SameBut, OsPlaces

LEMMA FlagSet ==
  ASSUME NEW o \in OsPlaces, NEW b \in BOOLEAN
  PROVE  /\ [o EXCEPT !.write = b] \in OsPlaces /\ [o EXCEPT !.write = b].write = b
         /\ SameBut([o EXCEPT !.write = b], o, {"write"})
         /\ [o EXCEPT !.fError = b] \in OsPlaces /\ [o EXCEPT !.fError = b].fError = b
         /\ SameBut([o EXCEPT !.fError = b], o, {"fError"})
  BY DEF SameBut, OsPlaces

LEMMA WentEffect ==
  ASSUME NEW o \in OsPlaces, Went(o)
  PROVE  WentTo(o)
  <1> DEFINE i == o.iStream - o.iChunkStart
             next == IF o.cbChunk <= 0 THEN o
                     ELSE IF i # o.cbChunk THEN [o EXCEPT !.iChunk = i]
                     ELSE [o EXCEPT !.iChunk = -2, !.cbChunk = -1, !.nextChunk = o.state, !.state = "ReadCount"]
  <1>0. /\ o.state \in States /\ o.nextChunk \in States /\ o.base \in Int /\ o.iStream \in Int
        /\ o.cbStream \in Int /\ o.cbChunk \in Int /\ o.iChunkStart \in Int /\ o.iChunk \in Int
    BY PlaceIs
  <1>1. ChunkEnds(o) <=> ~(o.cbChunk <= 0) /\ ~(i # o.cbChunk)
    BY <1>0 DEF ChunkEnds, LeftOf
  <1>2. /\ next \in OsPlaces
        /\ next.iBinary = o.iBinary /\ next.iBinaryDone = o.iBinaryDone /\ next.write = o.write
        /\ next.iOData = o.iOData /\ next.fError = o.fError /\ next.base = o.base
        /\ next.iStream = o.iStream /\ next.cbStream = o.cbStream /\ next.iChunkStart = o.iChunkStart
        /\ IF ChunkEnds(o) THEN next.state = "ReadCount" /\ next.nextChunk = o.state /\ next.cbChunk = -1
           ELSE next.state = o.state /\ next.nextChunk = o.nextChunk /\ next.cbChunk = o.cbChunk
        /\ o.cbChunk > 0 /\ ~ChunkEnds(o) => next.iChunk = i
    <2>1. CASE o.cbChunk <= 0
      BY <1>0, <1>1, <2>1
    <2>2. CASE ~(o.cbChunk <= 0) /\ i # o.cbChunk
      <3>1. next = [o EXCEPT !.iChunk = i] /\ i \in Int
        BY <1>0, <2>2
      <3> HIDE DEF next, i
      <3> QED BY <1>1, <2>2, <3>1 DEF OsPlaces
    <2>3. CASE ~(o.cbChunk <= 0) /\ i = o.cbChunk
      <3>1. next = [o EXCEPT !.iChunk = -2, !.cbChunk = -1, !.nextChunk = o.state, !.state = "ReadCount"]
        BY <2>3
      <3>2. "ReadCount" \in States
        BY DEF States, Parsing
      <3> DEFINE a == [o EXCEPT !.iChunk = -2]
                 b == [a EXCEPT !.cbChunk = -1]
                 c == [b EXCEPT !.nextChunk = o.state]
                 d == [c EXCEPT !.state = "ReadCount"]
      <3>0. -1 \in Int /\ -2 \in Int
        OBVIOUS
      <3>3. a \in OsPlaces /\ SameBut(a, o, {"iChunk"})
        BY <3>0, PlaceSet
      <3>4. b \in OsPlaces /\ b.cbChunk = -1 /\ SameBut(b, a, {"cbChunk"})
        <4> HIDE DEF a
        <4> QED BY <3>0, <3>3, PlaceSet
      <3>5. c \in OsPlaces /\ c.nextChunk = o.state /\ SameBut(c, b, {"nextChunk"})
        <4> HIDE DEF b
        <4> QED BY <1>0, <3>4, StageSet
      <3>6. d \in OsPlaces /\ d.state = "ReadCount" /\ SameBut(d, c, {"state"})
        <4> HIDE DEF c
        <4> QED BY <3>2, <3>5, StageSet
      <3>7. next = d
        BY <3>1
      <3> HIDE DEF a, b, c, d, next, i
      <3> QED BY <1>1, <2>3, <3>3, <3>4, <3>5, <3>6, <3>7 DEF SameBut
    <2> QED BY <2>1, <2>2, <2>3
  <1>3. /\ os' = IF next.iStream # next.cbStream THEN next
                 ELSE [next EXCEPT !.iChunkStart = IF next.cbChunk > 0 THEN @ - next.iStream ELSE @,
                                   !.base = @ + next.iStream, !.iStream = 0, !.cbStream = 0]
        /\ io' = IF NeedsData(next) THEN "READ" ELSE "CONTINUE"
    BY DEF Went
  <1> HIDE DEF next
  <1>4. CASE o.iStream # o.cbStream
    <2>1. os' = next /\ io' = "CONTINUE"
      BY <1>2, <1>3, <1>4 DEF NeedsData
    <2>2. PosOf(os') = PosOf(o)
      BY <1>2, <2>1 DEF PosOf
    <2>3. o.cbChunk > 0 /\ ~ChunkEnds(o) => LeftOf(os') = LeftOf(o) /\ os'.iChunk = os'.cbChunk - LeftOf(os')
      BY <1>0, <1>2, <2>1 DEF LeftOf
    <2> QED BY <1>2, <1>4, <2>1, <2>2, <2>3 DEF WentTo
  <1>5. CASE o.iStream = o.cbStream
    <2> DEFINE start == IF next.cbChunk > 0 THEN next.iChunkStart - next.iStream ELSE next.iChunkStart
    <2>0. /\ next.base \in Int /\ next.iStream \in Int /\ next.iChunkStart \in Int /\ start \in Int
          /\ next.base + next.iStream \in Int
      BY <1>0, <1>2
    <2>1. os' = [next EXCEPT !.iChunkStart = start, !.base = next.base + next.iStream, !.iStream = 0, !.cbStream = 0]
      BY <1>2, <1>3, <1>5, PlaceIs
    <2> HIDE DEF start
    <2>2. /\ os' \in OsPlaces /\ os'.iStream = 0 /\ os'.cbStream = 0 /\ os'.base = next.base + next.iStream
          /\ os'.iChunkStart = start /\ os'.state = next.state /\ os'.nextChunk = next.nextChunk
          /\ os'.cbChunk = next.cbChunk /\ os'.iChunk = next.iChunk /\ os'.iBinary = next.iBinary
          /\ os'.iBinaryDone = next.iBinaryDone /\ os'.write = next.write /\ os'.iOData = next.iOData
          /\ os'.fError = next.fError
      <3> DEFINE a == [next EXCEPT !.iChunkStart = start]
                 b == [a EXCEPT !.base = next.base + next.iStream]
                 c == [b EXCEPT !.iStream = 0]
                 d == [c EXCEPT !.cbStream = 0]
      <3>1. a \in OsPlaces /\ a.iChunkStart = start /\ SameBut(a, next, {"iChunkStart"})
        BY <1>2, <2>0, PlaceSet
      <3>2. b \in OsPlaces /\ b.base = next.base + next.iStream /\ SameBut(b, a, {"base"})
        <4> HIDE DEF a
        <4> QED BY <3>1, <2>0, PlaceSet
      <3>0. 0 \in Int
        OBVIOUS
      <3>3. c \in OsPlaces /\ c.iStream = 0 /\ SameBut(c, b, {"iStream"})
        <4> HIDE DEF b
        <4> QED BY <3>0, <3>2, PlaceSet
      <3>4. d \in OsPlaces /\ d.cbStream = 0 /\ SameBut(d, c, {"cbStream"})
        <4> HIDE DEF c
        <4> QED BY <3>0, <3>3, PlaceSet
      <3>5. os' = d
        BY <2>1
      <3> HIDE DEF a, b, c, d
      <3> QED BY <3>1, <3>2, <3>3, <3>4, <3>5 DEF SameBut
    <2>3. PosOf(os') = PosOf(o)
      BY <1>0, <1>2, <2>0, <2>2 DEF PosOf
    <2>4. o.cbChunk > 0 /\ ~ChunkEnds(o) => LeftOf(os') = LeftOf(o) /\ os'.iChunk = os'.cbChunk - LeftOf(os')
      <3> SUFFICES ASSUME o.cbChunk > 0, ~ChunkEnds(o)
                   PROVE  LeftOf(os') = LeftOf(o) /\ os'.iChunk = os'.cbChunk - LeftOf(os')
        OBVIOUS
      <3>1. start = o.iChunkStart - o.iStream /\ os'.cbChunk = o.cbChunk /\ os'.iChunk = i
        BY <1>2, <2>2 DEF start
      <3> QED BY <1>0, <2>2, <3>1 DEF LeftOf
    <2>5. io' \in {"READ", "CONTINUE"} /\ (io' = "READ" <=> os'.state # "OutputJSON")
      BY <1>2, <1>3, <1>5, <2>2 DEF NeedsData
    <2> QED BY <1>2, <1>5, <2>2, <2>3, <2>4, <2>5 DEF WentTo
  <1> QED BY <1>4, <1>5

\* A request goes on, and still does after a step.
Ongoing(r) == RequestTypes /\ Told(odata) /\ InTable /\ OfRequest(r) /\ io # "Listening" /\ ~halted
KeepsOn(r) == RequestTypes' /\ Told(odata)' /\ InTable' /\ OfRequest(r)' /\ io' # "Listening" /\ ~halted'

LEMMA Stages ==
  /\ Parsing \subseteq States /\ Answering \subseteq States /\ "OutputJSON" \in States /\ "Idle" \in States
  /\ Parsing \cap Answering = {} /\ "Idle" \notin Parsing \cup Answering \cup {"OutputJSON"}
  /\ "OutputJSON" \notin Parsing \cup Answering
  /\ \A s \in Parsing : s \in {"ReadCount", "ParseJSON", "ReadNextBinary", "ReadBinary"}
  /\ {"ReadCount", "ParseJSON", "ReadNextBinary", "ReadBinary"} \subseteq Parsing
  /\ {"WriteChunkSize", "WriteOData", "Done"} \subseteq Answering
  BY DEF Parsing, Answering, States

LEMMA WentStream ==
  ASSUME NEW o \in OsPlaces, WentTo(o), o.iStream <= o.cbStream, os'.state # "OutputJSON"
  PROVE  InStream'
  <1>1. o.iStream \in Int /\ o.cbStream \in Int
    BY PlaceIs
  <1> QED BY <1>1 DEF WentTo, InStream

\* Within the bytes: either there are more in the chunk, or the next thing is a count.
LEMMA ChunkGoesOn ==
  ASSUME NEW o \in OsPlaces, NEW n \in Nat, WentTo(o), UNCHANGED msg, InChunk(o, n), o.iStream <= o.cbStream,
         o.state \in {"ReadNextBinary", "ReadBinary"}
  PROVE  /\ Stage' = o.state /\ ~First' /\ os'.state # "ParseJSON" /\ InStream'
         /\ IF LeftOf(o) = 0 THEN os'.state = "ReadCount" /\ AtCount(os')
            ELSE os'.state = o.state /\ InChunk(os', n) /\ LeftOf(os') # 0 /\ os'.iChunk = os'.cbChunk - LeftOf(os')
  <1>1. /\ o.cbChunk > 0 /\ LeftOf(o) >= 0 /\ PosOf(o) >= 2
        /\ PosOf(o) + LeftOf(o) + 1 <= Len(msg) /\ msg[PosOf(o) + LeftOf(o) + 1].is = "count"
        /\ ToldAt(msg, PosOf(o) + LeftOf(o) + 1) = o.iBinary + LeftOf(o) /\ o.iBinary + LeftOf(o) <= n
        /\ \A k \in 1 .. LeftOf(o) : msg[PosOf(o) + k] = Data(o.iBinary + k)
    BY DEF InChunk
  <1>2. PosOf(os') = PosOf(o) /\ os'.iBinary = o.iBinary /\ PosOf(o) \in Int /\ LeftOf(o) \in Int /\ o.iBinary \in Int
    BY PlaceIs DEF WentTo, PosOf, LeftOf
  <1>3. CASE LeftOf(o) = 0
    <2>1. os'.state = "ReadCount" /\ os'.nextChunk = o.state
      BY <1>1, <1>3 DEF WentTo, ChunkEnds
    <2>2. PosOf(o) + LeftOf(o) + 1 = PosOf(os') + 1 /\ o.iBinary + LeftOf(o) = os'.iBinary
      BY <1>2, <1>3
    <2>3. AtCount(os')
      BY <1>1, <1>2, <2>2 DEF AtCount
    <2> QED BY <1>3, <2>1, <2>3, WentStream DEF Stage, First
  <1>4. CASE LeftOf(o) # 0
    <2>1. /\ os'.state = o.state /\ os'.cbChunk = o.cbChunk /\ LeftOf(os') = LeftOf(o)
          /\ os'.iChunk = os'.cbChunk - LeftOf(os')
      BY <1>1, <1>4 DEF WentTo, ChunkEnds
    <2>2. InChunk(os', n)
      BY <1>1, <1>2, <2>1 DEF InChunk
    <2>3. InStream'
      BY <2>1, WentStream
    <2> QED BY <1>4, <2>1, <2>2, <2>3 DEF Stage, First
  <1> QED BY <1>3, <1>4

\* Bytes are taken from the chunk.
LEMMA TakenIs ==
  ASSUME NEW o \in OsPlaces, NEW k \in Int
  PROVE  /\ Taken(o, k) \in OsPlaces /\ Taken(o, k).iStream = o.iStream + k /\ Taken(o, k).iBinary = o.iBinary + k
         /\ SameBut(Taken(o, k), o, {"iStream", "iBinary"})
  <1> DEFINE a == [o EXCEPT !.iStream = o.iStream + k]
             b == [a EXCEPT !.iBinary = a.iBinary + k]
  <1>1. o.iStream + k \in Int /\ o.iBinary + k \in Int
    BY PlaceIs
  <1>2. a \in OsPlaces /\ a.iStream = o.iStream + k /\ SameBut(a, o, {"iStream"})
    BY <1>1, PlaceSet
  <1>3. b \in OsPlaces /\ b.iBinary = o.iBinary + k /\ SameBut(b, a, {"iBinary"})
    <2>1. a.iBinary = o.iBinary /\ a.iBinary + k \in Int
      BY <1>1, <1>2 DEF SameBut
    <2>2. a \in OsPlaces
      BY <1>2
    <2> HIDE DEF a
    <2>3. b \in OsPlaces /\ b.iBinary = a.iBinary + k /\ SameBut(b, a, {"iBinary"})
      BY <2>1, <2>2, PlaceSet
    <2> HIDE DEF b
    <2> QED BY <2>1, <2>3
  <1>4. Taken(o, k) = b
    BY <1>2 DEF Taken, SameBut
  <1> HIDE DEF a, b
  <1> QED BY <1>2, <1>3, <1>4 DEF SameBut

LEMMA ChunkTaken ==
  ASSUME NEW o \in OsPlaces, NEW n \in Nat, InChunk(o, n), NEW k \in Nat, k <= LeftOf(o)
  PROVE  InChunk(Taken(o, k), n) /\ LeftOf(Taken(o, k)) = LeftOf(o) - k /\ PosOf(Taken(o, k)) = PosOf(o) + k
  <1> DEFINE t == Taken(o, k)
  <1>0. o.iStream \in Int /\ o.base \in Int /\ o.cbChunk \in Int /\ o.iChunkStart \in Int /\ o.iBinary \in Int /\ k \in Int
    BY PlaceIs
  <1>1. /\ t.iStream = o.iStream + k /\ t.iBinary = o.iBinary + k /\ t.base = o.base /\ t.cbChunk = o.cbChunk
        /\ t.iChunkStart = o.iChunkStart
    BY <1>0, TakenIs DEF SameBut
  <1> HIDE DEF t
  <1>2. LeftOf(t) = LeftOf(o) - k /\ PosOf(t) = PosOf(o) + k /\ LeftOf(o) \in Int /\ PosOf(o) \in Int
    BY <1>0, <1>1 DEF LeftOf, PosOf
  <1>3. /\ PosOf(t) + LeftOf(t) = PosOf(o) + LeftOf(o) /\ t.iBinary + LeftOf(t) = o.iBinary + LeftOf(o)
        /\ LeftOf(t) >= 0 /\ PosOf(t) >= PosOf(o)
    BY <1>0, <1>1, <1>2
  <1>4. \A j \in 1 .. LeftOf(t) : msg[PosOf(t) + j] = Data(t.iBinary + j)
    <2> SUFFICES ASSUME NEW j \in 1 .. LeftOf(t) PROVE msg[PosOf(t) + j] = Data(t.iBinary + j)
      OBVIOUS
    <2>1. k + j \in 1 .. LeftOf(o) /\ PosOf(o) + (k + j) = PosOf(t) + j /\ o.iBinary + (k + j) = t.iBinary + j
      BY <1>0, <1>1, <1>2
    <2> QED BY <2>1 DEF InChunk
  <1>5. PosOf(t) + LeftOf(t) + 1 = PosOf(o) + LeftOf(o) + 1 /\ t.cbChunk > 0 /\ PosOf(t) >= 2
    BY <1>0, <1>1, <1>2, <1>3 DEF InChunk
  <1>6. InChunk(t, n)
    BY <1>3, <1>4, <1>5 DEF InChunk
  <1> QED BY <1>2, <1>6 DEF t

LEMMA LeastIs == \A a, b \in Int : Least(a, b) \in {a, b} /\ Least(a, b) <= a /\ Least(a, b) <= b
  BY DEF Least

\* A step while the bytes are read; n is their number.
ReadsOn(n) ==
  /\ os.state \in Parsing /\ io = "CONTINUE" /\ ~Busy
  /\ UNCHANGED <<msg, req, fn, idata>> \/ (UNCHANGED <<msg, fn, idata>> /\ os'.state = "OutputJSON")
  /\ UNCHANGED halted \/ ~halted'
  /\ req' \in {req, <<>>}
  /\ os' \in OsPlaces /\ io' \in {"READ", "CONTINUE"} /\ os'.state \in Parsing \cup {"OutputJSON"}
  /\ odata' = odata \/ (odata' = <<>> /\ usage["READING"] = NoFile)
  /\ usage'["READING"] = usage["READING"] /\ open'["READING"] = open["READING"]
  /\ usage' \in [Kinds -> Paths \cup {NoFile}] /\ open' \in [Kinds -> BOOLEAN]
  /\ open'["WRITING"] => usage'["WRITING"] # NoFile
  /\ got' \in Seq(Units) /\ Len(got') <= Room
  /\ os'.state \in Parsing => InMessage(n)'
  /\ WriteAt(n)'

LEMMA ToldEmpty == Told(<<>>)
  <1> DEFINE S == {[do |-> "read"]}
  <1>1. <<>> \in Seq(S) /\ \A x \in S : "do" \in DOMAIN x
    OBVIOUS
  <1> HIDE DEF S
  <1> QED BY <1>1 DEF Told

LEMMA ReadsOnKeeps ==
  ASSUME NEW r \in Requests, Ongoing(r), ReadsOn(r.bin)
  PROVE  KeepsOn(r)
  <1>1. RequestTypes'
    <2>1. <<>> \in Seq(Commands) /\ req \in Seq(Commands)
      BY DEF Ongoing, RequestTypes
    <2>2. req' \in Seq(Commands)
      BY <2>1 DEF ReadsOn
    <2> QED BY <2>2 DEF Ongoing, RequestTypes, ReadsOn
  <1>2. Told(odata)'
    BY ToldEmpty DEF Ongoing, ReadsOn, Told
  <1>3. ~Busy'
    BY DEF ReadsOn, Busy
  <1>4. InTable'
    BY <1>3 DEF InTable, ReadsOn, Ongoing, Kinds
  <1>5. OfRequest(r)'
    <2>1. ReadAt(r.bin)'
      <3>1. os'.state # "Done" /\ os'.state \notin Answering /\ os.state \notin Answering
        BY Stages DEF ReadsOn
      <3>2. usage["READING"] # NoFile => r.bin = 0 /\ ToSend
        BY DEF Ongoing, OfRequest, ReadAt, ReadsOn
      <3>3. usage["READING"] # NoFile => ToSend'
        BY <3>1, <3>2 DEF ToSend, ReadsOn
      <3> QED BY <3>1, <3>2, <3>3 DEF ReadAt, ReadsOn
    <2>2. os'.state # "Idle" /\ (io' = "WRITE" => os'.state \in Answering) /\ msg' = msg
      BY Stages DEF ReadsOn
    <2>3. req' = r.cmds \/ os'.state \notin Parsing
      BY Stages DEF ReadsOn, Ongoing, OfRequest
    <2> QED BY <2>1, <2>2, <2>3 DEF OfRequest, Ongoing, ReadsOn
  <1>6. ~halted' /\ io' # "Listening"
    BY DEF ReadsOn, Ongoing
  <1> QED BY <1>1, <1>2, <1>4, <1>5, <1>6 DEF KeepsOn

\* Where the request is when a turn reads.
LEMMA ReadTurn ==
  ASSUME NEW r \in Requests, Ongoing(r), NEW s \in Parsing, Turn(s)
  PROVE  /\ os.state = s /\ io = "CONTINUE" /\ ~halted /\ os \in OsPlaces /\ r.bin \in Nat
         /\ InMessage(r.bin) /\ InStream /\ WriteAt(r.bin) /\ ReadAt(r.bin)
         /\ (r.bin > 0 => Framed(msg, r.bin)) /\ (s # "ParseJSON" => ~Busy /\ r.bin > 0)
         /\ os.iStream <= os.cbStream /\ (os.iStream < os.cbStream \/ AtFileEnd)
         /\ usage \in [Kinds -> Paths \cup {NoFile}] /\ open \in [Kinds -> BOOLEAN]
         /\ got \in Seq(Units) /\ Len(got) <= Room
         /\ (open["WRITING"] => usage["WRITING"] # NoFile) /\ (usage["READING"] # NoFile => r.bin = 0)
  <1>1. os.state = s /\ io = "CONTINUE" /\ ~halted /\ os \in OsPlaces /\ r.bin \in Nat
    BY Params DEF Turn, Ongoing, RequestTypes
  <1>2. InMessage(r.bin) /\ WriteAt(r.bin) /\ ReadAt(r.bin) /\ (r.bin > 0 => Framed(msg, r.bin))
    BY <1>1 DEF Ongoing, OfRequest
  <1>3. InStream /\ (r.bin = 0 => os.state = "ParseJSON") /\ (Busy => os.state = "ParseJSON")
    BY <1>2 DEF InMessage, Ongoing, InTable
  <1>4. s # "ParseJSON" => ~Busy /\ r.bin > 0
    BY <1>1, <1>3
  <1>5. "WRITING" \in Kinds
    BY DEF Kinds
  <1> QED BY <1>1, <1>2, <1>3, <1>4, <1>5 DEF InStream, ReadAt, Ongoing, RequestTypes, InTable

LEMMA MessageAt ==
  ASSUME NEW n \in Nat, Framed(msg, n), NEW p \in 3 .. Len(msg), msg[p].is = "count"
  PROVE  msg[p].n \in Nat /\ CountAt(msg, p, msg[p].n, n) /\ Len(msg) \in Nat
  <1>1. msg \in Seq(Units) /\ p \in 1 .. Len(msg)
    BY DEF Framed
  <1>2. msg[p] \in Units
    BY <1>1
  <1> QED BY <1>1, <1>2, UnitTypes DEF Framed

Counted1(c, s) == [os EXCEPT !.iStream = @ + 1, !.cbChunk = c, !.iChunk = 0,
                             !.iChunkStart = os.iStream + 1, !.state = s]
LEMMA CountedIs ==
  ASSUME os \in OsPlaces, NEW c \in Int, NEW s \in States
  PROVE  /\ Counted1(c, s) \in OsPlaces
         /\ SameBut(Counted1(c, s), os, {"iStream", "cbChunk", "iChunk", "iChunkStart", "state"})
         /\ Counted1(c, s).iStream = os.iStream + 1 /\ Counted1(c, s).cbChunk = c
         /\ Counted1(c, s).iChunkStart = os.iStream + 1 /\ Counted1(c, s).state = s
  <1> DEFINE a == [os EXCEPT !.iStream = os.iStream + 1]
             b == [a EXCEPT !.cbChunk = c]
             d == [b EXCEPT !.iChunk = 0]
             e == [d EXCEPT !.iChunkStart = os.iStream + 1]
             f == [e EXCEPT !.state = s]
  <1>0. os.iStream + 1 \in Int /\ 0 \in Int
    BY PlaceIs
  <1>1. a \in OsPlaces /\ a.iStream = os.iStream + 1 /\ SameBut(a, os, {"iStream"})
    BY <1>0, PlaceSet
  <1>2. b \in OsPlaces /\ b.cbChunk = c /\ SameBut(b, a, {"cbChunk"})
    <2> HIDE DEF a
    <2> QED BY <1>1, PlaceSet
  <1>3. d \in OsPlaces /\ SameBut(d, b, {"iChunk"})
    <2> HIDE DEF b
    <2> QED BY <1>0, <1>2, PlaceSet
  <1>4. e \in OsPlaces /\ e.iChunkStart = os.iStream + 1 /\ SameBut(e, d, {"iChunkStart"})
    <2> HIDE DEF d
    <2> QED BY <1>0, <1>3, PlaceSet
  <1>5. f \in OsPlaces /\ f.state = s /\ SameBut(f, e, {"state"})
    <2> HIDE DEF e
    <2> QED BY <1>4, StageSet
  <1>6. Counted1(c, s) = f
    BY DEF Counted1
  <1> HIDE DEF a, b, d, e, f
  <1> QED BY <1>1, <1>2, <1>3, <1>4, <1>5, <1>6 DEF SameBut

\* The write goes on with the same bytes.
LEMMA WriteGoesOn ==
  ASSUME NEW n \in Nat, WriteAt(n), Stage' = Stage, Stage \in {"ReadNextBinary", "ReadBinary"}, ~First',
         os'.state \in Parsing, os'.state # "ParseJSON", os'.iBinary = os.iBinary,
         os'.iBinaryDone = os.iBinaryDone, os'.write = os.write, UNCHANGED <<idata, usage, open>>,
         os'.state = "ReadCount" => os.state = "ReadCount"
  PROVE  WriteAt(n)'
  <1>1. Before => Before'
    BY DEF Before
  <1>2. Amid => Amid'
    BY DEF Amid
  <1>3. After => After'
    BY DEF After
  <1> QED BY <1>1, <1>2, <1>3 DEF WriteAt, NoWrite

LEMMA ReadCountKeeps ==
  ASSUME NEW r \in Requests, Ongoing(r), ReadCount
  PROVE  KeepsOn(r)
  <1> DEFINE n == r.bin
  <1>t. Turn("ReadCount") /\ "ReadCount" \in Parsing
    BY Stages DEF ReadCount
  <1>1. /\ os.state = "ReadCount" /\ io = "CONTINUE" /\ ~halted /\ os \in OsPlaces /\ n \in Nat /\ n > 0
        /\ InMessage(n) /\ WriteAt(n) /\ Framed(msg, n) /\ ~Busy
        /\ usage \in [Kinds -> Paths \cup {NoFile}] /\ open \in [Kinds -> BOOLEAN]
        /\ got \in Seq(Units) /\ Len(got) <= Room /\ (open["WRITING"] => usage["WRITING"] # NoFile)
        /\ (usage["READING"] # NoFile => n = 0)
    BY <1>t, ReadTurn
  <1>2. os.iStream \in Int /\ os.cbStream \in Int /\ os.base \in Int /\ os.iBinary \in Int /\ os.iStream < os.cbStream
    BY <1>1, <1>t, ReadTurn, PlaceIs DEF AtFileEnd
  <1> HIDE DEF n
  <1>3. UNCHANGED <<msg, req, fn, idata, usage, open, halted, got>>
    BY DEF ReadCount, file, wire
  <1>u. PosOf(os) \in Int /\ Unit = msg[PosOf(os) + 1]
    BY <1>2 DEF PosOf, Unit
  <1>4. CASE First
    <2>1. PosOf(os) = 0 /\ os.iBinary = 0 /\ os.nextChunk = "ParseJSON"
      BY <1>1, <1>4 DEF InMessage, Stage, First
    <2>2. Unit = Count(1)
      BY <1>1, <1>u, <2>1 DEF Framed
    <2>3. Unit.is = "count" /\ Unit.n = 1 /\ 1 # 0 /\ 1 \in Int
      BY <2>2, UnitTypes
    <2> DEFINE o == Counted1(1, "ParseJSON")
    <2>4. Went(o) /\ odata' = odata
      BY <2>1, <2>3 DEF ReadCount, Counted1
    <2>5. /\ o \in OsPlaces /\ o.iStream = os.iStream + 1 /\ o.cbChunk = 1 /\ o.iChunkStart = os.iStream + 1
          /\ o.state = "ParseJSON" /\ o.base = os.base /\ o.iBinary = os.iBinary /\ o.cbStream = os.cbStream
      BY <1>1, <2>3, Stages, CountedIs DEF SameBut
    <2> HIDE DEF o
    <2>6. WentTo(o) /\ LeftOf(o) = 1 /\ PosOf(o) = 1 /\ o.iStream <= o.cbStream
      BY <1>2, <2>1, <2>4, <2>5, WentEffect DEF LeftOf, PosOf
    <2>7. /\ os'.state = "ParseJSON" /\ os'.cbChunk = 1 /\ LeftOf(os') = 1 /\ PosOf(os') = 1 /\ os'.iBinary = 0
          /\ os' \in OsPlaces /\ io' \in {"READ", "CONTINUE"}
      BY <2>1, <2>5, <2>6 DEF WentTo, ChunkEnds
    <2>8. InStream'
      BY <2>5, <2>6, <2>7, WentStream
    <2>9. InMessage(n)'
      BY <1>1, <2>7, <2>8 DEF InMessage, Stage, First
    <2>10. WriteAt(n)'
      <3>1. idata = NoData /\ usage["WRITING"] = NoFile /\ ~Busy'
        BY <1>1, <1>3, <1>4 DEF WriteAt, NoneHeld, Busy, Kinds, RequestTypes, Ongoing
      <3> QED BY <1>3, <2>7, <3>1, Stages DEF WriteAt, NoWrite, Begins, Stage, First
    <2> QED BY <1>1, <1>3, <2>4, <2>7, <2>9, <2>10, Stages, ReadsOnKeeps DEF ReadsOn, n
  <1>5. CASE ~First
    <2>1. AtCount(os) /\ os.nextChunk \in {"ReadNextBinary", "ReadBinary"} /\ Stage = os.nextChunk
      BY <1>1, <1>5 DEF InMessage, Stage
    <2> DEFINE p == PosOf(os) + 1
               c == msg[p].n
    <2>2. /\ p \in 3 .. Len(msg) /\ msg[p].is = "count" /\ ToldAt(msg, p) = os.iBinary /\ PosOf(os) >= 2
      <3>1. Len(msg) \in Nat
        BY <1>1 DEF Framed
      <3> QED BY <1>u, <2>1, <3>1 DEF AtCount
    <2>3. c \in Nat /\ CountAt(msg, p, c, n) /\ Len(msg) \in Nat
      BY <1>1, <2>2, MessageAt
    <2>4. Unit.is = "count" /\ Unit.n = c
      BY <1>u, <2>2
    <2> HIDE DEF p, c
    <2>5. CASE c = 0
      <3> DEFINE o == Counted1(0, "OutputJSON")
      <3>1. Went(o) /\ odata' = odata
        BY <2>4, <2>5 DEF ReadCount, Counted1
      <3>2. o \in OsPlaces /\ o.cbChunk = 0 /\ o.state = "OutputJSON"
        <4>1. 0 \in Int
          OBVIOUS
        <4> QED BY <1>1, <4>1, Stages, CountedIs
      <3> HIDE DEF o
      <3>3. os'.state = "OutputJSON" /\ os' \in OsPlaces /\ io' \in {"READ", "CONTINUE"}
        BY <3>1, <3>2, WentEffect DEF WentTo, ChunkEnds
      <3>4. os.iBinary = n
        BY <2>2, <2>3, <2>5 DEF CountAt
      <3>5. usage["WRITING"] = NoFile
        <4>1. CASE idata = NoData
          BY <1>1, <2>1, <4>1 DEF WriteAt, NoWrite
        <4>2. CASE idata # NoData
          <5>1. idata.at \in Nat /\ idata.cb \in Nat /\ idata.at < n /\ idata.at + idata.cb <= n
            BY <1>1, <4>2 DEF WriteAt, Ongoing, RequestTypes
          <5>2. ~Before
            BY <1>1, <3>4, <5>1 DEF Before
          <5>3. ~Amid
            BY <1>1, <3>4, <5>1 DEF Amid
          <5> QED BY <1>1, <2>1, <4>2, <5>2, <5>3 DEF WriteAt, After
        <4> QED BY <4>1, <4>2
      <3>6. WriteAt(n)'
        BY <1>1, <1>3, <3>3, <3>5, Stages DEF WriteAt, First, Stage
      <3> QED BY <1>1, <1>3, <3>1, <3>3, <3>6, Stages, ReadsOnKeeps DEF ReadsOn, n
    <2>6. CASE c # 0
      <3> DEFINE o == Counted1(c, os.nextChunk)
      <3>1. Went(o) /\ odata' = odata
        BY <2>4, <2>6 DEF ReadCount, Counted1
      <3>2. /\ o \in OsPlaces /\ o.iStream = os.iStream + 1 /\ o.cbChunk = c /\ o.iChunkStart = os.iStream + 1
            /\ o.state = os.nextChunk /\ o.base = os.base /\ o.iBinary = os.iBinary /\ o.cbStream = os.cbStream
            /\ o.iBinaryDone = os.iBinaryDone /\ o.write = os.write
        <4>1. c \in Int /\ os.nextChunk \in States
          BY <2>1, <2>3, Stages
        <4> QED BY <1>1, <4>1, CountedIs DEF SameBut
      <3> HIDE DEF o
      <3>3. LeftOf(o) = c /\ PosOf(o) = p /\ p \in Int /\ p >= 3 /\ o.iStream <= o.cbStream
        <4>1. c \in Int /\ p \in Int /\ p >= 3 /\ p = os.base + os.iStream + 1
          BY <1>2, <2>2, <2>3 DEF PosOf, p
        <4> HIDE DEF p
        <4>2. LeftOf(o) = c - ((os.iStream + 1) - (os.iStream + 1)) /\ PosOf(o) = os.base + (os.iStream + 1)
          BY <3>2 DEF LeftOf, PosOf
        <4>3. os.iStream + 1 <= os.cbStream
          BY <1>2
        <4> QED BY <1>2, <3>2, <4>1, <4>2, <4>3
      <3>4. /\ p + c + 1 <= Len(msg) /\ msg[p + c + 1].is = "count" /\ os.iBinary + c <= n
            /\ \A k \in 1 .. c : msg[p + k] = Data(os.iBinary + k)
        BY <2>2, <2>3, <2>6 DEF CountAt
      <3>5. ToldAt(msg, p + c + 1) = os.iBinary + c
        <4>1. c \in 1 .. c /\ p + c + 1 # 3 /\ p + c + 1 - 1 = p + c
          BY <2>3, <2>6, <3>3
        <4>2. msg[p + c] = Data(os.iBinary + c) /\ os.iBinary + c \in Int
          BY <1>2, <2>3, <3>4, <4>1
        <4>3. msg[p + c].n = os.iBinary + c
          BY <4>2 DEF Data
        <4> DEFINE x == p + c + 1
        <4>4. x # 3 /\ msg[x - 1] = msg[p + c]
          BY <2>3, <3>3, <4>1
        <4> HIDE DEF x
        <4>5. ToldAt(msg, x) = msg[x - 1].n
          BY <4>4 DEF ToldAt
        <4>6. ToldAt(msg, x) = os.iBinary + c
          BY <4>3, <4>4, <4>5
        <4> QED BY <4>6 DEF x
      <3>6. InChunk(o, n)
        BY <2>3, <2>6, <3>2, <3>3, <3>4, <3>5 DEF InChunk
      <3>7. WentTo(o)
        BY <3>1, <3>2, WentEffect
      <3>8. /\ Stage' = o.state /\ ~First' /\ os'.state # "ParseJSON" /\ InStream'
            /\ os'.state = o.state /\ InChunk(os', n) /\ LeftOf(os') # 0 /\ os'.iChunk = os'.cbChunk - LeftOf(os')
        BY <1>1, <1>3, <2>1, <2>6, <3>2, <3>3, <3>6, <3>7, ChunkGoesOn
      <3>9. InMessage(n)'
        <4>1. /\ os'.state \in {"ReadNextBinary", "ReadBinary"} /\ Stage' \in {"ReadNextBinary", "ReadBinary"}
          BY <2>1, <3>2, <3>8
        <4> QED BY <1>1, <1>3, <3>8, <4>1 DEF InMessage, InChunk
      <3>10. WriteAt(n)'
        <4>1. os'.state \in Parsing /\ os'.state # "ReadCount"
          BY <2>1, <3>2, <3>8, Stages
        <4> QED BY <1>1, <1>3, <2>1, <3>2, <3>7, <3>8, <4>1, WriteGoesOn DEF WentTo
      <3>11. os' \in OsPlaces /\ io' \in {"READ", "CONTINUE"} /\ os'.state \in Parsing
        BY <2>1, <3>2, <3>7, <3>8, Stages DEF WentTo
      <3> QED BY <1>1, <1>3, <3>1, <3>9, <3>10, <3>11, Stages, ReadsOnKeeps DEF ReadsOn, n
    <2> QED BY <2>5, <2>6
  <1> QED BY <1>4, <1>5

\* A turn of the bytes leaves the request within its message.
LEMMA BytesGoOn ==
  ASSUME NEW o \in OsPlaces, NEW n \in Nat \ {0}, WentTo(o), UNCHANGED msg, InChunk(o, n), o.iStream <= o.cbStream,
         o.state \in {"ReadNextBinary", "ReadBinary"}
  PROVE  /\ InMessage(n)' /\ Stage' = o.state /\ ~First' /\ os'.state # "ParseJSON"
         /\ os'.state \in {"ReadCount", "ReadNextBinary", "ReadBinary"}
  <1>1. /\ Stage' = o.state /\ ~First' /\ os'.state # "ParseJSON" /\ InStream'
        /\ IF LeftOf(o) = 0 THEN os'.state = "ReadCount" /\ AtCount(os')
           ELSE os'.state = o.state /\ InChunk(os', n) /\ LeftOf(os') # 0 /\ os'.iChunk = os'.cbChunk - LeftOf(os')
    BY ChunkGoesOn
  <1>2. Stage' # "ParseJSON" /\ Stage' \in {"ReadNextBinary", "ReadBinary"}
    BY <1>1
  <1>3. os'.state \in {"ReadCount", "ReadNextBinary", "ReadBinary"}
    BY <1>1
  <1>4. AtCount(os') => AtCount(os)'
    BY DEF AtCount, PosOf, ToldAt
  <1>5. InChunk(os', n) => InChunk(os, n)'
    BY DEF InChunk, PosOf, LeftOf, ToldAt
  <1>6. LeftOf(os') = LeftOf(os)'
    BY DEF LeftOf
  <1>7. InMessage(n)'
    <2>1. CASE LeftOf(o) = 0
      <3>1. os'.state = "ReadCount" /\ AtCount(os)' /\ os'.state \notin {"ReadNextBinary", "ReadBinary"}
        BY <1>1, <1>4, <2>1
      <3> QED BY <1>1, <1>2, <3>1 DEF InMessage
    <2>2. CASE LeftOf(o) # 0
      <3>1. os'.state # "ReadCount" /\ InChunk(os, n)' /\ LeftOf(os)' # 0 /\ os'.iChunk = os'.cbChunk - LeftOf(os)'
        BY <1>1, <1>5, <1>6, <2>2
      <3> QED BY <1>1, <1>2, <3>1 DEF InMessage
    <2> QED BY <2>1, <2>2
  <1> QED BY <1>1, <1>3, <1>7

LEMMA FailedIs ==
  ASSUME os \in OsPlaces, Went(Failed(os)), ~ChunkEnds(os)
  PROVE  os'.state = "OutputJSON" /\ os' \in OsPlaces /\ io' \in {"READ", "CONTINUE"} /\ os'.fError
  <1> DEFINE a == [os EXCEPT !.state = "OutputJSON"]
             b == [a EXCEPT !.fError = TRUE]
  <1>1. a \in OsPlaces /\ a.state = "OutputJSON" /\ SameBut(a, os, {"state"})
    BY Stages, StageSet
  <1>2. b \in OsPlaces /\ b.fError = TRUE /\ SameBut(b, a, {"fError"})
    <2>1. TRUE \in BOOLEAN
      OBVIOUS
    <2> HIDE DEF a
    <2> QED BY <1>1, <2>1, FlagSet
  <1>3. Failed(os) = b
    BY DEF Failed
  <1> HIDE DEF a, b
  <1>4. WentTo(b) /\ b.state = "OutputJSON" /\ b.cbChunk = os.cbChunk /\ b.iStream = os.iStream /\ b.iChunkStart = os.iChunkStart
    BY <1>1, <1>2, <1>3, WentEffect DEF SameBut
  <1>5. ~ChunkEnds(b)
    BY <1>4 DEF ChunkEnds, LeftOf
  <1> QED BY <1>2, <1>4, <1>5 DEF WentTo

\* The request is given up, or has all it needs.
LEMMA Answered ==
  ASSUME NEW n \in Nat, WriteAt(n), UNCHANGED <<fn, idata>>, usage'["WRITING"] = NoFile,
         os'.state = "OutputJSON"
  PROVE  WriteAt(n)'
  <1>1. os'.state \notin Parsing /\ os'.state # "ReadCount" /\ Stage' = "OutputJSON" /\ ~First'
    BY Stages DEF Stage, First
  <1> QED BY <1>1 DEF WriteAt

LEMMA JsonDoneKeeps ==
  ASSUME NEW r \in Requests, Ongoing(r), JsonDone
  PROVE  KeepsOn(r)
  <1> DEFINE n == r.bin
  <1>t. Turn("ParseJSON") /\ "ParseJSON" \in Parsing /\ fn.i > Len(req)
    BY Stages DEF JsonDone
  <1>1. /\ os.state = "ParseJSON" /\ io = "CONTINUE" /\ ~halted /\ os \in OsPlaces /\ n \in Nat
        /\ InMessage(n) /\ WriteAt(n) /\ (n > 0 => Framed(msg, n))
        /\ usage \in [Kinds -> Paths \cup {NoFile}] /\ open \in [Kinds -> BOOLEAN]
        /\ got \in Seq(Units) /\ Len(got) <= Room /\ (open["WRITING"] => usage["WRITING"] # NoFile)
    BY <1>t, ReadTurn
  <1>2. os.iStream \in Int /\ os.cbStream \in Int /\ os.base \in Int /\ os.iBinary \in Int /\ os.iStream < os.cbStream
    BY <1>1, <1>t, ReadTurn, PlaceIs DEF AtFileEnd
  <1>3. UNCHANGED <<msg, req, fn, idata, odata, usage, open, halted, got>>
    BY DEF JsonDone, request, file, wire
  <1>4. ~Busy /\ ~First /\ Stage = "ParseJSON"
    <2>1. fn.i \in Nat /\ Len(req) \in Nat
      BY DEF Ongoing, RequestTypes
    <2>2. ~(fn.i <= Len(req))
      BY <1>t, <2>1
    <2> QED BY <1>1, <2>2 DEF Ongoing, InTable, First, Stage
  <1> DEFINE s == IF os.cbChunk > 0 THEN "ReadNextBinary" ELSE "OutputJSON"
             a == [os EXCEPT !.iStream = os.iStream + 1]
             o == [a EXCEPT !.state = s]
  <1>5. s \in States /\ os.iStream + 1 \in Int
    BY <1>2, Stages
  <1>6. a \in OsPlaces /\ a.iStream = os.iStream + 1 /\ SameBut(a, os, {"iStream"})
    BY ZenonT(40), <1>1, <1>5, PlaceSet
  <1>7. o \in OsPlaces /\ o.state = s /\ SameBut(o, a, {"state"})
    <2> HIDE DEF a, s
    <2> QED BY <1>5, <1>6, StageSet
  <1>8. Went(o)
    BY DEF JsonDone
  <1> HIDE DEF o, a, n
  <1>9. /\ o.iStream = os.iStream + 1 /\ o.cbChunk = os.cbChunk /\ o.iChunkStart = os.iChunkStart
        /\ o.cbStream = os.cbStream /\ o.base = os.base /\ o.iBinary = os.iBinary
    BY <1>6, <1>7 DEF SameBut
  <1>10. WentTo(o) /\ o.iStream <= o.cbStream
    BY <1>2, <1>7, <1>8, <1>9, WentEffect
  <1>11. CASE n = 0
    <2>1. o.cbChunk = 0 /\ o.state = "OutputJSON"
      BY <1>1, <1>7, <1>9, <1>11 DEF InMessage
    <2>2. os'.state = "OutputJSON" /\ os' \in OsPlaces /\ io' \in {"READ", "CONTINUE"}
      BY <1>10, <2>1 DEF WentTo, ChunkEnds
    <2>3. usage["WRITING"] = NoFile
      <3>1. idata # NoData => FALSE
        BY <1>1, <1>11 DEF WriteAt
      <3> QED BY <1>1, <1>4, <3>1 DEF WriteAt, NoWrite, Begins
    <2>4. WriteAt(n)'
      BY <1>1, <1>3, <2>2, <2>3, Answered
    <2> QED BY <1>1, <1>3, <1>4, <2>2, <2>4, <1>t, Stages, ReadsOnKeeps DEF ReadsOn, n
  <1>12. CASE n > 0
    <2>1. PosOf(os) = 1 /\ os.cbChunk = 1 /\ LeftOf(os) = 1 /\ os.iBinary = 0
      BY <1>1, <1>4, <1>12 DEF InMessage
    <2>2. o.cbChunk > 0 /\ LeftOf(o) = 0 /\ PosOf(o) = 2 /\ o.state = "ReadNextBinary"
      <3>1. os.iChunkStart \in Int
        BY <1>1, PlaceIs
      <3> QED BY <1>2, <1>7, <1>9, <2>1, <3>1 DEF LeftOf, PosOf
    <2>3. /\ os'.state = "ReadCount" /\ os'.nextChunk = "ReadNextBinary" /\ PosOf(os)' = 2 /\ os'.iBinary = 0
          /\ os' \in OsPlaces /\ io' \in {"READ", "CONTINUE"}
      BY <1>9, <1>10, <2>1, <2>2 DEF WentTo, ChunkEnds, PosOf
    <2>4. InStream'
      BY <1>7, <1>10, <2>3, WentStream
    <2>5. AtCount(os)'
      <3>1. Len(msg) \in Nat /\ Len(msg) >= 4 /\ msg[3].is = "count"
        BY <1>1, <1>12 DEF Framed
      <3>2. PosOf(os)' + 1 = 3 /\ 3 <= Len(msg)
        BY <2>3, <3>1
      <3> QED BY <1>3, <2>3, <3>1, <3>2 DEF AtCount, ToldAt
    <2>6. Stage' = "ReadNextBinary" /\ ~First'
      BY <2>3 DEF Stage, First
    <2>7. InMessage(n)'
      BY <1>12, <2>3, <2>4, <2>5, <2>6 DEF InMessage
    <2>8. WriteAt(n)'
      <3>1. idata # NoData => Before'
        BY <1>1, <1>3, <1>4, <2>3, <2>6 DEF WriteAt, Begins, Before, NoWrite
      <3>2. idata = NoData => NoWrite
        BY <1>1, <1>4 DEF WriteAt, Begins
      <3>3. os'.state \in Parsing
        BY <2>3, Stages
      <3> QED BY <1>1, <1>3, <2>3, <2>6, <3>1, <3>2, <3>3 DEF WriteAt, NoWrite
    <2> QED BY <1>1, <1>3, <1>4, <2>3, <2>7, <2>8, <1>t, Stages, ReadsOnKeeps DEF ReadsOn, n
  <1> QED BY <1>1, <1>11, <1>12

LEMMA SyntaxErrorKeeps ==
  ASSUME NEW r \in Requests, Ongoing(r), SyntaxError, "syntax" \notin Faults
  PROVE  KeepsOn(r)
  <1> DEFINE n == r.bin
  <1>t. Turn("ParseJSON") /\ "ParseJSON" \in Parsing /\ ~Busy /\ NoneHeld
    BY Stages DEF SyntaxError, Busy
  <1>1. /\ os.state = "ParseJSON" /\ io = "CONTINUE" /\ ~halted /\ os \in OsPlaces /\ n \in Nat
        /\ InMessage(n) /\ WriteAt(n)
        /\ usage \in [Kinds -> Paths \cup {NoFile}] /\ open \in [Kinds -> BOOLEAN]
        /\ got \in Seq(Units) /\ Len(got) <= Room /\ (open["WRITING"] => usage["WRITING"] # NoFile)
    BY <1>t, ReadTurn
  <1>2. /\ UNCHANGED <<msg, fn, idata, usage, open, halted, got>>
        /\ Went(Failed(os)) /\ odata' = <<>> /\ req' = <<>>
    BY DEF SyntaxError, file, wire
  <1>3. usage["WRITING"] = NoFile /\ usage["READING"] = NoFile
    BY <1>1, <1>t DEF NoneHeld, Kinds
  <1>4. ~ChunkEnds(os)
    BY <1>1 DEF InMessage, Stage, First, ChunkEnds
  <1>5. os'.state = "OutputJSON" /\ os' \in OsPlaces /\ io' \in {"READ", "CONTINUE"}
    BY <1>1, <1>2, <1>4, FailedIs
  <1>6. WriteAt(n)'
    BY <1>1, <1>2, <1>3, <1>5, Answered
  <1> QED BY <1>1, <1>2, <1>3, <1>5, <1>6, <1>t, Stages, ReadsOnKeeps DEF ReadsOn

\* Where the request is when a turn reads its bytes.
LEMMA BytesTurn ==
  ASSUME NEW r \in Requests, Ongoing(r), NEW s \in {"ReadNextBinary", "ReadBinary"}, Turn(s)
  PROVE  /\ os.state = s /\ s \in Parsing /\ io = "CONTINUE" /\ os \in OsPlaces /\ r.bin \in Nat \ {0} /\ ~Busy
         /\ InMessage(r.bin) /\ WriteAt(r.bin) /\ InChunk(os, r.bin) /\ (LeftOf(os) = 0 => AtFileEnd)
         /\ (os.iChunk = os.cbChunk - LeftOf(os) \/ (AtFileEnd /\ os.iChunk <= os.cbChunk))
         /\ usage \in [Kinds -> Paths \cup {NoFile}] /\ open \in [Kinds -> BOOLEAN]
         /\ got \in Seq(Units) /\ Len(got) <= Room /\ (open["WRITING"] => usage["WRITING"] # NoFile)
         /\ usage["READING"] = NoFile /\ Stage = s /\ LeftOf(os) \in Nat
         /\ os.iStream \in Int /\ os.cbStream \in Int /\ os.iBinary \in Int /\ os.iBinaryDone \in Int
         /\ os.cbChunk \in Int /\ os.iChunk \in Int
         /\ os.iStream <= os.cbStream /\ (os.iStream < os.cbStream \/ AtFileEnd)
         /\ idata \in [at : Nat \cup {-1}, cb : Nat]
         /\ (idata # NoData => idata.at \in Nat /\ idata.cb \in Nat /\ (Before \/ Amid \/ After))
         /\ (idata = NoData => s = "ReadNextBinary" /\ os.iBinary = 0 /\ NoWrite)
  <1>1. s \in Parsing /\ s # "ParseJSON" /\ s # "ReadCount"
    BY Stages
  <1>2. /\ os.state = s /\ io = "CONTINUE" /\ ~halted /\ os \in OsPlaces /\ r.bin \in Nat
        /\ InMessage(r.bin) /\ InStream /\ WriteAt(r.bin) /\ ReadAt(r.bin)
        /\ ~Busy /\ r.bin > 0
        /\ os.iStream <= os.cbStream /\ (os.iStream < os.cbStream \/ AtFileEnd)
        /\ usage \in [Kinds -> Paths \cup {NoFile}] /\ open \in [Kinds -> BOOLEAN]
        /\ got \in Seq(Units) /\ Len(got) <= Room
        /\ (open["WRITING"] => usage["WRITING"] # NoFile) /\ (usage["READING"] # NoFile => r.bin = 0)
    BY <1>1, ReadTurn
  <1>3. Stage = s
    BY <1>1, <1>2 DEF Stage
  <1>4. /\ InChunk(os, r.bin) /\ (LeftOf(os) = 0 => AtFileEnd)
        /\ (os.iChunk = os.cbChunk - LeftOf(os) \/ (AtFileEnd /\ os.iChunk <= os.cbChunk))
    BY <1>2 DEF InMessage
  <1>5. /\ os.iStream \in Int /\ os.cbStream \in Int /\ os.iBinary \in Int /\ os.iBinaryDone \in Int
        /\ os.cbChunk \in Int /\ os.iChunk \in Int /\ os.iChunkStart \in Int
    BY <1>2, PlaceIs
  <1>6. LeftOf(os) \in Nat
    BY SMTT(30), <1>4, <1>5 DEF InChunk, LeftOf
  <1>7. idata \in [at : Nat \cup {-1}, cb : Nat] /\ r.bin \in Nat \ {0}
    BY <1>2 DEF Ongoing, RequestTypes
  <1>8. idata # NoData => idata.at \in Nat /\ idata.cb \in Nat /\ (Before \/ Amid \/ After)
    BY <1>2, <1>3, <1>7 DEF WriteAt
  <1>9. idata = NoData => s = "ReadNextBinary" /\ os.iBinary = 0 /\ NoWrite
    BY <1>2, <1>3 DEF WriteAt
  <1> QED BY <1>1, <1>2, <1>3, <1>4, <1>5, <1>6, <1>7, <1>8, <1>9

\* What is left to show of a turn of the bytes.
LEMMA BytesKeep ==
  ASSUME NEW r \in Requests, Ongoing(r), NEW s \in {"ReadNextBinary", "ReadBinary"}, Turn(s),
         UNCHANGED <<msg, req, fn, idata, odata>>, UNCHANGED halted \/ ~halted',
         os' \in OsPlaces, io' \in {"READ", "CONTINUE"}, os'.state \in Parsing,
         UNCHANGED usage \/ usage' = [usage EXCEPT !["WRITING"] = NoFile],
         UNCHANGED open \/ open' = [open EXCEPT !["WRITING"] = FALSE],
         open'["WRITING"] => usage'["WRITING"] # NoFile,
         got' \in Seq(Units), Len(got') <= Room,
         InMessage(r.bin)', WriteAt(r.bin)'
  PROVE  KeepsOn(r)
  <1>1. /\ os.state \in Parsing /\ io = "CONTINUE" /\ ~Busy
        /\ usage \in [Kinds -> Paths \cup {NoFile}] /\ open \in [Kinds -> BOOLEAN]
    BY BytesTurn
  <1>2. /\ usage'["READING"] = usage["READING"] /\ open'["READING"] = open["READING"]
        /\ usage' \in [Kinds -> Paths \cup {NoFile}] /\ open' \in [Kinds -> BOOLEAN]
    BY <1>1 DEF Kinds
  <1> QED BY <1>1, <1>2, ReadsOnKeeps DEF ReadsOn

LEMMA ReadNextBinaryKeeps ==
  ASSUME NEW r \in Requests, Ongoing(r), ReadNextBinary
  PROVE  KeepsOn(r)
  <1> DEFINE n == r.bin
  <1>t. Turn("ReadNextBinary")
    BY DEF ReadNextBinary
  <1>1. /\ os.state = "ReadNextBinary" /\ "ReadNextBinary" \in Parsing /\ io = "CONTINUE"
        /\ os \in OsPlaces /\ n \in Nat \ {0} /\ ~Busy
        /\ InMessage(n) /\ WriteAt(n) /\ InChunk(os, n) /\ (LeftOf(os) = 0 => AtFileEnd)
        /\ usage \in [Kinds -> Paths \cup {NoFile}] /\ open \in [Kinds -> BOOLEAN]
        /\ got \in Seq(Units) /\ Len(got) <= Room /\ (open["WRITING"] => usage["WRITING"] # NoFile)
        /\ usage["READING"] = NoFile /\ Stage = "ReadNextBinary" /\ LeftOf(os) \in Nat
        /\ os.iStream \in Int /\ os.cbStream \in Int /\ os.iBinary \in Int
        /\ os.iStream <= os.cbStream
        /\ idata \in [at : Nat \cup {-1}, cb : Nat]
        /\ (idata # NoData => idata.at \in Nat /\ idata.cb \in Nat /\ (Before \/ Amid \/ After))
        /\ (idata = NoData => os.iBinary = 0 /\ NoWrite)
    BY <1>t, BytesTurn
  <1>2. UNCHANGED <<msg, req, fn, idata, usage, open, halted, got>>
    BY DEF ReadNextBinary, file, wire
  <1>3. ~AtFileEnd /\ LeftOf(os) # 0 /\ ~Amid
    BY <1>1 DEF AtFileEnd, Amid
  <1>4. CASE idata.at >= os.iBinary
    <2> DEFINE now == idata.at = os.iBinary
               done == IF now THEN idata.at + idata.cb ELSE idata.at
               a == [os EXCEPT !.state = "ReadBinary"]
               b == [a EXCEPT !.write = now]
               o == [b EXCEPT !.iBinaryDone = done]
    <2>1. Went(o) /\ odata' = odata
      BY <1>4 DEF ReadNextBinary
    <2>2. now \in BOOLEAN /\ done \in Int /\ "ReadBinary" \in States
      BY <1>1, Stages
    <2>3. a \in OsPlaces /\ a.state = "ReadBinary" /\ SameBut(a, os, {"state"})
      BY <1>1, <2>2, StageSet
    <2>4. b \in OsPlaces /\ b.write = now /\ SameBut(b, a, {"write"})
      <3> HIDE DEF a, now
      <3> QED BY <2>2, <2>3, FlagSet
    <2>5. o \in OsPlaces /\ o.iBinaryDone = done /\ SameBut(o, b, {"iBinaryDone"})
      <3> HIDE DEF b, done
      <3> QED BY <2>2, <2>4, PlaceSet
    <2> HIDE DEF o, b, a, n
    <2>6. /\ o.state = "ReadBinary" /\ o.write = now /\ o.iBinaryDone = done /\ o.iBinary = os.iBinary
          /\ o.base = os.base /\ o.iStream = os.iStream /\ o.cbStream = os.cbStream /\ o.cbChunk = os.cbChunk
          /\ o.iChunkStart = os.iChunkStart
      BY <2>3, <2>4, <2>5 DEF SameBut
    <2>7. InChunk(o, n) /\ LeftOf(o) = LeftOf(os) /\ WentTo(o) /\ o.iStream <= o.cbStream
      <3>1. PosOf(o) = PosOf(os) /\ LeftOf(o) = LeftOf(os)
        BY <2>6 DEF PosOf, LeftOf
      <3> QED BY <1>1, <2>1, <2>5, <2>6, <3>1, WentEffect DEF InChunk
    <2>8. /\ InMessage(n)' /\ Stage' = "ReadBinary" /\ ~First' /\ os'.state # "ParseJSON"
          /\ os'.state \in {"ReadCount", "ReadNextBinary", "ReadBinary"}
      BY <1>1, <1>2, <2>5, <2>6, <2>7, BytesGoOn
    <2>9. os'.state = "ReadBinary"
      BY <1>3, <2>6, <2>7 DEF WentTo, ChunkEnds
    <2>10. os'.iBinary = os.iBinary /\ os'.iBinaryDone = done /\ os'.write = now /\ os' \in OsPlaces /\ io' \in {"READ", "CONTINUE"}
      BY <2>6, <2>7 DEF WentTo
    <2>11. WriteAt(n)'
      <3>1. CASE idata = NoData
        <4>1. idata.at = -1
          BY <3>1 DEF NoData
        <4> QED BY <1>1, <1>4, <3>1, <4>1
      <3>2. CASE idata # NoData
        <4>1. CASE now
          <5>0. /\ os'.iBinary = idata.at /\ os'.iBinaryDone = idata.at + idata.cb /\ idata' = idata
                /\ idata.at \in Nat /\ idata.cb \in Nat
            BY <1>1, <1>2, <2>10, <3>2, <4>1
          <5>w. os'.write
            <6> HIDE DEF done
            <6> QED BY <2>10, <4>1, Zenon
          <5>1. Amid'
            BY <2>8, <2>9, <5>0, <5>w DEF Amid
          <5> QED BY <1>1, <1>2, <2>8, <2>9, <3>2, <5>1, Stages DEF WriteAt
        <4>2. CASE ~now
          <5>1. os.iBinary < idata.at
            BY <1>1, <1>4, <3>2, <4>2
          <5>2. Before
            BY <1>1, <1>3, <3>2, <5>1 DEF After
          <5>3. Before'
            BY <1>2, <2>8, <2>10, <4>2, <5>1, <5>2 DEF Before
          <5> QED BY <1>1, <1>2, <2>8, <2>9, <3>2, <5>3, Stages DEF WriteAt
        <4> QED BY <4>1, <4>2
      <3> QED BY <3>1, <3>2
    <2> QED BY <1>1, <1>2, <1>t, <2>1, <2>8, <2>9, <2>10, <2>11, Stages, BytesKeep DEF n
  <1>5. CASE ~(idata.at >= os.iBinary)
    <2>1. Went(Failed(os)) /\ odata' = <<>>
      BY <1>5 DEF ReadNextBinary
    <2>2. os'.state = "OutputJSON" /\ os' \in OsPlaces /\ io' \in {"READ", "CONTINUE"}
      BY <1>1, <1>3, <2>1, FailedIs DEF ChunkEnds
    <2>3. usage["WRITING"] = NoFile
      <3>1. CASE idata = NoData
        BY <1>1, <3>1 DEF NoWrite
      <3>2. CASE idata # NoData
        <4>1. ~Before
          BY <1>1, <1>5, <3>2 DEF Before
        <4> QED BY <1>1, <1>3, <3>2, <4>1 DEF After
      <3> QED BY <3>1, <3>2
    <2>4. WriteAt(n)'
      BY <1>1, <1>2, <2>2, <2>3, Answered
    <2> QED BY <1>1, <1>2, <2>1, <2>2, <2>4, <1>t, Stages, ReadsOnKeeps DEF ReadsOn
  <1> QED BY <1>4, <1>5

\* How many bytes a turn takes at most, and that it takes some but at the end of the file.
LEMMA CbWriteIs ==
  ASSUME NEW r \in Requests, Ongoing(r), Turn("ReadBinary")
  PROVE  /\ CbWrite(os) \in Nat /\ CbWrite(os) <= LeftOf(os) /\ CbWrite(os) <= os.cbStream - os.iStream
         /\ CbWrite(os) <= os.iBinaryDone - os.iBinary /\ (CbWrite(os) = 0 <=> AtFileEnd)
         /\ idata # NoData /\ IF os.write THEN Amid ELSE Before
         /\ os.iBinary <= os.iBinaryDone /\ os.iChunk <= os.cbChunk
  <1>1. /\ os.state = "ReadBinary" /\ (LeftOf(os) = 0 => AtFileEnd)
        /\ (os.iChunk = os.cbChunk - LeftOf(os) \/ (AtFileEnd /\ os.iChunk <= os.cbChunk))
        /\ Stage = "ReadBinary" /\ LeftOf(os) \in Nat
        /\ os.iStream \in Int /\ os.cbStream \in Int /\ os.iBinary \in Int /\ os.iBinaryDone \in Int
        /\ os.cbChunk \in Int /\ os.iChunk \in Int
        /\ os.iStream <= os.cbStream /\ (os.iStream < os.cbStream \/ AtFileEnd)
        /\ idata \in [at : Nat \cup {-1}, cb : Nat] /\ idata # NoData
        /\ idata.at \in Nat /\ idata.cb \in Nat /\ (Before \/ Amid \/ After)
    BY BytesTurn
  <1>2. IF os.write THEN Amid ELSE Before
    BY <1>1 DEF Before, Amid, After
  <1>3. os.iBinary <= os.iBinaryDone /\ (os.iBinary = os.iBinaryDone => os.write)
    BY <1>1, <1>2 DEF Before, Amid
  <1>4. AtFileEnd <=> os.iBinary = os.iBinaryDone
    BY <1>1, <1>3 DEF AtFileEnd
  <1> DEFINE a == os.cbStream - os.iStream
             b == os.cbChunk - os.iChunk
             c == os.iBinaryDone - os.iBinary
  <1>5. /\ a \in Nat /\ b \in Nat /\ c \in Nat /\ (c = 0 <=> AtFileEnd)
        /\ (~AtFileEnd => a > 0 /\ b > 0 /\ b = LeftOf(os))
    BY <1>1, <1>3, <1>4
  <1>6. CbWrite(os) = Least(Least(a, b), c)
    BY DEF CbWrite
  <1> HIDE DEF a, b, c
  <1>7. /\ CbWrite(os) \in Nat /\ CbWrite(os) <= a /\ CbWrite(os) <= b /\ CbWrite(os) <= c
        /\ CbWrite(os) \in {a, b, c}
    BY <1>5, <1>6 DEF Least
  <1>8. CbWrite(os) = 0 <=> AtFileEnd
    BY <1>5, <1>7
  <1>9. CbWrite(os) <= LeftOf(os)
    BY <1>1, <1>5, <1>7, <1>8
  <1>10. os.iChunk <= os.cbChunk
    BY <1>1, <1>5 DEF b
  <1> QED BY <1>1, <1>2, <1>3, <1>7, <1>8, <1>9, <1>10 DEF a, c

LEMMA SkipBinaryKeeps ==
  ASSUME NEW r \in Requests, Ongoing(r), SkipBinary
  PROVE  KeepsOn(r)
  <1> DEFINE n == r.bin
             k == CbWrite(os)
             t == Taken(os, k)
             s == IF t.iBinary = t.iBinaryDone THEN "ReadNextBinary" ELSE "ReadBinary"
             o == [t EXCEPT !.state = s]
  <1>t. Turn("ReadBinary") /\ ~os.write
    BY DEF SkipBinary
  <1>1. /\ os.state = "ReadBinary" /\ io = "CONTINUE" /\ os \in OsPlaces /\ n \in Nat \ {0}
        /\ WriteAt(n) /\ InChunk(os, n)
        /\ got \in Seq(Units) /\ Len(got) <= Room /\ (open["WRITING"] => usage["WRITING"] # NoFile)
        /\ os.iStream \in Int /\ os.cbStream \in Int /\ os.iBinary \in Int /\ os.iBinaryDone \in Int
    BY <1>t, BytesTurn
  <1>2. UNCHANGED <<msg, req, fn, idata, odata, usage, open, halted, got>>
    BY DEF SkipBinary, request, file, wire
  <1>3. /\ k \in Nat /\ k <= LeftOf(os) /\ k <= os.cbStream - os.iStream
        /\ k <= os.iBinaryDone - os.iBinary /\ idata # NoData /\ Before
    BY <1>t, CbWriteIs
  <1>4. Stage = "ReadBinary" /\ os.iBinaryDone = idata.at /\ usage["WRITING"] # NoFile /\ open["WRITING"]
    BY <1>1, <1>3 DEF Before, Stage
  <1> HIDE DEF k
  <1>5. /\ t \in OsPlaces /\ t.iStream = os.iStream + k /\ t.iBinary = os.iBinary + k
        /\ SameBut(t, os, {"iStream", "iBinary"})
        /\ InChunk(t, n) /\ LeftOf(t) = LeftOf(os) - k /\ PosOf(t) = PosOf(os) + k
    <2>1. k \in Int /\ n \in Nat
      BY <1>1, <1>3
    <2> QED BY <1>1, <1>3, <2>1, TakenIs, ChunkTaken
  <1>6. Went(o)
    <2>1. t.state = "ReadBinary"
      BY <1>1, <1>5 DEF SameBut
    <2> QED BY <2>1 DEF SkipBinary, k
  <1> HIDE DEF t
  <1>7. s \in States /\ s \in {"ReadNextBinary", "ReadBinary"}
    BY Stages
  <1>8. o \in OsPlaces /\ o.state = s /\ SameBut(o, t, {"state"})
    <2> HIDE DEF s
    <2> QED BY <1>5, <1>7, StageSet
  <1> HIDE DEF o
  <1>9. /\ o.iStream = os.iStream + k /\ o.iBinary = os.iBinary + k /\ o.iBinaryDone = os.iBinaryDone
        /\ o.write = os.write /\ o.cbStream = os.cbStream /\ InChunk(o, n) /\ o.iStream <= o.cbStream
    <2>1. o.base = t.base /\ o.iStream = t.iStream /\ o.cbChunk = t.cbChunk /\ o.iChunkStart = t.iChunkStart /\ o.iBinary = t.iBinary
      BY <1>8 DEF SameBut
    <2>2. PosOf(o) = PosOf(t) /\ LeftOf(o) = LeftOf(t)
      BY <2>1 DEF PosOf, LeftOf
    <2>3. InChunk(o, n)
      BY <1>5, <2>1, <2>2 DEF InChunk
    <2>4. o.iBinaryDone = os.iBinaryDone /\ o.write = os.write /\ o.cbStream = os.cbStream
      BY <1>5, <1>8 DEF SameBut
    <2> QED BY <1>1, <1>3, <1>5, <2>1, <2>3, <2>4
  <1>10. WentTo(o)
    BY <1>6, <1>8, WentEffect
  <1>11. /\ InMessage(n)' /\ Stage' = s /\ ~First' /\ os'.state # "ParseJSON"
         /\ os'.state \in {"ReadCount", "ReadNextBinary", "ReadBinary"}
    BY <1>1, <1>2, <1>7, <1>8, <1>9, <1>10, BytesGoOn
  <1>12. os' \in OsPlaces /\ io' \in {"READ", "CONTINUE"} /\ os'.state \in Parsing
    BY <1>10, <1>11, Stages DEF WentTo
  <1>13. os'.iBinary = os.iBinary + k /\ os'.iBinaryDone = idata.at /\ ~os'.write
    BY <1>t, <1>4, <1>9, <1>10 DEF WentTo
  <1>14. t.iBinaryDone = os.iBinaryDone
    BY <1>5 DEF SameBut
  <1>15. Before'
    <2>1. idata.at \in Int /\ os.iBinary + k <= idata.at
      BY <1>1, <1>3, <1>4
    <2>2. IF os.iBinary + k = idata.at THEN Stage' = "ReadNextBinary" ELSE Stage' = "ReadBinary"
      BY <1>4, <1>5, <1>11, <1>14
    <2> QED BY SMTT(30), <1>1, <1>2, <1>3, <1>4, <1>13, <2>1, <2>2 DEF Before
  <1>16. WriteAt(n)'
    BY <1>1, <1>2, <1>3, <1>7, <1>11, <1>12, <1>15 DEF WriteAt
  <1> QED BY <1>1, <1>2, <1>t, <1>11, <1>12, <1>16, BytesKeep DEF n

\* A piece of the message, from behind place p on.
LEMMA PieceIs ==
  ASSUME NEW s \in Seq(Units), NEW p \in Nat, NEW m \in Nat, p + m <= Len(s)
  PROVE  /\ SubSeq(s, p + 1, p + m) \in Seq(Units) /\ Len(SubSeq(s, p + 1, p + m)) = m
         /\ \A j \in 1 .. m : SubSeq(s, p + 1, p + m)[j] = s[p + j]
  <1> DEFINE w == SubSeq(s, p + 1, p + m)
  <1>1. p + 1 \in 1 .. Len(s) + 1 /\ p + m \in (p + 1) - 1 .. Len(s) /\ Len(s) \in Nat
    OBVIOUS
  <1>2. Len(w) = m
    <2>1. Len(w) = IF p + 1 <= p + m THEN p + m - (p + 1) + 1 ELSE 0
      BY <1>1
    <2> QED BY <2>1
  <1>3. \A j \in 1 .. Len(w) : w[j] = s[p + 1 + j - 1] /\ p + 1 + j - 1 \in 1 .. Len(s)
    BY <1>1, <1>2
  <1>4. w \in Seq(Units)
    BY <1>1, <1>2, <1>3
  <1>5. \A j \in 1 .. m : p + 1 + j - 1 = p + j
    OBVIOUS
  <1> HIDE DEF w
  <1>6. \A j \in 1 .. m : w[j] = s[p + j]
    BY <1>2, <1>3, <1>5
  <1> QED BY <1>2, <1>4, <1>6 DEF w

LEMMA WriteFileKeeps ==
  ASSUME NEW r \in Requests, Ongoing(r), WriteFile
  PROVE  KeepsOn(r)
  <1> DEFINE n == r.bin
             k == CbWrite(os)
             m == Least(k, Room - Len(got))
             o == Taken(os, m)
  <1>t. Turn("ReadBinary") /\ os.write /\ k # 0
    BY DEF WriteFile, WriteTurn, Closing
  <1>1. /\ os.state = "ReadBinary" /\ "ReadBinary" \in Parsing /\ io = "CONTINUE" /\ os \in OsPlaces
        /\ n \in Nat \ {0} /\ InMessage(n)
        /\ WriteAt(n) /\ InChunk(os, n)
        /\ got \in Seq(Units) /\ Len(got) <= Room /\ (open["WRITING"] => usage["WRITING"] # NoFile)
        /\ os.iStream \in Int /\ os.cbStream \in Int /\ os.iBinary \in Int /\ os.iBinaryDone \in Int
        /\ Stage = "ReadBinary"
    BY <1>t, BytesTurn
  <1>2. UNCHANGED <<msg, req, fn, idata, odata, usage, open, halted>>
    BY DEF WriteFile, request, file
  <1>3. /\ k \in Nat /\ k <= LeftOf(os) /\ k <= os.cbStream - os.iStream
        /\ k <= os.iBinaryDone - os.iBinary /\ idata # NoData /\ Amid /\ os.iChunk <= os.cbChunk
    BY <1>t, CbWriteIs
  <1>r. Room \in Nat /\ Len(got) \in Nat
    BY <1>1, BinaryDataAssumption
  <1>4. CASE broken' = TRUE /\ UNCHANGED <<io, os, got>>
    <2>1. InMessage(n)'
      BY <1>1, <1>2, <1>4 DEF InMessage, InStream, Stage, First, AtCount, InChunk, PosOf, LeftOf, AtFileEnd, ToldAt
    <2>2. WriteAt(n)'
      BY <1>1, <1>2, <1>4 DEF WriteAt, Stage, First, NoneHeld, Begins, Busy, Cmd, NoWrite, Before, Amid, After
    <2> QED BY <1>1, <1>2, <1>4, <1>t, <2>1, <2>2, BytesKeep DEF n
  <1>5. CASE /\ got' = got \o SubSeq(msg, os.base + os.iStream + 1, os.base + os.iStream + m)
             /\ IF AtEndOfFile(o) THEN Yields(o) ELSE Went(o)
    <2> HIDE DEF k, n
    <2>1. m \in Nat /\ m <= k /\ m <= Room - Len(got)
      BY SMTT(30), <1>1, <1>3, <1>r DEF Least
    <2> HIDE DEF m
    <2>2. got' \in Seq(Units) /\ Len(got') <= Room
      <3> DEFINE p == PosOf(os)
      <3>1. msg \in Seq(Units)
        BY <1>1 DEF Ongoing, OfRequest, Framed, n
      <3>2. p \in Nat /\ p + m <= Len(msg) /\ p + m \in Nat /\ Len(msg) \in Nat
        <4>1. os.base \in Int /\ LeftOf(os) \in Int /\ Len(msg) \in Nat
          BY <1>1, <3>1, PlaceIs DEF LeftOf
        <4>2. p >= 2 /\ p + LeftOf(os) + 1 <= Len(msg)
          BY <1>1 DEF InChunk
        <4>3. p \in Int
          BY SMTT(30), <1>1, <4>1 DEF PosOf
        <4> HIDE DEF p
        <4> QED BY <1>3, <2>1, <4>1, <4>2, <4>3
      <3>3. got' = got \o SubSeq(msg, p + 1, p + m)
        BY <1>5 DEF PosOf
      <3> HIDE DEF p
      <3> DEFINE w == SubSeq(msg, p + 1, p + m)
      <3>4. w \in Seq(Units) /\ Len(w) = m
        BY <2>1, <3>1, <3>2, PieceIs
      <3> HIDE DEF w
      <3>5. Len(got \o w) = Len(got) + m /\ got \o w \in Seq(Units)
        <4>1. got \in Seq(Units)
          BY <1>1
        <4> QED BY <3>4, <4>1, ConcatProperties
      <3>6. Len(got) + m <= Room
        BY <1>r, <2>1
      <3>7. got' = got \o w
        BY <3>3 DEF w
      <3> QED BY <3>5, <3>6, <3>7
    <2>3. /\ o \in OsPlaces /\ o.iStream = os.iStream + m /\ o.iBinary = os.iBinary + m
          /\ SameBut(o, os, {"iStream", "iBinary"})
          /\ InChunk(o, n) /\ LeftOf(o) = LeftOf(os) - m /\ PosOf(o) = PosOf(os) + m
      <3>1. m \in Int /\ n \in Nat /\ m <= LeftOf(os)
        <4>1. LeftOf(os) \in Int
          BY <1>1, PlaceIs DEF LeftOf
        <4> QED BY <1>1, <1>3, <2>1, <4>1
      <3> QED BY <1>1, <2>1, <3>1, TakenIs, ChunkTaken
    <2> HIDE DEF o
    <2>4. /\ o.state = "ReadBinary" /\ o.write = os.write /\ o.iBinaryDone = os.iBinaryDone /\ o.cbStream = os.cbStream
          /\ o.iChunk = os.iChunk /\ o.cbChunk = os.cbChunk
      BY <1>1, <2>3 DEF SameBut
    <2>5. o.iStream <= o.cbStream /\ o.iBinary <= o.iBinaryDone /\ idata.at <= o.iBinary
      <3>1. idata.at <= os.iBinary /\ idata.at \in Int
        BY <1>3 DEF Amid, Ongoing, RequestTypes
      <3>2. os.iStream \in Int /\ os.cbStream \in Int /\ os.iBinary \in Int /\ os.iBinaryDone \in Int
        BY <1>1, PlaceIs
      <3>3. k \in Nat /\ k <= os.cbStream - os.iStream /\ k <= os.iBinaryDone - os.iBinary
        BY <1>3
      <3>4. os.iStream + m <= os.cbStream /\ os.iBinary + m <= os.iBinaryDone /\ idata.at <= os.iBinary + m
        BY SMTT(30), <2>1, <3>1, <3>2, <3>3
      <3> QED BY <2>3, <2>4, <3>4
    <2>6. o.iBinaryDone = idata.at + idata.cb
      BY <1>3, <2>4 DEF Amid
    <2>7. CASE AtEndOfFile(o)
      <3>1. os' = o /\ io' = "CONTINUE"
        BY <1>1, <1>5, <2>7 DEF Yields
      <3>2. o.iBinary = o.iBinaryDone
        BY <1>1, <2>3, <2>4, <2>5, <2>7, PlaceIs DEF AtEndOfFile
      <3>3. AtFileEnd'
        BY <1>t, <2>4, <3>1, <3>2 DEF AtFileEnd
      <3>4. Stage' = "ReadBinary" /\ ~First'
        BY <2>4, <3>1 DEF Stage, First
      <3>5. InMessage(n)'
        <4>1. InChunk(os, n)'
          BY <1>2, <2>3, <3>1 DEF InChunk, PosOf, LeftOf, ToldAt
        <4>2. InStream'
          BY <2>5, <3>1, <3>3 DEF InStream
        <4>3. os'.iChunk <= os'.cbChunk
          BY <1>3, <2>4, <3>1
        <4> QED BY <1>1, <2>4, <3>1, <3>3, <3>4, <4>1, <4>2, <4>3 DEF InMessage
      <3>6. Amid'
        BY <1>t, <1>2, <2>4, <2>5, <2>6, <3>1, <3>4 DEF Amid
      <3>7. WriteAt(n)'
        BY <1>1, <1>2, <1>3, <2>4, <3>1, <3>4, <3>6, Stages DEF WriteAt
      <3> QED BY <1>1, <1>2, <1>t, <2>2, <2>3, <2>4, <3>1, <3>5, <3>7, BytesKeep DEF n
    <2>8. CASE ~AtEndOfFile(o)
      <3>1. Went(o) /\ WentTo(o)
        BY <1>5, <2>3, <2>8, WentEffect
      <3>2. /\ InMessage(n)' /\ Stage' = "ReadBinary" /\ ~First' /\ os'.state # "ParseJSON"
            /\ os'.state \in {"ReadCount", "ReadNextBinary", "ReadBinary"}
        BY <1>1, <1>2, <2>3, <2>4, <2>5, <3>1, BytesGoOn
      <3>3. os' \in OsPlaces /\ io' \in {"READ", "CONTINUE"} /\ os'.state \in Parsing
        BY <3>1, <3>2, Stages DEF WentTo
      <3>4. os'.iBinary = o.iBinary /\ os'.iBinaryDone = o.iBinaryDone /\ os'.write = o.write
        BY <3>1 DEF WentTo
      <3>5. o.iBinary < o.iBinaryDone
        BY <1>1, <2>3, <2>4, <2>5, <2>8, PlaceIs DEF AtEndOfFile
      <3>6. Amid'
        BY <1>t, <1>2, <2>4, <2>5, <2>6, <3>2, <3>4, <3>5 DEF Amid
      <3>7. WriteAt(n)'
        BY <1>1, <1>2, <1>3, <3>2, <3>3, <3>6 DEF WriteAt
      <3> QED BY <1>1, <1>2, <1>t, <2>2, <3>2, <3>3, <3>7, BytesKeep DEF n
    <2> QED BY <2>7, <2>8
  <1> QED BY <1>4, <1>5 DEF WriteFile

LEMMA WriteFileCloseKeeps ==
  ASSUME NEW r \in Requests, Ongoing(r), WriteFileClose
  PROVE  KeepsOn(r)
  <1> DEFINE n == r.bin
  <1>t. Turn("ReadBinary") /\ os.write
    BY DEF WriteFileClose, WriteTurn
  <1>1. /\ os.state = "ReadBinary" /\ "ReadBinary" \in Parsing /\ io = "CONTINUE" /\ os \in OsPlaces
        /\ InMessage(n) /\ WriteAt(n) /\ open \in [Kinds -> BOOLEAN]
        /\ got \in Seq(Units) /\ Len(got) <= Room /\ Stage = "ReadBinary"
    BY <1>t, BytesTurn
  <1>2. UNCHANGED <<msg, req, fn, idata, odata, io, os, usage, halted, got>>
    BY DEF WriteFileClose, request, wire
  <1>3. /\ UNCHANGED open \/ open' = [open EXCEPT !["WRITING"] = FALSE]
        /\ open'["WRITING"] => usage'["WRITING"] # NoFile
    <2>1. PICK ok \in BOOLEAN : open["WRITING"] /\ open' = [open EXCEPT !["WRITING"] = ~ok]
      BY DEF WriteFileClose, Outcomes
    <2>2. usage["WRITING"] # NoFile
      BY <2>1 DEF Ongoing, InTable, Kinds
    <2>3. CASE ok
      BY <1>2, <2>1, <2>2, <2>3
    <2>4. CASE ~ok
      BY <1>1, <1>2, <2>1, <2>2, <2>4 DEF Kinds
    <2> QED BY <2>3, <2>4
  <1>4. InMessage(n)'
    BY <1>1, <1>2 DEF InMessage, InStream, Stage, First, AtCount, InChunk, PosOf, LeftOf, AtFileEnd, ToldAt
  <1>5. Amid
    BY <1>t, CbWriteIs
  <1>6. Amid' /\ Stage' = "ReadBinary" /\ ~First'
    BY <1>1, <1>2, <1>5 DEF Amid, Stage, First
  <1>7. idata # NoData
    BY <1>t, CbWriteIs
  <1>8. WriteAt(n)'
    BY <1>1, <1>2, <1>6, <1>7 DEF WriteAt
  <1> QED BY <1>1, <1>2, <1>3, <1>t, <1>4, <1>8, BytesKeep DEF n

LEMMA WriteFileDoneKeeps ==
  ASSUME NEW r \in Requests, Ongoing(r), WriteFileDone
  PROVE  IF halted' THEN io' \in {"READ", "CONTINUE"} ELSE KeepsOn(r)
  <1> DEFINE n == r.bin
             o == [os EXCEPT !.state = "ReadNextBinary"]
  <1>t. Turn("ReadBinary") /\ os.write /\ ~open["WRITING"]
    BY DEF WriteFileDone, WriteTurn
  <1>1. /\ os.state = "ReadBinary" /\ io = "CONTINUE" /\ os \in OsPlaces /\ n \in Nat \ {0}
        /\ WriteAt(n) /\ InChunk(os, n) /\ os.iStream <= os.cbStream
        /\ got \in Seq(Units) /\ Len(got) <= Room /\ usage \in [Kinds -> Paths \cup {NoFile}]
    BY <1>t, BytesTurn
  <1>2. UNCHANGED <<msg, req, fn, idata, odata, open, got>>
    BY DEF WriteFileDone, request, wire
  <1>3. usage' = [usage EXCEPT !["WRITING"] = NoFile] /\ halted' = (CbWrite(os) # 0) /\ Went(o)
    BY DEF WriteFileDone, UsageCleared
  <1>4. o \in OsPlaces /\ o.state = "ReadNextBinary" /\ SameBut(o, os, {"state"})
    BY <1>1, Stages, StageSet
  <1> HIDE DEF o, n
  <1>5. WentTo(o)
    BY <1>3, <1>4, WentEffect
  <1>6. io' \in {"READ", "CONTINUE"}
    BY <1>5 DEF WentTo
  <1>7. SUFFICES ASSUME ~halted' PROVE KeepsOn(r)
    BY <1>6
  <1>8. CbWrite(os) = 0 /\ ~halted
    BY <1>3, <1>7, <1>t DEF Turn
  <1>9. AtFileEnd /\ Amid /\ idata # NoData
    BY <1>8, <1>t, CbWriteIs
  <1>10. os.iBinary = idata.at + idata.cb
    BY <1>9 DEF AtFileEnd, Amid
  <1>11. /\ o.iBinary = os.iBinary /\ o.iStream = os.iStream /\ o.cbStream = os.cbStream /\ o.base = os.base
         /\ o.cbChunk = os.cbChunk /\ o.iChunkStart = os.iChunkStart
    BY <1>4 DEF SameBut
  <1>12. InChunk(o, n) /\ o.iStream <= o.cbStream
    <2>1. PosOf(o) = PosOf(os) /\ LeftOf(o) = LeftOf(os)
      BY <1>11 DEF PosOf, LeftOf
    <2> QED BY <1>1, <1>11, <2>1 DEF InChunk
  <1>13. /\ InMessage(n)' /\ Stage' = "ReadNextBinary" /\ ~First' /\ os'.state # "ParseJSON"
         /\ os'.state \in {"ReadCount", "ReadNextBinary", "ReadBinary"}
    BY <1>1, <1>2, <1>4, <1>5, <1>12, BytesGoOn
  <1>14. os' \in OsPlaces /\ os'.state \in Parsing /\ os'.iBinary = os.iBinary
    BY <1>5, <1>11, <1>13, Stages DEF WentTo
  <1>15. usage'["WRITING"] = NoFile
    BY <1>1, <1>3 DEF Kinds
  <1>16. After'
    BY <1>2, <1>10, <1>13, <1>14, <1>15 DEF After
  <1>17. WriteAt(n)'
    BY <1>1, <1>2, <1>9, <1>13, <1>14, <1>16 DEF WriteAt
  <1> QED BY <1>1, <1>2, <1>3, <1>t, <1>6, <1>7, <1>13, <1>14, <1>17, BytesKeep DEF n

\* A read has no bytes behind it, and a write has all of its own.
Answerable ==
  \A r \in Requests : \A i \in DOMAIN r.cmds :
    /\ r.cmds[i].do = "read" => r.bin = 0
    /\ r.cmds[i].do = "write" => r.cmds[i].at < r.bin /\ r.cmds[i].at + r.cmds[i].cb <= r.bin

LEMMA ToldMore ==
  ASSUME NEW s, Told(s), NEW x, "do" \in DOMAIN x
  PROVE  /\ Told(Append(s, x)) /\ Len(s) + 1 \in DOMAIN Append(s, x) /\ Append(s, x)[Len(s) + 1] = x
         /\ \A i \in DOMAIN s : i \in DOMAIN Append(s, x) /\ Append(s, x)[i] = s[i]
  <1>1. PICK S : s \in Seq(S) /\ \A y \in S : "do" \in DOMAIN y
    BY DEF Told
  <1> DEFINE R == S \cup {x}
  <1>2. s \in Seq(R) /\ x \in R /\ \A y \in R : "do" \in DOMAIN y
    <2>1. s \in Seq(S) /\ S \subseteq R
      BY <1>1
    <2>2. s \in Seq(R)
      <3> HIDE DEF R
      <3> QED BY <2>1
    <2> QED BY <1>1, <2>2
  <1> HIDE DEF R
  <1>3. /\ Append(s, x) \in Seq(R) /\ Len(Append(s, x)) = Len(s) + 1 /\ Append(s, x)[Len(s) + 1] = x
        /\ \A i \in 1 .. Len(s) : Append(s, x)[i] = s[i]
    BY <1>2, AppendProperties
  <1>4. Len(s) \in Nat /\ DOMAIN s = 1 .. Len(s) /\ DOMAIN Append(s, x) = 1 .. Len(s) + 1
    BY <1>2, <1>3
  <1>5. Told(Append(s, x))
    BY <1>2, <1>3 DEF Told
  <1> QED BY <1>3, <1>4, <1>5

\* Where the request is when a command is at work.
LEMMA CommandTurn ==
  ASSUME NEW r \in Requests, Ongoing(r), NEW s, At(s)
  PROVE  /\ os.state = "ParseJSON" /\ Stage = "ParseJSON" /\ ~First /\ io = "CONTINUE" /\ fn.at = s /\ ~halted
         /\ r.bin \in Nat /\ fn.i \in DOMAIN r.cmds /\ Cmd = r.cmds[fn.i] /\ Cmd \in Commands
         /\ Cmd.do \in {"write", "read", "log"} /\ (Cmd.do # "log" => Cmd.path \in Paths) /\ Cmd.at \in Nat
         /\ (Cmd.do = "write" => Cmd.cb \in Nat)
         /\ Entry \in Kinds /\ (Cmd.do = "write" <=> Entry = "WRITING")
         /\ fn.i \in Nat \ {0} /\ idata \in [at : Nat \cup {-1}, cb : Nat]
         /\ usage \in [Kinds -> Paths \cup {NoFile}] /\ open \in [Kinds -> BOOLEAN]
         /\ (\A d \in Kinds : open[d] => usage[d] # NoFile)
         /\ (Busy => Cmd.do # "log" /\ usage[Entry] # NoFile /\ (open[Entry] <=> fn.at # "WaitingForResources"))
         /\ (idata # NoData => idata.at \in Nat /\ idata.at < r.bin /\ idata.at + idata.cb <= r.bin)
         /\ (IF Begins THEN idata = NoData
             ELSE NoWrite \/ (idata # NoData /\ usage["WRITING"] # NoFile /\ open["WRITING"]))
         /\ (usage["READING"] # NoFile =>
               r.bin = 0 /\ ((Busy /\ Cmd.do = "read") \/ \E i \in DOMAIN odata : odata[i].do = "read"))
  <1>1. Turn("ParseJSON") /\ fn.at = s /\ fn.i <= Len(req)
    BY DEF At
  <1>2. "ParseJSON" \in Parsing
    BY Stages
  <1>3. /\ os.state = "ParseJSON" /\ io = "CONTINUE" /\ ~halted /\ r.bin \in Nat
        /\ WriteAt(r.bin) /\ ReadAt(r.bin)
        /\ usage \in [Kinds -> Paths \cup {NoFile}] /\ open \in [Kinds -> BOOLEAN]
    BY <1>1, <1>2, ReadTurn
  <1>4. Stage = "ParseJSON" /\ ~First
    BY <1>3 DEF Stage, First
  <1>5. req = r.cmds /\ r.cmds \in Seq(Commands) /\ fn.i \in Nat \ {0} /\ fn.i \in 1 .. Len(r.cmds)
    <2>1. req = r.cmds /\ r.cmds \in Seq(Commands)
      BY <1>2, <1>3, Params DEF Ongoing, OfRequest
    <2>2. fn.i \in Nat \ {0}
      BY DEF Ongoing, RequestTypes
    <2> QED BY <1>1, <2>1, <2>2
  <1>6. Cmd = r.cmds[fn.i] /\ Cmd \in Commands /\ fn.i \in DOMAIN r.cmds
    BY <1>5 DEF Cmd
  <1>7. /\ Cmd.do \in {"write", "read", "log"} /\ (Cmd.do # "log" => Cmd.path \in Paths) /\ Cmd.at \in Nat
        /\ (Cmd.do = "write" => Cmd.cb \in Nat)
    BY <1>6, CommandTypes
  <1>8. Entry \in Kinds /\ (Cmd.do = "write" <=> Entry = "WRITING")
    BY DEF Entry, Kinds
  <1>9. /\ (\A d \in Kinds : open[d] => usage[d] # NoFile)
        /\ (Busy => Cmd.do # "log" /\ usage[Entry] # NoFile /\ (open[Entry] <=> fn.at # "WaitingForResources"))
    BY DEF Ongoing, InTable
  <1>10. /\ (idata # NoData => idata.at \in Nat /\ idata.at < r.bin /\ idata.at + idata.cb <= r.bin)
         /\ (IF Begins THEN idata = NoData
             ELSE NoWrite \/ (idata # NoData /\ usage["WRITING"] # NoFile /\ open["WRITING"]))
    BY <1>3 DEF WriteAt
  <1>11. usage["READING"] # NoFile =>
            r.bin = 0 /\ ((Busy /\ Cmd.do = "read") \/ \E i \in DOMAIN odata : odata[i].do = "read")
    BY <1>3 DEF ReadAt, ToSend
  <1>12. idata \in [at : Nat \cup {-1}, cb : Nat]
    BY DEF Ongoing, RequestTypes
  <1> QED BY <1>1, <1>3, <1>4, <1>5, <1>6, <1>7, <1>8, <1>9, <1>10, <1>11, <1>12

\* What is left to show of a step of a command.
LEMMA CommandKeeps ==
  ASSUME NEW r \in Requests, Ongoing(r), NEW s, At(s),
         UNCHANGED <<msg, req, io, os, got>>, ~halted', Told(odata)',
         fn' \in [i : Nat \ {0}, at : {"Idle", "WaitingForResources", "JSONSeekFile", "JSONClose"}],
         idata' \in [at : Nat \cup {-1}, cb : Nat],
         usage' \in [Kinds -> Paths \cup {NoFile}], open' \in [Kinds -> BOOLEAN],
         \A d \in Kinds : open'[d] => usage'[d] # NoFile,
         fn'.at # "Idle" => /\ fn'.i = fn.i /\ Cmd.do # "log" /\ usage'[Entry] # NoFile
                            /\ (open'[Entry] <=> fn'.at # "WaitingForResources"),
         idata' # NoData => idata'.at \in Nat /\ idata'.at < r.bin /\ idata'.at + idata'.cb <= r.bin,
         IF fn'.at # "Idle" /\ Cmd.do = "write" THEN idata' = NoData
         ELSE \/ (idata' = NoData /\ usage'["WRITING"] = NoFile)
              \/ (idata' # NoData /\ usage'["WRITING"] # NoFile /\ open'["WRITING"]),
         usage'["READING"] # NoFile =>
           r.bin = 0 /\ ((fn'.at # "Idle" /\ Cmd.do = "read") \/ \E i \in DOMAIN odata' : odata'[i].do = "read")
  PROVE  KeepsOn(r)
  <1> DEFINE n == r.bin
  <1>1. /\ os.state = "ParseJSON" /\ Stage = "ParseJSON" /\ ~First /\ io = "CONTINUE" /\ fn.i <= Len(req)
        /\ "ParseJSON" \in Parsing /\ os.state \notin Answering
    BY CommandTurn, Stages DEF At
  <1>2. RequestTypes'
    BY DEF Ongoing, RequestTypes
  <1>3. fn'.at # "Idle" => Cmd' = Cmd /\ Entry' = Entry
    BY DEF Cmd, Entry
  <1>4. InTable'
    <2>1. Busy' => fn'.i <= Len(req)' /\ os'.state = "ParseJSON" /\ Cmd'.do # "log"
      BY <1>1, <1>3 DEF Busy
    <2>2. Busy' => usage'[Entry'] # NoFile /\ (open'[Entry'] <=> fn'.at # "WaitingForResources")
      BY <1>3 DEF Busy
    <2> QED BY <2>1, <2>2 DEF InTable
  <1>5. InMessage(n) /\ InMessage(n)'
    <2>1. InMessage(n)
      BY <1>1 DEF Ongoing, OfRequest
    <2> QED BY <2>1 DEF InMessage, InStream, Stage, First, AtCount, InChunk, PosOf, LeftOf, AtFileEnd, ToldAt
  <1>6. ~First' /\ Stage' = "ParseJSON" /\ os'.state = "ParseJSON"
    BY <1>1 DEF First, Stage
  <1>7. WriteAt(n)'
    <2>1. Begins' <=> fn'.at # "Idle" /\ Cmd.do = "write"
      BY <1>3 DEF Begins, Busy
    <2>2. NoWrite' <=> idata' = NoData /\ usage'["WRITING"] = NoFile
      BY DEF NoWrite
    <2>3. IF Begins' THEN idata' = NoData
          ELSE NoWrite' \/ (idata' # NoData /\ usage'["WRITING"] # NoFile /\ open'["WRITING"])
      BY <2>1, <2>2
    <2> QED BY <1>1, <1>6, <2>3 DEF WriteAt
  <1>8. ReadAt(n)'
    <2>1. Busy' /\ Cmd'.do = "read" <=> fn'.at # "Idle" /\ Cmd.do = "read"
      BY <1>3 DEF Busy
    <2>2. (\E i \in DOMAIN odata' : odata'[i].do = "read") => ToSend'
      BY <1>1 DEF ToSend
    <2> QED BY <1>6, <2>1, <2>2 DEF ReadAt
  <1>9. OfRequest(r)'
    <2>1. msg' = msg /\ req' = req /\ io' = "CONTINUE"
      BY <1>1
    <2>2. (r.bin > 0 => Framed(msg, r.bin)) /\ req = r.cmds
      BY <1>1 DEF Ongoing, OfRequest
    <2> QED BY <1>1, <1>5, <1>6, <1>7, <1>8, <2>1, <2>2 DEF OfRequest
  <1> QED BY <1>1, <1>2, <1>4, <1>9 DEF KeepsOn

LEMMA NextIs ==
  ASSUME NEW r \in Requests, Ongoing(r), NEW s, At(s)
  PROVE  /\ NextCommand \in [i : Nat \ {0}, at : {"Idle", "WaitingForResources", "JSONSeekFile", "JSONClose"}]
         /\ NextCommand.at = "Idle"
         /\ \A t \in {"WaitingForResources", "JSONSeekFile", "JSONClose"} :
              /\ Goto(t) \in [i : Nat \ {0}, at : {"Idle", "WaitingForResources", "JSONSeekFile", "JSONClose"}]
              /\ Goto(t).at = t /\ Goto(t).i = fn.i
  BY DEF NextCommand, Goto, Ongoing, RequestTypes

LEMMA SetUsageKeeps ==
  ASSUME NEW r \in Requests, Ongoing(r), SetUsage, Answerable
  PROVE  KeepsOn(r)
  <1>1. At("Idle") /\ Cmd.do # "log"
    BY DEF SetUsage
  <1>2. /\ UNCHANGED <<msg, req, io, os, got, idata, odata, open>> /\ ~halted'
    BY <1>1, CommandTurn DEF SetUsage, wire
  <1>3. Told(odata)'
    BY <1>2 DEF Ongoing, Told
  <1>4. ~Busy /\ ~Begins
    BY <1>1 DEF At, Busy, Begins
  <1>5. /\ open \in [Kinds -> BOOLEAN] /\ usage \in [Kinds -> Paths \cup {NoFile}] /\ Entry \in Kinds
        /\ Cmd.path \in Paths /\ (\A d \in Kinds : open[d] => usage[d] # NoFile)
        /\ (Cmd.do = "read" \/ Cmd.do = "write") /\ (Cmd.do = "write" <=> Entry = "WRITING")
        /\ (Cmd.do = "read" => r.bin = 0) /\ idata \in [at : Nat \cup {-1}, cb : Nat]
    BY <1>1, CommandTurn DEF Answerable
  <1>6. /\ (idata # NoData => idata.at \in Nat /\ idata.at < r.bin /\ idata.at + idata.cb <= r.bin)
        /\ (NoWrite \/ (idata # NoData /\ usage["WRITING"] # NoFile /\ open["WRITING"]))
        /\ (usage["READING"] # NoFile => r.bin = 0 /\ \E i \in DOMAIN odata : odata[i].do = "read")
    BY <1>1, <1>4, CommandTurn
  <1>7. CASE fn' = NextCommand /\ UNCHANGED usage
    <2>1. fn'.at = "Idle" /\ fn' \in [i : Nat \ {0}, at : {"Idle", "WaitingForResources", "JSONSeekFile", "JSONClose"}]
      BY <1>1, <1>7, NextIs
    <2> QED BY <1>1, <1>2, <1>3, <1>5, <1>6, <1>7, <2>1, CommandKeeps DEF NoWrite
  <1>8. CASE usage[Entry] = NoFile /\ usage' = [usage EXCEPT ![Entry] = Cmd.path] /\ fn' = Goto("WaitingForResources")
    <2>1. /\ fn' \in [i : Nat \ {0}, at : {"Idle", "WaitingForResources", "JSONSeekFile", "JSONClose"}]
          /\ fn'.at = "WaitingForResources" /\ fn'.i = fn.i
      BY <1>1, <1>8, NextIs
    <2>2. /\ usage' \in [Kinds -> Paths \cup {NoFile}] /\ usage'[Entry] # NoFile /\ ~open[Entry]
          /\ (\A d \in Kinds : d # Entry => usage'[d] = usage[d]) /\ "WRITING" \in Kinds /\ "READING" \in Kinds
      <3>1. NoFile \notin Paths
        BY DEF NoFile, Paths
      <3> QED BY <1>5, <1>8, <3>1 DEF Kinds
    <2>3. \A d \in Kinds : open'[d] => usage'[d] # NoFile
      BY <1>2, <1>5, <2>2
    <2>4. IF Cmd.do = "write" THEN idata' = NoData
          ELSE \/ (idata' = NoData /\ usage'["WRITING"] = NoFile)
               \/ (idata' # NoData /\ usage'["WRITING"] # NoFile /\ open'["WRITING"])
      <3>1. CASE Cmd.do = "write"
        BY <1>2, <1>5, <1>6, <1>8, <3>1 DEF NoWrite
      <3>2. CASE Cmd.do # "write"
        BY <1>2, <1>5, <1>6, <2>2, <3>2 DEF NoWrite
      <3> QED BY <3>1, <3>2
    <2>5. usage'["READING"] # NoFile => r.bin = 0 /\ (Cmd.do = "read" \/ \E i \in DOMAIN odata' : odata'[i].do = "read")
      <3>1. CASE Cmd.do = "read"
        BY <1>5, <3>1
      <3>2. CASE Cmd.do = "write"
        <4>1. Entry # "READING"
          BY <1>5, <3>2
        <4> QED BY <1>2, <1>6, <2>2, <4>1
      <3> QED BY <1>5, <3>1, <3>2
    <2> QED BY <1>1, <1>2, <1>3, <1>5, <1>6, <2>1, <2>2, <2>3, <2>4, <2>5, CommandKeeps
  <1> QED BY <1>7, <1>8 DEF SetUsage

\* A command that has its entry.
LEMMA BusyTurn ==
  ASSUME NEW r \in Requests, Ongoing(r), NEW s \in {"WaitingForResources", "JSONSeekFile", "JSONClose"}, At(s)
  PROVE  /\ Busy /\ ~halted /\ fn.at = s /\ io = "CONTINUE"
         /\ open \in [Kinds -> BOOLEAN] /\ usage \in [Kinds -> Paths \cup {NoFile}] /\ Entry \in Kinds
         /\ "WRITING" \in Kinds /\ "READING" \in Kinds
         /\ (\A d \in Kinds : open[d] => usage[d] # NoFile)
         /\ (open[Entry] <=> s # "WaitingForResources") /\ usage[Entry] # NoFile /\ Cmd.do # "log"
         /\ idata \in [at : Nat \cup {-1}, cb : Nat] /\ r.bin \in Nat
         /\ (idata # NoData => idata.at \in Nat /\ idata.at < r.bin /\ idata.at + idata.cb <= r.bin)
         /\ \/ Cmd.do = "write" /\ Entry = "WRITING" /\ idata = NoData
               /\ (usage["READING"] # NoFile => r.bin = 0 /\ \E i \in DOMAIN odata : odata[i].do = "read")
            \/ Cmd.do = "read" /\ Entry = "READING" /\ r.bin = 0
               /\ (NoWrite \/ (idata # NoData /\ usage["WRITING"] # NoFile /\ open["WRITING"]))
  <1>1. Busy
    BY DEF At, Busy
  <1>2. /\ ~halted /\ fn.at = s /\ io = "CONTINUE"
        /\ open \in [Kinds -> BOOLEAN] /\ usage \in [Kinds -> Paths \cup {NoFile}] /\ Entry \in Kinds
        /\ (\A d \in Kinds : open[d] => usage[d] # NoFile)
        /\ (open[Entry] <=> s # "WaitingForResources") /\ usage[Entry] # NoFile /\ Cmd.do # "log"
        /\ idata \in [at : Nat \cup {-1}, cb : Nat] /\ r.bin \in Nat
        /\ (idata # NoData => idata.at \in Nat /\ idata.at < r.bin /\ idata.at + idata.cb <= r.bin)
        /\ (Cmd.do = "write" \/ Cmd.do = "read")
    BY <1>1, CommandTurn
  <1>3. "WRITING" \in Kinds /\ "READING" \in Kinds
    BY DEF Kinds
  <1>4. CASE Cmd.do = "write"
    <2>1. Begins /\ Entry = "WRITING"
      BY <1>1, <1>4 DEF Begins, Entry
    <2>2. idata = NoData /\ (usage["READING"] # NoFile => r.bin = 0 /\ \E i \in DOMAIN odata : odata[i].do = "read")
      BY <1>1, <1>4, <2>1, CommandTurn
    <2> QED BY <1>1, <1>2, <1>3, <1>4, <2>1, <2>2
  <1>5. CASE Cmd.do = "read"
    <2>1. ~Begins /\ Entry = "READING"
      BY <1>5 DEF Begins, Entry
    <2>2. r.bin = 0 /\ (NoWrite \/ (idata # NoData /\ usage["WRITING"] # NoFile /\ open["WRITING"]))
      BY <1>2, <2>1, CommandTurn
    <2> QED BY <1>1, <1>2, <1>3, <1>5, <2>1, <2>2
  <1> QED BY <1>2, <1>4, <1>5

\* The command has given its entry back.
LEMMA GivenUp ==
  ASSUME NEW r \in Requests, Ongoing(r), NEW s \in {"WaitingForResources", "JSONSeekFile", "JSONClose"}, At(s),
         UNCHANGED <<msg, req, io, os, got, idata, odata>>, ~halted', fn' = NextCommand, usage' = UsageCleared(Entry),
         open' = open \/ open' = [open EXCEPT ![Entry] = FALSE], ~open'[Entry]
  PROVE  KeepsOn(r)
  <1>1. /\ fn' \in [i : Nat \ {0}, at : {"Idle", "WaitingForResources", "JSONSeekFile", "JSONClose"}]
        /\ fn'.at = "Idle"
    BY NextIs
  <1>2. Told(odata)'
    BY DEF Ongoing, Told
  <1>3. /\ open \in [Kinds -> BOOLEAN] /\ usage \in [Kinds -> Paths \cup {NoFile}] /\ Entry \in Kinds
        /\ "WRITING" \in Kinds /\ "READING" \in Kinds
        /\ (\A d \in Kinds : open[d] => usage[d] # NoFile)
        /\ idata \in [at : Nat \cup {-1}, cb : Nat] /\ r.bin \in Nat
        /\ (idata # NoData => idata.at \in Nat /\ idata.at < r.bin /\ idata.at + idata.cb <= r.bin)
        /\ \/ Cmd.do = "write" /\ Entry = "WRITING" /\ idata = NoData
              /\ (usage["READING"] # NoFile => r.bin = 0 /\ \E i \in DOMAIN odata : odata[i].do = "read")
           \/ Cmd.do = "read" /\ Entry = "READING" /\ r.bin = 0
              /\ (NoWrite \/ (idata # NoData /\ usage["WRITING"] # NoFile /\ open["WRITING"]))
    BY BusyTurn
  <1>4. /\ usage' \in [Kinds -> Paths \cup {NoFile}] /\ open' \in [Kinds -> BOOLEAN] /\ usage'[Entry] = NoFile
        /\ \A d \in Kinds : d # Entry => usage'[d] = usage[d] /\ open'[d] = open[d]
    BY <1>3 DEF UsageCleared
  <1>5. \A d \in Kinds : open'[d] => usage'[d] # NoFile
    BY <1>3, <1>4
  <1>6. \/ (idata' = NoData /\ usage'["WRITING"] = NoFile)
        \/ (idata' # NoData /\ usage'["WRITING"] # NoFile /\ open'["WRITING"])
    <2>1. CASE Entry = "WRITING" /\ idata = NoData
      BY <1>4, <2>1
    <2>2. CASE Entry = "READING" /\ (NoWrite \/ (idata # NoData /\ usage["WRITING"] # NoFile /\ open["WRITING"]))
      BY <1>3, <1>4, <2>2 DEF NoWrite
    <2> QED BY <1>3, <2>1, <2>2
  <1>7. usage'["READING"] # NoFile => r.bin = 0 /\ \E i \in DOMAIN odata' : odata'[i].do = "read"
    BY <1>3, <1>4
  <1> QED BY <1>1, <1>2, <1>3, <1>4, <1>5, <1>6, <1>7, CommandKeeps

LEMMA OpenFileKeeps ==
  ASSUME NEW r \in Requests, Ongoing(r), OpenFile
  PROVE  KeepsOn(r)
  <1>1. At("WaitingForResources")
    BY DEF OpenFile
  <1>3. /\ Busy /\ open \in [Kinds -> BOOLEAN] /\ usage \in [Kinds -> Paths \cup {NoFile}] /\ Entry \in Kinds
        /\ "WRITING" \in Kinds /\ "READING" \in Kinds
        /\ (\A d \in Kinds : open[d] => usage[d] # NoFile)
        /\ ~open[Entry] /\ usage[Entry] # NoFile /\ Cmd.do # "log"
        /\ idata \in [at : Nat \cup {-1}, cb : Nat] /\ r.bin \in Nat
        /\ (idata # NoData => idata.at \in Nat /\ idata.at < r.bin /\ idata.at + idata.cb <= r.bin)
        /\ \/ Cmd.do = "write" /\ Entry = "WRITING" /\ idata = NoData
              /\ (usage["READING"] # NoFile => r.bin = 0 /\ \E i \in DOMAIN odata : odata[i].do = "read")
           \/ Cmd.do = "read" /\ Entry = "READING" /\ r.bin = 0
              /\ (NoWrite \/ (idata # NoData /\ usage["WRITING"] # NoFile /\ open["WRITING"]))
    BY <1>1, BusyTurn
  <1>2. UNCHANGED <<msg, req, io, os, got, idata, odata>> /\ ~halted'
    BY <1>1, CommandTurn DEF OpenFile, wire
  <1>4. CASE fn' = NextCommand /\ usage' = UsageCleared(Entry) /\ UNCHANGED open
    BY <1>1, <1>2, <1>3, <1>4, GivenUp
  <1>5. CASE /\ open' = [open EXCEPT ![Entry] = TRUE] /\ UNCHANGED usage
             /\ fn' = Goto(IF Cmd.do = "write" \/ InFile THEN "JSONSeekFile" ELSE "JSONClose")
    <2>1. PICK t \in {"JSONSeekFile", "JSONClose"} : fn' = Goto(t)
      BY <1>5
    <2>2. /\ fn' \in [i : Nat \ {0}, at : {"Idle", "WaitingForResources", "JSONSeekFile", "JSONClose"}]
          /\ fn'.at \in {"JSONSeekFile", "JSONClose"} /\ fn'.i = fn.i
      BY <1>1, <2>1, NextIs
    <2>3. /\ open' \in [Kinds -> BOOLEAN] /\ open'[Entry] /\ \A d \in Kinds : d # Entry => open'[d] = open[d]
      BY <1>3, <1>5
    <2>4. \A d \in Kinds : open'[d] => usage'[d] # NoFile
      BY <1>3, <1>5, <2>3
    <2>5. Told(odata)'
      BY <1>2 DEF Ongoing, Told
    <2>6. IF Cmd.do = "write" THEN idata' = NoData
          ELSE \/ (idata' = NoData /\ usage'["WRITING"] = NoFile)
               \/ (idata' # NoData /\ usage'["WRITING"] # NoFile /\ open'["WRITING"])
      <3>1. CASE Cmd.do = "write"
        BY <1>2, <1>3, <3>1
      <3>2. CASE Cmd.do = "read"
        BY <1>2, <1>3, <1>5, <2>3, <3>2 DEF NoWrite
      <3> QED BY <1>3, <3>1, <3>2
    <2>7. usage'["READING"] # NoFile => r.bin = 0 /\ (Cmd.do = "read" \/ \E i \in DOMAIN odata' : odata'[i].do = "read")
      BY <1>2, <1>3, <1>5
    <2> QED BY <1>1, <1>2, <1>3, <1>5, <2>2, <2>3, <2>4, <2>5, <2>6, <2>7, CommandKeeps
  <1> QED BY <1>4, <1>5 DEF OpenFile

LEMMA CloseFileKeeps ==
  ASSUME NEW r \in Requests, Ongoing(r), CloseFile
  PROVE  IF halted' THEN io' \in {"READ", "CONTINUE"} ELSE KeepsOn(r)
  <1>1. At("JSONClose")
    BY DEF CloseFile
  <1>2. UNCHANGED <<msg, req, io, os, got, idata, odata>> /\ io = "CONTINUE"
    BY <1>1, CommandTurn DEF CloseFile, wire
  <1>3. PICK ok \in Outcomes("close") :
          /\ open' = [open EXCEPT ![Entry] = ~ok] /\ halted' = ~ok
          /\ usage' = UsageCleared(Entry) /\ fn' = NextCommand
    BY DEF CloseFile
  <1>4. CASE ~halted'
    <2>1. ok = TRUE
      BY <1>3, <1>4 DEF Outcomes
    <2>2. open \in [Kinds -> BOOLEAN] /\ Entry \in Kinds
      BY <1>1, BusyTurn
    <2>3. open' = [open EXCEPT ![Entry] = FALSE]
      BY <1>3, <2>1
    <2>4. ~open'[Entry]
      BY <2>2, <2>3
    <2>5. KeepsOn(r)
      BY <1>1, <1>2, <1>3, <1>4, <2>3, <2>4, GivenUp
    <2> QED BY <1>4, <2>5
  <1> QED BY <1>2, <1>4

LEMMA SeekFileKeeps ==
  ASSUME NEW r \in Requests, Ongoing(r), SeekFile, Answerable
  PROVE  KeepsOn(r)
  <1>1. At("JSONSeekFile")
    BY DEF SeekFile
  <1>2. /\ Busy /\ open \in [Kinds -> BOOLEAN] /\ usage \in [Kinds -> Paths \cup {NoFile}] /\ Entry \in Kinds
        /\ (\A d \in Kinds : open[d] => usage[d] # NoFile)
        /\ open[Entry] /\ usage[Entry] # NoFile /\ Cmd.do # "log"
        /\ idata \in [at : Nat \cup {-1}, cb : Nat] /\ r.bin \in Nat
        /\ (idata # NoData => idata.at \in Nat /\ idata.at < r.bin /\ idata.at + idata.cb <= r.bin)
        /\ \/ Cmd.do = "write" /\ Entry = "WRITING" /\ idata = NoData
              /\ (usage["READING"] # NoFile => r.bin = 0 /\ \E i \in DOMAIN odata : odata[i].do = "read")
           \/ Cmd.do = "read" /\ Entry = "READING" /\ r.bin = 0
              /\ (NoWrite \/ (idata # NoData /\ usage["WRITING"] # NoFile /\ open["WRITING"]))
    BY <1>1, BusyTurn
  <1>3. UNCHANGED <<msg, req, io, os, got, usage, open>> /\ ~halted'
    BY <1>1, CommandTurn DEF SeekFile, wire, file
  <1>4. CASE fn' = Goto("JSONClose") /\ UNCHANGED <<idata, odata>>
    <2>1. /\ fn' \in [i : Nat \ {0}, at : {"Idle", "WaitingForResources", "JSONSeekFile", "JSONClose"}]
          /\ fn'.at = "JSONClose" /\ fn'.i = fn.i
      BY <1>1, <1>4, NextIs
    <2>2. Told(odata)'
      BY <1>4 DEF Ongoing, Told
    <2>3. IF Cmd.do = "write" THEN idata' = NoData
          ELSE \/ (idata' = NoData /\ usage'["WRITING"] = NoFile)
               \/ (idata' # NoData /\ usage'["WRITING"] # NoFile /\ open'["WRITING"])
      BY <1>2, <1>3, <1>4 DEF NoWrite
    <2>4. usage'["READING"] # NoFile => r.bin = 0 /\ (Cmd.do = "read" \/ \E i \in DOMAIN odata' : odata'[i].do = "read")
      BY <1>2, <1>3, <1>4
    <2> QED BY <1>1, <1>2, <1>3, <1>4, <2>1, <2>2, <2>3, <2>4, CommandKeeps
  <1>5. CASE fn' = NextCommand /\ Cmd.do = "write" /\ idata' = [at |-> Cmd.at, cb |-> Cmd.cb] /\ UNCHANGED odata
    <2>1. /\ fn' \in [i : Nat \ {0}, at : {"Idle", "WaitingForResources", "JSONSeekFile", "JSONClose"}]
          /\ fn'.at = "Idle"
      BY <1>1, <1>5, NextIs
    <2>2. Told(odata)'
      BY <1>5 DEF Ongoing, Told
    <2>3. Cmd.at \in Nat /\ Cmd.cb \in Nat /\ Cmd.at < r.bin /\ Cmd.at + Cmd.cb <= r.bin
      BY <1>1, <1>5, CommandTurn DEF Answerable
    <2>4. /\ idata' \in [at : Nat \cup {-1}, cb : Nat] /\ idata' # NoData
          /\ idata'.at \in Nat /\ idata'.at < r.bin /\ idata'.at + idata'.cb <= r.bin
      BY <1>5, <2>3 DEF NoData
    <2>5. Entry = "WRITING" /\ (usage["READING"] # NoFile => r.bin = 0 /\ \E i \in DOMAIN odata : odata[i].do = "read")
      BY <1>2, <1>5
    <2> QED BY <1>1, <1>2, <1>3, <1>5, <2>1, <2>2, <2>4, <2>5, CommandKeeps
  <1>6. CASE /\ fn' = NextCommand /\ Cmd.do # "write" /\ UNCHANGED idata
             /\ odata' = Append(odata, [do |-> "read", at |-> Cmd.at, cb |-> CbRead, iOut |-> 0, offset |-> Total])
    <2> DEFINE x == [do |-> "read", at |-> Cmd.at, cb |-> CbRead, iOut |-> 0, offset |-> Total]
    <2>1. /\ fn' \in [i : Nat \ {0}, at : {"Idle", "WaitingForResources", "JSONSeekFile", "JSONClose"}]
          /\ fn'.at = "Idle"
      BY <1>1, <1>6, NextIs
    <2>2. "do" \in DOMAIN x /\ x.do = "read" /\ odata' = Append(odata, x)
      BY <1>6
    <2> HIDE DEF x
    <2>3. Told(odata)' /\ Len(odata) + 1 \in DOMAIN odata' /\ odata'[Len(odata) + 1] = x
      <3>1. Told(Append(odata, x)) /\ Len(odata) + 1 \in DOMAIN Append(odata, x) /\ Append(odata, x)[Len(odata) + 1] = x
        BY <2>2, ToldMore DEF Ongoing
      <3> QED BY <2>2, <3>1 DEF Told
    <2>4. r.bin = 0 /\ \E i \in DOMAIN odata' : odata'[i].do = "read"
      BY <1>2, <1>6, <2>2, <2>3
    <2>5. \/ (idata' = NoData /\ usage'["WRITING"] = NoFile)
          \/ (idata' # NoData /\ usage'["WRITING"] # NoFile /\ open'["WRITING"])
      BY <1>2, <1>3, <1>6 DEF NoWrite
    <2> QED BY <1>1, <1>2, <1>3, <1>6, <2>1, <2>3, <2>4, <2>5, CommandKeeps
  <1> QED BY <1>4, <1>5, <1>6 DEF SeekFile

LEMMA LogReadKeeps ==
  ASSUME NEW r \in Requests, Ongoing(r), LogRead
  PROVE  KeepsOn(r)
  <1>1. At("Idle") /\ fn' = NextCommand
    BY DEF LogRead
  <1>2. UNCHANGED <<msg, req, io, os, got, idata, usage, open>> /\ ~halted'
    BY <1>1, CommandTurn DEF LogRead, wire, file
  <1>3. /\ fn' \in [i : Nat \ {0}, at : {"Idle", "WaitingForResources", "JSONSeekFile", "JSONClose"}]
        /\ fn'.at = "Idle"
    BY <1>1, NextIs
  <1>4. ~Busy /\ ~Begins
    BY <1>1 DEF At, Busy, Begins
  <1>5. /\ open \in [Kinds -> BOOLEAN] /\ usage \in [Kinds -> Paths \cup {NoFile}]
        /\ (\A d \in Kinds : open[d] => usage[d] # NoFile) /\ idata \in [at : Nat \cup {-1}, cb : Nat]
        /\ (idata # NoData => idata.at \in Nat /\ idata.at < r.bin /\ idata.at + idata.cb <= r.bin)
        /\ (NoWrite \/ (idata # NoData /\ usage["WRITING"] # NoFile /\ open["WRITING"]))
        /\ (usage["READING"] # NoFile => r.bin = 0 /\ \E i \in DOMAIN odata : odata[i].do = "read")
    BY <1>1, <1>4, CommandTurn
  <1>6. \/ odata' = odata
        \/ \E x : "do" \in DOMAIN x /\ odata' = Append(odata, x)
    <2> DEFINE iStart == IF OldestScan < Cmd.at THEN Cmd.at ELSE OldestScan
               total  == log.csTotal \div CActiveCh
               iEnd   == IF Cmd.cb < 0 THEN total ELSE Least(Cmd.at + Cmd.cb, total)
               x == [do |-> "log", at |-> iStart * CActiveCh, iOut |-> 0,
                     cb |-> (iEnd - iStart) * CActiveCh, offset |-> 0]
    <2>1. odata' = odata \/ odata' = Append(odata, x)
      BY DEF LogRead
    <2>2. "do" \in DOMAIN x
      OBVIOUS
    <2> HIDE DEF x
    <2> QED BY <2>1, <2>2
  <1>7. Told(odata)' /\ ((\E i \in DOMAIN odata : odata[i].do = "read") => \E i \in DOMAIN odata' : odata'[i].do = "read")
    <2>1. CASE odata' = odata
      BY <2>1 DEF Ongoing, Told
    <2>2. CASE odata' # odata
      <3>1. PICK x : "do" \in DOMAIN x /\ odata' = Append(odata, x)
        BY <1>6, <2>2
      <3>2. /\ Told(Append(odata, x))
            /\ \A i \in DOMAIN odata : i \in DOMAIN Append(odata, x) /\ Append(odata, x)[i] = odata[i]
        BY <3>1, ToldMore DEF Ongoing
      <3> QED BY <3>1, <3>2 DEF Told
    <2> QED BY <2>1, <2>2
  <1> QED BY <1>1, <1>2, <1>3, <1>5, <1>7, CommandKeeps DEF NoWrite

LEMMA ToldSet ==
  ASSUME NEW s, Told(s), NEW k, NEW v
  PROVE  /\ Told([s EXCEPT ![k].iOut = v]) /\ DOMAIN [s EXCEPT ![k].iOut = v] = DOMAIN s
         /\ \A i \in DOMAIN s : [s EXCEPT ![k].iOut = v][i].do = s[i].do
  <1> DEFINE x == [s[k] EXCEPT !.iOut = v]
             t == [s EXCEPT ![k] = x]
  <1>1. PICK S : s \in Seq(S) /\ \A y \in S : "do" \in DOMAIN y
    BY DEF Told
  <1>2. [s EXCEPT ![k].iOut = v] = t
    OBVIOUS
  <1>3. Len(s) \in Nat /\ DOMAIN s = 1 .. Len(s) /\ \A i \in 1 .. Len(s) : s[i] \in S
    BY <1>1
  <1>4. CASE k \in 1 .. Len(s)
    <2>1. "do" \in DOMAIN s[k]
      BY <1>1, <1>3, <1>4
    <2>2. DOMAIN x = DOMAIN s[k] /\ x.do = s[k].do
      BY <2>1
    <2> HIDE DEF x
    <2> DEFINE R == S \cup {x}
    <2>3. s \in Seq(R) /\ x \in R /\ \A y \in R : "do" \in DOMAIN y
      <3>1. s \in Seq(R)
        <4>1. S \subseteq R
          OBVIOUS
        <4> HIDE DEF R
        <4> QED BY <1>1, <4>1
      <3> QED BY <1>1, <2>1, <2>2, <3>1
    <2> HIDE DEF R
    <2>4. t \in Seq(R) /\ DOMAIN t = DOMAIN s
      BY <1>4, <2>3
    <2>5. \A i \in DOMAIN s : t[i].do = s[i].do
      BY <1>3, <1>4, <2>2
    <2> QED BY <1>2, <2>3, <2>4, <2>5 DEF Told
  <1>5. CASE k \notin 1 .. Len(s)
    <2> HIDE DEF x
    <2>1. DOMAIN t = DOMAIN s /\ \A i \in DOMAIN s : t[i] = s[i]
      BY <1>3, <1>5
    <2>2. t = s
      BY <1>1, <1>3, <2>1
    <2> QED BY <1>2, <2>2
  <1> QED BY <1>4, <1>5

\* What is left to show of a step of the answer.
LEMMA AnswerGoesOn ==
  ASSUME NEW r \in Requests, Ongoing(r), os.state \notin Parsing,
         UNCHANGED <<msg, req, fn, idata, got>>, ~halted', Told(odata)',
         os' \in OsPlaces, os'.state \in Answering \cup {"OutputJSON"}, io' \in {"READ", "CONTINUE", "WRITE"},
         io' = "WRITE" => os'.state \in Answering,
         usage' = usage \/ usage' = [usage EXCEPT !["READING"] = NoFile],
         open' = open \/ open' = [open EXCEPT !["READING"] = FALSE],
         open'["READING"] => usage'["READING"] # NoFile,
         usage'["READING"] # NoFile => usage["READING"] # NoFile /\ ToSend' /\ os'.state # "Done"
  PROVE  KeepsOn(r)
  <1>1. /\ usage \in [Kinds -> Paths \cup {NoFile}] /\ open \in [Kinds -> BOOLEAN]
        /\ (\A d \in Kinds : open[d] => usage[d] # NoFile) /\ ~Busy
        /\ WriteAt(r.bin) /\ ReadAt(r.bin) /\ (r.bin > 0 => Framed(msg, r.bin))
    BY Stages DEF Ongoing, RequestTypes, InTable, OfRequest
  <1>2. /\ usage' \in [Kinds -> Paths \cup {NoFile}] /\ open' \in [Kinds -> BOOLEAN]
        /\ usage'["WRITING"] = usage["WRITING"] /\ open'["WRITING"] = open["WRITING"]
        /\ \A d \in Kinds : open'[d] => usage'[d] # NoFile
    BY <1>1 DEF Kinds
  <1>3. RequestTypes'
    BY <1>2 DEF Ongoing, RequestTypes
  <1>4. InTable'
    <2>1. ~Busy'
      BY <1>1 DEF Busy
    <2> QED BY <1>2, <2>1 DEF InTable
  <1>5. os'.state \notin Parsing /\ os'.state # "ReadCount" /\ os'.state # "ParseJSON" /\ os'.state # "Idle"
    BY Stages
  <1>6. WriteAt(r.bin)'
    <2>1. usage["WRITING"] = NoFile
      BY <1>1 DEF WriteAt
    <2>2. Stage' = os'.state /\ ~First' /\ Stage' \notin Parsing
      BY <1>5 DEF Stage, First
    <2>3. Stage' \notin {"ReadNextBinary", "ReadBinary"}
      BY <2>2, Stages
    <2> QED BY <1>1, <1>2, <1>5, <2>1, <2>2, <2>3 DEF WriteAt
  <1>7. ReadAt(r.bin)'
    BY <1>1 DEF ReadAt
  <1>8. OfRequest(r)'
    <2>1. msg' = msg
      OBVIOUS
    <2> QED BY <1>1, <1>5, <1>6, <1>7, <2>1 DEF OfRequest
  <1>9. io' # "Listening"
    OBVIOUS
  <1> QED BY <1>3, <1>4, <1>8, <1>9 DEF KeepsOn

\* Where the request is when it is answered.
LEMMA AnswerTurn ==
  ASSUME NEW r \in Requests, Ongoing(r), os.state \notin Parsing
  PROVE  /\ ~halted /\ os \in OsPlaces /\ os.state \in Answering \cup {"OutputJSON"} /\ ~Busy
         /\ usage \in [Kinds -> Paths \cup {NoFile}] /\ open \in [Kinds -> BOOLEAN]
         /\ (\A d \in Kinds : open[d] => usage[d] # NoFile)
         /\ "READING" \in Kinds /\ "WRITING" \in Kinds /\ Told(odata) /\ os.iOData \in Int
         /\ usage["WRITING"] = NoFile /\ (usage["READING"] # NoFile => ToSend /\ os.state # "Done")
         /\ DOMAIN odata = 1 .. Len(odata) /\ Len(odata) \in Nat
  <1>1. /\ ~halted /\ os \in OsPlaces /\ os.state # "Idle" /\ Told(odata)
        /\ usage \in [Kinds -> Paths \cup {NoFile}] /\ open \in [Kinds -> BOOLEAN]
        /\ (\A d \in Kinds : open[d] => usage[d] # NoFile) /\ WriteAt(r.bin) /\ ReadAt(r.bin)
    BY DEF Ongoing, RequestTypes, InTable, OfRequest
  <1>2. os.state \in States /\ os.iOData \in Int
    BY <1>1, PlaceIs
  <1>3. os.state \in Answering \cup {"OutputJSON"}
    BY <1>1, <1>2 DEF States
  <1>4. ~Busy
    BY Stages DEF Ongoing, InTable
  <1>5. usage["WRITING"] = NoFile
    BY <1>1 DEF WriteAt
  <1>6. usage["READING"] # NoFile => ToSend /\ os.state # "Done"
    BY <1>1, <1>4 DEF ReadAt
  <1>7. DOMAIN odata = 1 .. Len(odata) /\ Len(odata) \in Nat
    BY <1>1 DEF Told
  <1>8. "READING" \in Kinds /\ "WRITING" \in Kinds
    BY DEF Kinds
  <1> QED BY <1>1, <1>2, <1>3, <1>4, <1>5, <1>6, <1>7, <1>8

LEMMA OutputJSONKeeps ==
  ASSUME NEW r \in Requests, Ongoing(r), OutputJSON
  PROVE  KeepsOn(r)
  <1>t. os.state = "OutputJSON" /\ os.state \notin Parsing /\ io = "CONTINUE"
    BY Stages DEF OutputJSON, Turn
  <1>1. UNCHANGED <<msg, req, fn, idata, odata, got, io, usage, open, halted>>
    BY DEF OutputJSON, request, file, wire
  <1> DEFINE s == IF cOData > 1 THEN "WriteChunkSize" ELSE "WriteOData"
             a == [os EXCEPT !.base = os.base + os.iStream]
             b == [a EXCEPT !.iStream = 0]
             c == [b EXCEPT !.iOData = 0]
             d == [c EXCEPT !.iBinary = 0]
             e == [d EXCEPT !.state = s]
  <1>2. /\ s \in States /\ s \in Answering /\ s # "Done" /\ os \in OsPlaces /\ os.base + os.iStream \in Int /\ 0 \in Int
    <2>1. os \in OsPlaces
      BY <1>t, AnswerTurn
    <2> QED BY <2>1, Stages, PlaceIs
  <1> HIDE DEF s
  <1>3. a \in OsPlaces
    BY <1>2, PlaceSet
  <1>4. b \in OsPlaces
    <2> HIDE DEF a
    <2> QED BY <1>2, <1>3, PlaceSet
  <1>5. c \in OsPlaces /\ c.iOData = 0
    <2> HIDE DEF b
    <2> QED BY <1>2, <1>4, PlaceSet
  <1>6. d \in OsPlaces /\ SameBut(d, c, {"iBinary"})
    <2> HIDE DEF c
    <2> QED BY <1>2, <1>5, PlaceSet
  <1>7. e \in OsPlaces /\ e.state = s /\ SameBut(e, d, {"state"})
    <2> HIDE DEF d
    <2> QED BY <1>2, <1>6, StageSet
  <1>8. os' = e
    BY DEF OutputJSON, s
  <1> HIDE DEF a, b, c, d, e
  <1>9. os' \in OsPlaces /\ os'.state = s /\ os'.iOData = 0
    BY <1>5, <1>6, <1>7, <1>8 DEF SameBut
  <1>10. usage'["READING"] # NoFile => usage["READING"] # NoFile /\ ToSend' /\ os'.state # "Done"
    <2>1. ToSend => ToSend'
      <3>1. DOMAIN odata = 1 .. Len(odata)
        BY <1>t, AnswerTurn
      <3> QED BY <1>1, <1>9, <3>1 DEF ToSend
    <2> QED BY <1>1, <1>2, <1>9, <1>t, <2>1, AnswerTurn
  <1>11. ~halted' /\ Told(odata)' /\ (open'["READING"] => usage'["READING"] # NoFile)
    BY <1>1, <1>t, AnswerTurn DEF Told
  <1> QED BY <1>1, <1>2, <1>9, <1>10, <1>11, <1>t, AnswerGoesOn

LEMMA WriteChunkSizeKeeps ==
  ASSUME NEW r \in Requests, Ongoing(r), WriteChunkSize
  PROVE  KeepsOn(r)
  <1>t. os.state = "WriteChunkSize" /\ os.state \notin Parsing /\ io = "CONTINUE"
    BY Stages DEF WriteChunkSize, Turn
  <1>1. UNCHANGED <<msg, req, fn, idata, odata, got, usage, open, halted>>
    BY DEF WriteChunkSize, request, file
  <1>2. /\ os \in OsPlaces /\ ~halted /\ Told(odata) /\ os.iOData \in Int
        /\ (open["READING"] => usage["READING"] # NoFile)
        /\ (usage["READING"] # NoFile => ToSend) /\ DOMAIN odata = 1 .. Len(odata) /\ Len(odata) \in Nat
    BY <1>t, AnswerTurn
  <1>3. "Done" \in States /\ "WriteOData" \in States /\ {"Done", "WriteOData"} \subseteq Answering
    BY Stages
  <1>4. Told(odata)' /\ ~halted' /\ (open'["READING"] => usage'["READING"] # NoFile)
    BY <1>1, <1>2 DEF Told
  <1>5. CASE os.iOData = cOData \/ cOData = 1
    <2>1. os' = [os EXCEPT !.state = "Done"] /\ io' = "WRITE"
      BY <1>5 DEF WriteChunkSize
    <2>2. os' \in OsPlaces /\ os'.state = "Done"
      BY <1>2, <1>3, <2>1, StageSet
    <2>3. ~ToSend
      <3>1. os.state \in Answering
        BY <1>t, Stages
      <3> QED BY <1>2, <1>5, <3>1 DEF ToSend, cOData
    <2>4. usage'["READING"] = NoFile
      BY <1>1, <1>2, <2>3
    <2> QED BY <1>1, <1>3, <1>4, <1>t, <2>1, <2>2, <2>4, AnswerGoesOn
  <1>6. CASE ~(os.iOData = cOData \/ cOData = 1)
    <2>1. os' = [os EXCEPT !.state = "WriteOData"] /\ io' \in {"WRITE", "CONTINUE"}
      BY <1>6 DEF WriteChunkSize
    <2>2. os' \in OsPlaces /\ os'.state = "WriteOData" /\ os'.iOData = os.iOData
      <3>1. os' \in OsPlaces /\ os'.state = "WriteOData" /\ SameBut(os', os, {"state"})
        BY <1>2, <1>3, <2>1, StageSet
      <3> QED BY <3>1 DEF SameBut
    <2>3. ToSend => ToSend'
      <3>1. os.state \in Answering
        BY <1>t, Stages
      <3> QED BY <1>1, <2>2, <3>1 DEF ToSend
    <2>4. usage'["READING"] # NoFile => usage["READING"] # NoFile /\ ToSend' /\ os'.state # "Done"
      BY <1>1, <1>2, <2>2, <2>3
    <2> QED BY <1>1, <1>3, <1>4, <1>t, <2>1, <2>2, <2>4, AnswerGoesOn
  <1> QED BY <1>5, <1>6

LEMMA NextODataIs ==
  ASSUME os \in OsPlaces
  PROVE  /\ NextOData \in OsPlaces /\ NextOData.state = "WriteChunkSize" /\ NextOData.iOData = os.iOData + 1
         /\ "WriteChunkSize" \in Answering
  <1> DEFINE a == [os EXCEPT !.state = "WriteChunkSize"]
             b == [a EXCEPT !.iOData = a.iOData + 1]
  <1>1. "WriteChunkSize" \in States /\ "WriteChunkSize" \in Answering
    BY Stages
  <1>2. a \in OsPlaces /\ a.state = "WriteChunkSize" /\ SameBut(a, os, {"state"})
    BY <1>1, StageSet
  <1>3. a.iOData + 1 \in Int /\ a.iOData = os.iOData
    BY <1>2, PlaceIs DEF SameBut
  <1>4. b \in OsPlaces /\ b.iOData = a.iOData + 1 /\ SameBut(b, a, {"iOData"})
    <2> HIDE DEF a
    <2> QED BY <1>2, <1>3, PlaceSet
  <1>5. NextOData = b
    BY DEF NextOData
  <1> HIDE DEF a, b
  <1> QED BY <1>1, <1>2, <1>3, <1>4, <1>5 DEF SameBut

LEMMA WriteJSONRespKeeps ==
  ASSUME NEW r \in Requests, Ongoing(r), WriteJSONResp
  PROVE  KeepsOn(r)
  <1>t. os.state = "WriteOData" /\ os.state \notin Parsing /\ os.iOData = 0 /\ os' = NextOData /\ io' = "WRITE"
    BY Stages DEF WriteJSONResp, Turn
  <1>1. UNCHANGED <<msg, req, fn, idata, odata, got, usage, open, halted>>
    BY DEF WriteJSONResp, request, file
  <1>2. /\ os \in OsPlaces /\ ~halted /\ Told(odata) /\ os.iOData \in Int
        /\ (open["READING"] => usage["READING"] # NoFile)
        /\ (usage["READING"] # NoFile => ToSend) /\ DOMAIN odata = 1 .. Len(odata)
    BY <1>t, AnswerTurn
  <1>3. os' \in OsPlaces /\ os'.state = "WriteChunkSize" /\ os'.iOData = 1 /\ "WriteChunkSize" \in Answering
    BY <1>t, <1>2, NextODataIs
  <1>4. Told(odata)' /\ ~halted' /\ (open'["READING"] => usage'["READING"] # NoFile)
    BY <1>1, <1>2 DEF Told
  <1>5. ToSend => ToSend'
    BY <1>1, <1>2, <1>3 DEF ToSend
  <1>6. usage'["READING"] # NoFile => usage["READING"] # NoFile /\ ToSend' /\ os'.state # "Done"
    BY <1>1, <1>2, <1>3, <1>5
  <1> QED BY <1>1, <1>3, <1>4, <1>6, <1>t, AnswerGoesOn

\* A piece that goes out leaves what is to be sent as it was.
LEMMA OutKeeps ==
  ASSUME NEW r \in Requests, Ongoing(r), os.state = "WriteOData",
         UNCHANGED <<msg, req, fn, idata, got, os, usage, open, halted>>, io' \in {"CONTINUE", "WRITE"},
         NEW v, odata' = [odata EXCEPT ![os.iOData].iOut = v]
  PROVE  KeepsOn(r)
  <1>t. os.state \notin Parsing /\ os.state \in Answering
    BY Stages
  <1>1. /\ os \in OsPlaces /\ ~halted /\ Told(odata) /\ (open["READING"] => usage["READING"] # NoFile)
        /\ (usage["READING"] # NoFile => ToSend)
    BY <1>t, AnswerTurn
  <1>2. DOMAIN odata' = DOMAIN odata /\ \A i \in DOMAIN odata : odata'[i].do = odata[i].do
    BY <1>1, ToldSet
  <1>3. Told(odata)'
    <2>1. Told(odata')
      BY <1>1, ToldSet
    <2> QED BY <2>1 DEF Told
  <1>4. ToSend => ToSend'
    BY <1>2 DEF ToSend
  <1>5. usage'["READING"] # NoFile => usage["READING"] # NoFile /\ ToSend' /\ os'.state # "Done"
    BY <1>1, <1>4
  <1>6. /\ ~halted' /\ (open'["READING"] => usage'["READING"] # NoFile) /\ os' \in OsPlaces
        /\ os'.state \in Answering
    BY <1>1, <1>t
  <1> QED BY <1>3, <1>5, <1>6, <1>t, AnswerGoesOn

LEMMA ReadFileKeeps ==
  ASSUME NEW r \in Requests, Ongoing(r), ReadFile
  PROVE  KeepsOn(r)
  <1>1. UNCHANGED <<msg, req, fn, idata, got, os, usage, open, halted>> /\ os.state = "WriteOData" /\ io = "CONTINUE"
    BY DEF ReadFile, file, Sends, Turn
  <1>2. io' \in {"CONTINUE", "WRITE"} /\ \E v : odata' = [odata EXCEPT ![os.iOData].iOut = v]
    <2>1. \/ odata' = [odata EXCEPT ![os.iOData].iOut = @ + CbMax] /\ io' = "WRITE"
          \/ odata' = [odata EXCEPT ![os.iOData].iOut = O.cb] /\ io' = io
      BY DEF ReadFile, Out
    <2> QED BY <1>1, <2>1
  <1> QED BY <1>1, <1>2, OutKeeps

LEMMA ReadFileCloseKeeps ==
  ASSUME NEW r \in Requests, Ongoing(r), ReadFileClose
  PROVE  IF halted' THEN io' \in {"READ", "CONTINUE"} ELSE KeepsOn(r)
  <1>t. /\ os.state = "WriteOData" /\ os.state \notin Parsing /\ os.state \in Answering /\ io = "CONTINUE"
        /\ os.state # "Done"
    BY Stages DEF ReadFileClose, Sends, Turn
  <1>1. UNCHANGED <<msg, req, fn, idata, odata, got, io, os, usage>>
    BY DEF ReadFileClose, request, wire
  <1>2. /\ os \in OsPlaces /\ Told(odata) /\ open \in [Kinds -> BOOLEAN] /\ "READING" \in Kinds
        /\ (usage["READING"] # NoFile => ToSend)
    BY <1>t, AnswerTurn
  <1>3. PICK ok \in Outcomes("close") : open' = [open EXCEPT !["READING"] = ~ok] /\ halted' = ~ok
    BY DEF ReadFileClose
  <1>4. CASE ~halted'
    <2>1. open' = [open EXCEPT !["READING"] = FALSE] /\ ~open'["READING"]
      BY <1>2, <1>3, <1>4 DEF Outcomes
    <2>2. Told(odata)' /\ (ToSend => ToSend')
      BY <1>1, <1>2 DEF Told, ToSend
    <2>3. usage'["READING"] # NoFile => usage["READING"] # NoFile /\ ToSend' /\ os'.state # "Done"
      BY <1>1, <1>2, <1>t, <2>2
    <2>4. KeepsOn(r)
      BY <1>1, <1>2, <1>4, <1>t, <2>1, <2>2, <2>3, AnswerGoesOn
    <2> QED BY <1>4, <2>4
  <1> QED BY <1>1, <1>4, <1>t

LEMMA ReadFileDoneKeeps ==
  ASSUME NEW r \in Requests, Ongoing(r), ReadFileDone
  PROVE  KeepsOn(r)
  <1>t. os.state = "WriteOData" /\ os.state \notin Parsing /\ os' = NextOData /\ io = "CONTINUE" /\ ~open["READING"]
    BY Stages DEF ReadFileDone, Sends, Turn
  <1>1. UNCHANGED <<msg, req, fn, idata, odata, got, io, open, halted>> /\ usage' = [usage EXCEPT !["READING"] = NoFile]
    BY DEF ReadFileDone, request, wire, UsageCleared
  <1>2. /\ os \in OsPlaces /\ ~halted /\ Told(odata) /\ usage \in [Kinds -> Paths \cup {NoFile}] /\ "READING" \in Kinds
    BY <1>t, AnswerTurn
  <1>3. os' \in OsPlaces /\ os'.state = "WriteChunkSize" /\ "WriteChunkSize" \in Answering
    BY <1>t, <1>2, NextODataIs
  <1>4. Told(odata)' /\ ~halted' /\ ~open'["READING"] /\ usage'["READING"] = NoFile
    BY <1>1, <1>2, <1>t DEF Told
  <1> QED BY <1>1, <1>3, <1>4, <1>t, AnswerGoesOn

LEMMA ReadVoltageLogKeeps ==
  ASSUME NEW r \in Requests, Ongoing(r), ReadVoltageLog
  PROVE  KeepsOn(r)
  <1>t. os.state = "WriteOData" /\ os.state \notin Parsing /\ os.state \in Answering /\ io = "CONTINUE" /\ O.do = "log"
    BY Stages DEF ReadVoltageLog, Sends, Turn
  <1>1. UNCHANGED <<msg, req, fn, idata, got, usage, open, halted>>
    BY DEF ReadVoltageLog, file
  <1>2. CASE OfThis = 0
    <2>1. os' = NextOData /\ UNCHANGED <<io, odata>>
      BY <1>2 DEF ReadVoltageLog
    <2>2. /\ os \in OsPlaces /\ ~halted /\ Told(odata) /\ os.iOData \in Int
          /\ (open["READING"] => usage["READING"] # NoFile)
          /\ (usage["READING"] # NoFile => ToSend) /\ DOMAIN odata = 1 .. Len(odata) /\ Len(odata) \in Nat
      BY <1>t, AnswerTurn
    <2>3. os' \in OsPlaces /\ os'.state = "WriteChunkSize" /\ os'.iOData = os.iOData + 1 /\ "WriteChunkSize" \in Answering
      BY <2>1, <2>2, NextODataIs
    <2>4. ToSend => ToSend'
      <3> SUFFICES ASSUME NEW i \in DOMAIN odata, odata[i].do = "read", os.iOData <= i PROVE ToSend'
        BY <1>t DEF ToSend
      <3>1. i # os.iOData
        BY <1>t DEF O
      <3>2. os.iOData + 1 <= i
        BY <2>2, <3>1
      <3> QED BY <2>1, <2>3, <3>2 DEF ToSend
    <2>5. usage'["READING"] # NoFile => usage["READING"] # NoFile /\ ToSend' /\ os'.state # "Done"
      BY <1>1, <2>2, <2>3, <2>4
    <2>6. Told(odata)' /\ ~halted' /\ (open'["READING"] => usage'["READING"] # NoFile)
      BY <1>1, <2>1, <2>2 DEF Told
    <2> QED BY <1>1, <1>t, <2>1, <2>3, <2>5, <2>6, AnswerGoesOn
  <1>3. CASE OfThis # 0
    <2>1. UNCHANGED os /\ io' = "WRITE" /\ \E v : odata' = [odata EXCEPT ![os.iOData].iOut = v]
      BY <1>3 DEF ReadVoltageLog, Out
    <2> QED BY <1>1, <1>t, <2>1, OutKeeps
  <1> QED BY <1>2, <1>3

LEMMA TransmitKeeps ==
  ASSUME NEW r \in Requests, Ongoing(r), Transmit
  PROVE  KeepsOn(r)
  <1>1. /\ io = "WRITE" /\ io' = "CONTINUE"
        /\ UNCHANGED <<msg, req, fn, idata, odata, got, os, usage, open, halted>>
    BY DEF Transmit, request, file
  <1>2. os.state \in Answering /\ os.state \notin Parsing
    BY <1>1, Stages DEF Ongoing, OfRequest
  <1>3. /\ os \in OsPlaces /\ ~halted /\ Told(odata) /\ (open["READING"] => usage["READING"] # NoFile)
        /\ (usage["READING"] # NoFile => ToSend /\ os.state # "Done")
    BY <1>2, AnswerTurn
  <1>4. Told(odata)' /\ (ToSend => ToSend')
    BY <1>1, <1>3 DEF Told, ToSend
  <1>5. usage'["READING"] # NoFile => usage["READING"] # NoFile /\ ToSend' /\ os'.state # "Done"
    BY <1>1, <1>3, <1>4
  <1>6. ~halted' /\ (open'["READING"] => usage'["READING"] # NoFile) /\ os' \in OsPlaces /\ os'.state \in Answering
    BY <1>1, <1>2, <1>3
  <1> QED BY <1>1, <1>2, <1>4, <1>5, <1>6, AnswerGoesOn

LEMMA OsInitIs == OsInit \in OsPlaces /\ OsInit.state = "Idle"
  <1>1. "Idle" \in States
    BY DEF States
  <1> QED BY <1>1 DEF OsInit, OsPlaces

\* The next request may come.
LEMMA Free ==
  ASSUME RequestTypes, Told(odata), InTable, ~Busy, NoneHeld,
         UNCHANGED <<req, fn, idata, odata, usage, open, got, halted>>, os' = OsInit, io' = "Listening", ~halted
  PROVE  RequestInv'
  <1>1. RequestTypes'
    BY OsInitIs DEF RequestTypes
  <1>2. Told(odata)'
    BY DEF Told
  <1>3. InTable'
    BY DEF InTable, Busy
  <1>4. NoneHeld' /\ os'.state = "Idle"
    BY OsInitIs DEF NoneHeld
  <1> QED BY <1>1, <1>2, <1>3, <1>4 DEF RequestInv, Running

LEMMA DoneFrees ==
  ASSUME NEW r \in Requests, Ongoing(r), Done
  PROVE  RequestInv'
  <1>1. os.state = "Done" /\ os.state \notin Parsing
    BY Stages DEF Done, Turn
  <1>2. ~halted /\ ~Busy /\ usage \in [Kinds -> Paths \cup {NoFile}] /\ usage["WRITING"] = NoFile /\ usage["READING"] = NoFile
    BY <1>1, AnswerTurn
  <1>3. NoneHeld
    BY <1>2 DEF NoneHeld, Kinds
  <1> QED BY <1>2, <1>3, Free DEF Done, request, file, wire, Ongoing

LEMMA DropFrees ==
  ASSUME NEW r \in Requests, Ongoing(r), Drop, "drop" \notin Faults
  PROVE  RequestInv'
  <1>1. os.state \in Answering /\ os.state \notin Parsing
    BY Stages DEF Drop, Ongoing, OfRequest
  <1>2. ~halted /\ ~Busy
    BY <1>1, AnswerTurn
  <1> QED BY <1>2, Free DEF Drop, request, file, Ongoing

LEMMA ReceiveKeeps ==
  ASSUME NEW r \in Requests, Ongoing(r), NEW k \in 1 .. CbInput, Receive(k)
  PROVE  KeepsOn(r)
  <1>1. /\ UNCHANGED <<msg, req, fn, idata, odata, got, usage, open, halted>>
        /\ os' = [os EXCEPT !.cbStream = k] /\ io = "READ" /\ io' = "CONTINUE"
    BY DEF Receive, request, file, wire
  <1>2. k \in Int /\ k > 0
    BY SMTT(30), BinaryDataAssumption
  <1>3. os \in OsPlaces
    BY DEF Ongoing, RequestTypes
  <1>4. os' \in OsPlaces /\ os'.cbStream = k /\ SameBut(os', os, {"cbStream"})
    BY <1>1, <1>2, <1>3, PlaceSet
  <1>5. /\ os'.state = os.state /\ os'.nextChunk = os.nextChunk /\ os'.base = os.base /\ os'.iStream = os.iStream
        /\ os'.iBinary = os.iBinary /\ os'.iBinaryDone = os.iBinaryDone /\ os'.write = os.write
        /\ os'.cbChunk = os.cbChunk /\ os'.iChunk = os.iChunk /\ os'.iChunkStart = os.iChunkStart
        /\ os'.iOData = os.iOData
    BY <1>4 DEF SameBut
  <1>6. /\ PosOf(os)' = PosOf(os) /\ LeftOf(os)' = LeftOf(os) /\ Stage' = Stage /\ First' = First
        /\ AtFileEnd' = AtFileEnd
    BY <1>5 DEF PosOf, LeftOf, Stage, First, AtFileEnd
  <1>7. RequestTypes' /\ Told(odata)'
    BY <1>1, <1>4 DEF RequestTypes, Told, Ongoing
  <1>8. Busy' = Busy /\ Cmd' = Cmd /\ Entry' = Entry /\ Begins' = Begins
    BY <1>1 DEF Busy, Cmd, Entry, Begins
  <1>9. InTable'
    BY <1>1, <1>5, <1>8 DEF InTable, Ongoing
  <1>10. os.state \in Parsing => InMessage(r.bin)'
    <2> SUFFICES ASSUME os.state \in Parsing PROVE InMessage(r.bin)'
      OBVIOUS
    <2>1. InMessage(r.bin)
      BY DEF Ongoing, OfRequest
    <2>2. InStream'
      <3>1. os.iStream = 0
        BY <1>1, <2>1 DEF InMessage, InStream
      <3> QED BY <1>1, <1>2, <1>4, <1>5, <3>1 DEF InStream
    <2>3. AtCount(os) => AtCount(os)'
      BY <1>1, <1>5, <1>6 DEF AtCount, ToldAt
    <2>4. InChunk(os, r.bin) => InChunk(os, r.bin)'
      BY <1>1, <1>5, <1>6 DEF InChunk, ToldAt
    <2> QED BY <1>5, <1>6, <2>1, <2>2, <2>3, <2>4 DEF InMessage
  <1>11. WriteAt(r.bin)'
    <2>1. WriteAt(r.bin)
      BY DEF Ongoing, OfRequest
    <2>2. (Before => Before') /\ (Amid => Amid') /\ (After => After')
      BY <1>1, <1>5, <1>6 DEF Before, Amid, After
    <2>3. NoWrite' = NoWrite /\ NoneHeld' = NoneHeld
      BY <1>1 DEF NoWrite, NoneHeld
    <2> QED BY <1>1, <1>5, <1>6, <1>8, <2>1, <2>2, <2>3 DEF WriteAt
  <1>12. ReadAt(r.bin)'
    <2>1. ToSend => ToSend'
      BY <1>1, <1>5 DEF ToSend
    <2> QED BY <1>1, <1>5, <1>8, <2>1 DEF ReadAt, Ongoing, OfRequest
  <1>13. OfRequest(r)'
    BY <1>1, <1>5, <1>10, <1>11, <1>12 DEF OfRequest, Ongoing
  <1>14. ~halted' /\ io' # "Listening"
    BY <1>1 DEF Ongoing
  <1> QED BY <1>7, <1>9, <1>13, <1>14 DEF KeepsOn

LEMMA ListenStarts ==
  ASSUME Running, ~halted, NEW r \in Requests, Listen(r)
  PROVE  KeepsOn(r)
  <1> DEFINE n == r.bin
             s == IF n = 0 THEN "ParseJSON" ELSE "ReadCount"
             a == [OsInit EXCEPT !.cbStream = 1]
             b == [a EXCEPT !.nextChunk = "ParseJSON"]
             c == [b EXCEPT !.state = s]
  <1>1. /\ io = "Listening" /\ msg' \in Messages(n) /\ req' = r.cmds /\ os' = c
        /\ io' = "CONTINUE" /\ fn' = [i |-> 1, at |-> "Idle"] /\ idata' = NoData /\ odata' = <<>>
        /\ got' = <<>> /\ UNCHANGED <<usage, open, halted>>
    BY DEF Listen, file
  <1>2. RequestTypes /\ InTable /\ NoneHeld
    BY <1>1 DEF Running
  <1>3. n \in Nat /\ r.cmds \in Seq(Commands)
    BY Params
  <1>4. s \in States /\ "ParseJSON" \in States /\ s \in Parsing
    BY Stages
  <1>5. a \in OsPlaces /\ SameBut(a, OsInit, {"cbStream"}) /\ a.cbStream = 1
    <2>1. 1 \in Int /\ OsInit \in OsPlaces
      BY OsInitIs
    <2> QED BY <2>1, PlaceSet
  <1>6. b \in OsPlaces /\ b.nextChunk = "ParseJSON" /\ SameBut(b, a, {"nextChunk"})
    <2> HIDE DEF a
    <2> QED BY <1>4, <1>5, StageSet
  <1>7. c \in OsPlaces /\ c.state = s /\ SameBut(c, b, {"state"})
    <2> HIDE DEF b, s
    <2> QED BY <1>4, <1>6, StageSet
  <1> HIDE DEF a, b, c
  <1>8. /\ OsInit.base = 0 /\ OsInit.iStream = 0 /\ OsInit.iBinary = 0 /\ OsInit.cbChunk = 0
        /\ OsInit.iChunkStart = 0
    BY DEF OsInit
  <1>9. /\ os' \in OsPlaces /\ os'.state = s /\ os'.nextChunk = "ParseJSON" /\ os'.cbStream = 1
        /\ os'.base = 0 /\ os'.iStream = 0 /\ os'.iBinary = 0 /\ os'.cbChunk = 0
    BY <1>1, <1>5, <1>6, <1>7, <1>8 DEF SameBut
  <1>10. RequestTypes'
    <2>1. got' \in Seq(Units) /\ Len(got') <= Room
      BY <1>1, BinaryDataAssumption
    <2>2. idata' \in [at : Nat \cup {-1}, cb : Nat] /\ fn' \in [i : Nat \ {0}, at : {"Idle", "WaitingForResources", "JSONSeekFile", "JSONClose"}]
      BY <1>1 DEF NoData
    <2> QED BY <1>1, <1>2, <1>3, <1>9, <2>1, <2>2 DEF RequestTypes
  <1>11. Told(odata)'
    BY <1>1, ToldEmpty DEF Told
  <1>12. ~Busy' /\ InTable'
    BY <1>1, <1>2 DEF InTable, Busy
  <1>13. NoneHeld' /\ usage'["WRITING"] = NoFile /\ usage'["READING"] = NoFile
    <2>1. usage \in [Kinds -> Paths \cup {NoFile}]
      BY <1>2 DEF RequestTypes
    <2> QED BY <1>1, <1>2, <2>1 DEF NoneHeld, Kinds
  <1>14. n > 0 => Framed(msg, n)'
    <2>1. n > 0 => Framed(msg', n)
      BY <1>1, <1>3, MessagesFramed
    <2> QED BY <2>1 DEF Framed, CountAt, ToldAt
  <1>15. Stage' = "ParseJSON" /\ (First' <=> n # 0) /\ PosOf(os)' = 0
    BY <1>9 DEF Stage, First, PosOf
  <1>16. InMessage(n)'
    <2>1. InStream'
      BY <1>1, <1>9 DEF InStream
    <2>2. os'.state \notin {"ReadNextBinary", "ReadBinary"}
      BY <1>9
    <2> QED BY <1>3, <1>9, <1>15, <2>1, <2>2 DEF InMessage
  <1>17. WriteAt(n)'
    BY <1>1, <1>4, <1>9, <1>12, <1>13, <1>15 DEF WriteAt, NoWrite, Begins
  <1>18. ReadAt(n)'
    BY <1>4, <1>9, <1>13, Stages DEF ReadAt
  <1>19. OfRequest(r)'
    BY <1>1, <1>4, <1>9, <1>14, <1>16, <1>17, <1>18, Stages DEF OfRequest, n
  <1>20. ~halted' /\ io' # "Listening"
    BY <1>1
  <1> QED BY <1>10, <1>11, <1>12, <1>19, <1>20 DEF KeepsOn

LEMMA LogMoves ==
  ASSUME RequestInv, UNCHANGED <<msg, req, io, os, fn, idata, odata, usage, open, got, halted>>
  PROVE  RequestInv'
  <1>1. CASE halted
    BY <1>1 DEF RequestInv
  <1>2. CASE ~halted
    <2>1. Running
      BY <1>2 DEF RequestInv
    <2>2. RequestTypes' /\ Told(odata)' /\ InTable'
      BY <2>1 DEF Running, RequestTypes, Told, InTable, Busy, Cmd, Entry
    <2>3. \A r \in Requests : OfRequest(r) => OfRequest(r)'
      <3> SUFFICES ASSUME NEW r \in Requests, OfRequest(r) PROVE OfRequest(r)'
        OBVIOUS
      <3>1. InMessage(r.bin) => InMessage(r.bin)'
        BY DEF InMessage, InStream, Stage, First, AtCount, InChunk, PosOf, LeftOf, AtFileEnd, ToldAt
      <3>2. WriteAt(r.bin) => WriteAt(r.bin)'
        BY DEF WriteAt, Stage, First, NoneHeld, Begins, Busy, Cmd, NoWrite, Before, Amid, After
      <3>3. ReadAt(r.bin) => ReadAt(r.bin)'
        BY DEF ReadAt, Busy, Cmd, ToSend
      <3> QED BY <3>1, <3>2, <3>3 DEF OfRequest
    <2>4. io = "Listening" => os'.state = "Idle" /\ NoneHeld'
      BY <2>1 DEF Running, NoneHeld
    <2>5. Running'
      BY <2>1, <2>2, <2>3, <2>4 DEF Running
    <2> QED BY <1>2, <2>5 DEF RequestInv
  <1> QED BY <1>1, <1>2

LEMMA RequestStarts == RequestInit => RequestInv
  <1> SUFFICES ASSUME RequestInit PROVE RequestInv
    OBVIOUS
  <1>1. req \in Seq(Commands) /\ os \in OsPlaces /\ os.state = "Idle"
    <2>1. <<>> \in Seq(Commands)
      OBVIOUS
    <2> QED BY <2>1, OsInitIs DEF RequestInit
  <1>2. got \in Seq(Units) /\ Len(got) <= Room /\ idata \in [at : Nat \cup {-1}, cb : Nat]
    BY BinaryDataAssumption DEF RequestInit, NoData
  <1>3. usage \in [Kinds -> Paths \cup {NoFile}] /\ open \in [Kinds -> BOOLEAN] /\ (\A d \in Kinds : ~open[d]) /\ NoneHeld
    BY DEF RequestInit, Kinds, NoneHeld
  <1>4. fn = [i |-> 1, at |-> "Idle"] /\ io = "Listening" /\ ~halted /\ odata = <<>>
    BY DEF RequestInit
  <1>5. RequestTypes
    BY <1>1, <1>2, <1>3, <1>4 DEF RequestTypes
  <1>6. InTable
    BY <1>3, <1>4 DEF InTable, Busy
  <1> QED BY <1>1, <1>3, <1>4, <1>5, <1>6, ToldEmpty DEF RequestInv, Running

LEMMA RequestStep ==
  ASSUME RequestInv, [RequestNext]_requestVars, {"syntax", "drop"} \cap Faults = {}, Answerable
  PROVE  RequestInv'
  <1>1. CASE halted
    <2>1. ~StreamOS /\ ~Drop /\ ~Transmit /\ ~(\E r \in Requests : Listen(r))
      <3>1. io \in {"READ", "CONTINUE"} /\ \A s : ~Turn(s)
        BY <1>1 DEF RequestInv, Turn
      <3>2. ~StreamOS
        BY <3>1 DEF StreamOS, ReadCount, JsonDone, SyntaxError, ReadNextBinary, SkipBinary, WriteFile,
                    WriteFileClose, WriteFileDone, WriteTurn, SetUsage, OpenFile, SeekFile, CloseFile, LogRead, At,
                    OutputJSON, WriteChunkSize, WriteJSONResp, ReadFile, ReadFileClose, ReadFileDone,
                    ReadVoltageLog, Sends, Done
      <3> QED BY ZenonT(40), <3>1, <3>2 DEF Drop, Transmit, Listen
    <2>2. CASE \E k \in 1 .. CbInput : Receive(k)
      BY <1>1, <2>2 DEF Receive, RequestInv
    <2>3. CASE Convert \/ Stop
      BY <1>1, <2>3 DEF Convert, Stop, RequestInv
    <2>4. CASE UNCHANGED requestVars
      BY <1>1, <2>4 DEF requestVars, RequestInv
    <2> QED BY <2>1, <2>2, <2>3, <2>4 DEF RequestNext, Client
  <1>2. CASE ~halted
    <2>1. Running
      BY <1>2 DEF RequestInv
    <2>2. CASE UNCHANGED requestVars
      BY <2>2, LogMoves DEF requestVars
    <2>3. CASE Convert \/ Stop
      BY <2>3, LogMoves DEF Convert, Stop, request, file, wire
    <2>4. ASSUME NEW r \in Requests, KeepsOn(r) PROVE RequestInv'
      BY <2>4 DEF KeepsOn, RequestInv, Running
    <2>5. CASE \E r \in Requests : Listen(r)
      BY <1>2, <2>1, <2>4, <2>5, ListenStarts
    <2>6. CASE StreamOS \/ Client \/ Drop
      <3>1. io # "Listening"
        BY SMTT(30), <2>6 DEF StreamOS, ReadCount, JsonDone, SyntaxError, ReadNextBinary, SkipBinary, WriteFile,
                    WriteFileClose, WriteFileDone, WriteTurn, SetUsage, OpenFile, SeekFile, CloseFile, LogRead, At,
                    OutputJSON, WriteChunkSize, WriteJSONResp, ReadFile, ReadFileClose, ReadFileDone,
                    ReadVoltageLog, Sends, Done, Turn, Client, Receive, Transmit, Drop
      <3>2. PICK r \in Requests : Ongoing(r)
        BY <1>2, <2>1, <3>1 DEF Running, Ongoing
      <3>3. ASSUME IF halted' THEN io' \in {"READ", "CONTINUE"} ELSE KeepsOn(r) PROVE RequestInv'
        BY <2>4, <3>3 DEF RequestInv
      <3>4. "syntax" \notin Faults /\ "drop" \notin Faults
        OBVIOUS
      <3>5. CASE ReadCount \/ JsonDone \/ SyntaxError \/ ReadNextBinary
        BY <2>4, <3>2, <3>4, <3>5, ReadCountKeeps, JsonDoneKeeps, SyntaxErrorKeeps, ReadNextBinaryKeeps
      <3>6. CASE SkipBinary \/ WriteFile \/ WriteFileClose
        BY <2>4, <3>2, <3>6, SkipBinaryKeeps, WriteFileKeeps, WriteFileCloseKeeps
      <3>7. CASE WriteFileDone \/ CloseFile \/ ReadFileClose
        BY <3>2, <3>3, <3>7, WriteFileDoneKeeps, CloseFileKeeps, ReadFileCloseKeeps
      <3>8. CASE SetUsage \/ OpenFile \/ SeekFile \/ LogRead
        BY <2>4, <3>2, <3>8, SetUsageKeeps, OpenFileKeeps, SeekFileKeeps, LogReadKeeps
      <3>9. CASE OutputJSON \/ WriteChunkSize \/ WriteJSONResp \/ ReadFile
        BY <2>4, <3>2, <3>9, OutputJSONKeeps, WriteChunkSizeKeeps, WriteJSONRespKeeps, ReadFileKeeps
      <3>10. CASE ReadFileDone \/ ReadVoltageLog \/ Transmit \/ \E k \in 1 .. CbInput : Receive(k)
        BY <2>4, <3>2, <3>10, ReadFileDoneKeeps, ReadVoltageLogKeeps, TransmitKeeps, ReceiveKeeps
      <3>11. CASE Done
        BY <3>2, <3>11, DoneFrees
      <3>12. CASE Drop
        BY <3>2, <3>4, <3>12, DropFrees
      <3> QED BY <2>6, <3>5, <3>6, <3>7, <3>8, <3>9, <3>10, <3>11, <3>12 DEF StreamOS, Client
    <2> QED BY <2>2, <2>3, <2>5, <2>6 DEF RequestNext
  <1> QED BY <1>1, <1>2

\* Whenever the next request is listened for, both files are closed and their entries given
\* back: files may be refused, reads and writes may fail, and the message may be cut into any
\* chunks and pieces, as long as it parses and the client stays.
THEOREM FilesGivenBack ==
  ASSUME {"syntax", "drop"} \cap Faults = {}, Answerable
  PROVE  RequestSpec => []GivenBack
  <1>1. RequestInit => RequestInv
    BY RequestStarts
  <1>2. RequestInv /\ [RequestNext]_requestVars => RequestInv'
    BY RequestStep
  <1>3. RequestInv => GivenBack
    <2> SUFFICES ASSUME RequestInv, io = "Listening" PROVE \A d \in DOMAIN usage : usage[d] = NoFile /\ ~open[d]
      BY DEF GivenBack
    <2>1. Running
      BY DEF RequestInv
    <2>2. RequestTypes /\ InTable /\ NoneHeld
      BY <2>1 DEF Running
    <2>3. DOMAIN usage = Kinds
      BY <2>2 DEF RequestTypes
    <2> QED BY <2>2, <2>3 DEF InTable, NoneHeld
  <1> QED BY <1>1, <1>2, <1>3, PTL DEF RequestSpec

-----------------------------------------------------------------------------
(* BytesInv: what has reached the file.                                    *)

\* The bytes that the file has been given.
GotBytes(k) == Len(got) = k /\ \A j \in 1 .. k : got[j] = Data(idata.at + j)
GotSoFar ==
  IF idata = NoData THEN got = <<>>
  ELSE GotBytes(IF os.iBinary <= idata.at THEN 0 ELSE os.iBinary - idata.at)
BytesOf(r) ==
  /\ IsFiniteSet(DataIn(msg)) /\ Cardinality(DataIn(msg)) = r.bin /\ ~broken
  /\ os.state \in Parsing => req # <<>> /\ ~os.fError /\ GotSoFar
  /\ Stage = "ReadBinary" /\ os.write /\ usage["WRITING"] # NoFile /\ ~open["WRITING"] => AtFileEnd
  /\ os.state \notin Parsing =>
       /\ os.fError <=> req = <<>> \/ r.bin > Wanted
       /\ idata # NoData => GotBytes(idata.cb)
BytesInv ==
  /\ Running /\ ~halted /\ ~broken
  /\ io # "Listening" => \E r \in Requests : OfRequest(r) /\ BytesOf(r)

LEMMA GotOne ==
  ASSUME NEW r \in Requests, Ongoing(r), BytesOf(r), os.state \in Parsing
  PROVE  /\ req # <<>> /\ ~os.fError /\ ~broken /\ ~halted
         /\ idata \in [at : Nat \cup {-1}, cb : Nat] /\ r.bin \in Nat /\ os \in OsPlaces /\ os.iBinary \in Int
         /\ (idata = NoData => got = <<>>) /\ (idata # NoData => idata.at \in Nat /\ idata.cb \in Nat)
         /\ (idata # NoData /\ os.iBinary <= idata.at => GotBytes(0))
         /\ (idata # NoData /\ os.iBinary > idata.at => GotBytes(os.iBinary - idata.at))
  <1>1. /\ idata \in [at : Nat \cup {-1}, cb : Nat] /\ os \in OsPlaces /\ ~halted /\ WriteAt(r.bin) /\ r.bin \in Nat
    BY Params DEF Ongoing, RequestTypes, OfRequest
  <1>2. req # <<>> /\ ~os.fError /\ ~broken /\ GotSoFar
    BY DEF BytesOf
  <1>3. idata # NoData => idata.at \in Nat /\ idata.cb \in Nat
    BY <1>1 DEF WriteAt
  <1>4. os.iBinary \in Int
    BY <1>1, PlaceIs
  <1> QED BY <1>1, <1>2, <1>3, <1>4 DEF GotSoFar

\* The file has been given nothing more.
LEMMA GotNothing ==
  ASSUME NEW r \in Requests, Ongoing(r), BytesOf(r), UNCHANGED <<msg, req, idata, got, broken>>,
         os'.fError = os.fError, os'.state \in Parsing <=> os.state \in Parsing,
         os.state \in Parsing => os'.iBinary = os.iBinary,
         Stage' = "ReadBinary" /\ os'.write /\ usage'["WRITING"] # NoFile /\ ~open'["WRITING"] => AtFileEnd'
  PROVE  BytesOf(r)'
  <1>1. GotSoFar /\ os.state \in Parsing => GotSoFar'
    BY DEF GotSoFar, GotBytes
  <1>2. Wanted' = Wanted /\ DataIn(msg)' = DataIn(msg)
    BY DEF Wanted, DataIn
  <1>3. GotBytes(idata.cb) => GotBytes(idata.cb)'
    BY DEF GotBytes
  <1> QED BY <1>1, <1>2, <1>3 DEF BytesOf

\* All that was wanted is there, or more; n is the number of bytes.
LEMMA GotAll ==
  ASSUME NEW r \in Requests, Ongoing(r), BytesOf(r), UNCHANGED <<msg, idata, got>>, ~broken',
         os'.state = "OutputJSON", os'.fError <=> req' = <<>> \/ r.bin > Wanted,
         idata # NoData => GotBytes(idata.cb)
  PROVE  BytesOf(r)'
  <1>1. Wanted' = Wanted /\ DataIn(msg)' = DataIn(msg) /\ (GotBytes(idata.cb) => GotBytes(idata.cb)')
    BY DEF Wanted, DataIn, GotBytes
  <1>2. os'.state \notin Parsing /\ Stage' # "ReadBinary"
    BY Stages DEF Stage
  <1> QED BY <1>1, <1>2 DEF BytesOf

LEMMA ReadCountGoes ==
  ASSUME NEW r \in Requests, Ongoing(r), ReadCount
  PROVE  /\ os'.fError = os.fError /\ os'.iBinary = os.iBinary /\ os'.write = os.write
         /\ \/ os'.state \in Parsing /\ Stage' = Stage
            \/ os'.state = "OutputJSON" /\ idata # NoData /\ os.iBinary = idata.at + idata.cb /\ r.bin = idata.at + idata.cb
  <1> DEFINE n == r.bin
  <1>t. Turn("ReadCount") /\ "ReadCount" \in Parsing
    BY Stages DEF ReadCount
  <1>1. /\ os.state = "ReadCount" /\ os \in OsPlaces /\ n \in Nat /\ n > 0
        /\ InMessage(n) /\ WriteAt(n) /\ Framed(msg, n)
    BY <1>t, ReadTurn
  <1>2. os.iStream \in Int /\ os.base \in Int /\ os.iBinary \in Int /\ PosOf(os) \in Int /\ Unit = msg[PosOf(os) + 1]
    BY <1>1, PlaceIs DEF PosOf, Unit
  <1> HIDE DEF n
  <1>3. Unit.is = "count" /\ Unit.n \in Nat /\ (~First => AtCount(os) /\ CountAt(msg, PosOf(os) + 1, Unit.n, n))
        /\ Stage = os.nextChunk /\ Stage \in {"ParseJSON", "ReadNextBinary", "ReadBinary"}
        /\ (First => Unit.n = 1)
    <2>1. CASE First
      <3>1. PosOf(os) = 0 /\ os.nextChunk = "ParseJSON"
        BY <1>1, <2>1 DEF InMessage, Stage, First
      <3>2. Unit = Count(1)
        BY <1>1, <1>2, <3>1 DEF Framed
      <3> QED BY <1>1, <2>1, <3>1, <3>2, UnitTypes DEF Stage
    <2>2. CASE ~First
      <3>1. AtCount(os) /\ Stage \in {"ReadNextBinary", "ReadBinary"} /\ Stage = os.nextChunk
        BY <1>1, <2>2 DEF InMessage, Stage
      <3>2. PosOf(os) + 1 \in 3 .. Len(msg) /\ msg[PosOf(os) + 1].is = "count"
        <4>1. Len(msg) \in Nat
          BY <1>1 DEF Framed
        <4> QED BY <1>2, <3>1, <4>1 DEF AtCount
      <3>3. msg[PosOf(os) + 1].n \in Nat /\ CountAt(msg, PosOf(os) + 1, msg[PosOf(os) + 1].n, n)
        BY <1>1, <3>2, MessageAt
      <3> QED BY <1>2, <2>2, <3>1, <3>2, <3>3
    <2> QED BY <2>1, <2>2
  <1> DEFINE s == IF Unit.n = 0 THEN "OutputJSON" ELSE os.nextChunk
             o == Counted1(Unit.n, s)
  <1>4. Went(o)
    BY <1>3 DEF ReadCount, Counted1
  <1>5. s \in States /\ Unit.n \in Int
    BY <1>3, Stages
  <1>6. /\ o \in OsPlaces /\ o.state = s /\ o.cbChunk = Unit.n /\ o.iStream = o.iChunkStart
        /\ o.fError = os.fError /\ o.iBinary = os.iBinary /\ o.write = os.write
    <2> HIDE DEF s
    <2> QED BY <1>1, <1>5, CountedIs DEF SameBut
  <1> HIDE DEF o
  <1>7. WentTo(o) /\ ~ChunkEnds(o)
    <2>1. o.iChunkStart \in Int
      BY <1>6, PlaceIs
    <2> QED BY <1>3, <1>4, <1>6, <2>1, WentEffect DEF ChunkEnds, LeftOf
  <1>8. os'.fError = os.fError /\ os'.iBinary = os.iBinary /\ os'.write = os.write /\ os'.state = s
    BY <1>6, <1>7 DEF WentTo
  <1>9. CASE Unit.n # 0
    <2>1. os'.state = Stage /\ Stage # "ReadCount"
      BY <1>3, <1>8, <1>9
    <2> QED BY <1>3, <1>8, <2>1, Stages DEF Stage
  <1>10. CASE Unit.n = 0
    <2>1. os'.state = "OutputJSON" /\ ~First
      BY <1>3, <1>8, <1>10
    <2>2. os.iBinary = n
      BY <1>3, <1>10, <2>1 DEF CountAt, AtCount
    <2>3. Stage \in {"ReadNextBinary", "ReadBinary"}
      BY <1>1, <2>1 DEF InMessage
    <2>4. idata # NoData
      BY <1>1, <2>2, <2>3 DEF WriteAt
    <2>5. idata.at \in Nat /\ idata.cb \in Nat /\ idata.at < n
      BY <1>1, <2>4 DEF WriteAt, Ongoing, RequestTypes
    <2>6. idata.at + idata.cb <= n
      BY <1>1, <2>4 DEF WriteAt
    <2>7. ~Before /\ ~Amid
      <3>1. ~Before
        BY <1>1, <2>2, <2>5 DEF Before
      <3>2. ~Amid
        BY <1>1, <2>2, <2>5, <2>6 DEF Amid
      <3> QED BY <3>1, <3>2
    <2>8. os.iBinary = idata.at + idata.cb
      BY <1>1, <2>3, <2>4, <2>7 DEF WriteAt, After
    <2> QED BY <1>8, <2>1, <2>2, <2>4, <2>8 DEF n
  <1> QED BY <1>9, <1>10

LEMMA ReadCountGives ==
  ASSUME NEW r \in Requests, Ongoing(r), BytesOf(r), ReadCount
  PROVE  BytesOf(r)'
  <1>1. os.state = "ReadCount" /\ os.state \in Parsing
    BY Stages DEF ReadCount, Turn
  <1>2. UNCHANGED <<msg, req, idata, usage, open, got, broken>>
    BY DEF ReadCount, file, wire
  <1>3. os'.fError = os.fError /\ os'.iBinary = os.iBinary /\ os'.write = os.write
    BY ReadCountGoes
  <1>4. CASE os'.state \in Parsing /\ Stage' = Stage
    <2>1. ~AtFileEnd
      BY <1>1 DEF AtFileEnd
    <2>2. ~(Stage' = "ReadBinary" /\ os'.write /\ usage'["WRITING"] # NoFile /\ ~open'["WRITING"])
      BY <1>2, <1>3, <1>4, <2>1 DEF BytesOf
    <2> QED BY <1>1, <1>2, <1>3, <1>4, <2>2, GotNothing
  <1>5. CASE os'.state = "OutputJSON" /\ idata # NoData /\ os.iBinary = idata.at + idata.cb /\ r.bin = idata.at + idata.cb
    <2>1. /\ req # <<>> /\ ~os.fError /\ ~broken /\ idata.at \in Nat /\ idata.cb \in Nat
          /\ (os.iBinary <= idata.at => GotBytes(0))
          /\ (os.iBinary > idata.at => GotBytes(os.iBinary - idata.at))
      BY <1>1, <1>5, GotOne
    <2>2. GotBytes(idata.cb)
      <3>1. CASE idata.cb = 0
        <4>1. os.iBinary <= idata.at
          BY <1>5, <2>1, <3>1
        <4> QED BY <2>1, <3>1, <4>1
      <3>2. CASE idata.cb # 0
        <4>1. os.iBinary > idata.at /\ os.iBinary - idata.at = idata.cb
          BY <1>5, <2>1, <3>2
        <4> QED BY <2>1, <4>1
      <3> QED BY <3>1, <3>2
    <2>3. ~(r.bin > Wanted) /\ ~os'.fError /\ req' # <<>>
      BY <1>2, <1>3, <1>5, <2>1 DEF Wanted
    <2> QED BY <1>2, <1>5, <2>1, <2>2, <2>3, GotAll
  <1> QED BY <1>4, <1>5, ReadCountGoes

LEMMA JsonDoneGives ==
  ASSUME NEW r \in Requests, Ongoing(r), BytesOf(r), JsonDone
  PROVE  BytesOf(r)'
  <1>t. Turn("ParseJSON") /\ "ParseJSON" \in Parsing
    BY Stages DEF JsonDone
  <1>1. /\ os.state = "ParseJSON" /\ os \in OsPlaces /\ r.bin \in Nat /\ InMessage(r.bin) /\ WriteAt(r.bin)
    BY <1>t, ReadTurn
  <1>2. UNCHANGED <<msg, req, idata, usage, open, got, broken>>
    BY DEF JsonDone, request, file, wire
  <1> DEFINE s == IF os.cbChunk > 0 THEN "ReadNextBinary" ELSE "OutputJSON"
             a == [os EXCEPT !.iStream = os.iStream + 1]
             o == [a EXCEPT !.state = s]
  <1>3. s \in States /\ os.iStream + 1 \in Int /\ os.iStream \in Int /\ os.iChunkStart \in Int /\ os.cbChunk \in Int
    BY <1>1, Stages, PlaceIs
  <1>4. a \in OsPlaces /\ a.iStream = os.iStream + 1 /\ SameBut(a, os, {"iStream"})
    BY <1>1, <1>3, PlaceSet
  <1>5. o \in OsPlaces /\ o.state = s /\ SameBut(o, a, {"state"})
    <2> HIDE DEF a, s
    <2> QED BY <1>3, <1>4, StageSet
  <1>6. Went(o)
    BY DEF JsonDone
  <1> HIDE DEF o, a
  <1>7. /\ WentTo(o) /\ o.iStream = os.iStream + 1 /\ o.cbChunk = os.cbChunk /\ o.iChunkStart = os.iChunkStart
        /\ o.fError = os.fError /\ o.iBinary = os.iBinary /\ o.state = s
    BY <1>4, <1>5, <1>6, WentEffect DEF SameBut
  <1>8. os'.fError = os.fError /\ os'.iBinary = os.iBinary
    BY <1>7 DEF WentTo
  <1>9. req # <<>> /\ ~os.fError /\ ~broken
    BY <1>1, <1>t, GotOne
  <1>10. CASE r.bin = 0
    <2>1. os.cbChunk = 0
      BY <1>1, <1>10 DEF InMessage
    <2>2. os'.state = "OutputJSON"
      BY <1>7, <2>1 DEF WentTo, ChunkEnds
    <2>3. idata = NoData /\ ~(r.bin > Wanted)
      BY <1>1, <1>10 DEF WriteAt, Wanted
    <2> QED BY <1>2, <1>8, <1>9, <2>2, <2>3, GotAll
  <1>11. CASE r.bin > 0
    <2>1. os.cbChunk = 1 /\ LeftOf(os) = 1
      BY <1>1, <1>11 DEF InMessage, Stage, First
    <2>2. ChunkEnds(o) /\ o.state = "ReadNextBinary"
      BY <1>3, <1>7, <2>1 DEF ChunkEnds, LeftOf
    <2>3. os'.state = "ReadCount" /\ os'.nextChunk = "ReadNextBinary"
      BY <1>7, <2>2 DEF WentTo
    <2>4. Stage' # "ReadBinary" /\ os'.state \in Parsing
      BY <2>3, Stages DEF Stage
    <2> QED BY <1>1, <1>2, <1>t, <1>8, <2>4, GotNothing
  <1> QED BY <1>1, <1>10, <1>11

LEMMA SyntaxErrorGives ==
  ASSUME NEW r \in Requests, Ongoing(r), BytesOf(r), SyntaxError, "syntax" \notin Faults
  PROVE  BytesOf(r)'
  <1>t. Turn("ParseJSON") /\ "ParseJSON" \in Parsing /\ ~Busy /\ NoneHeld
    BY Stages DEF SyntaxError, Busy
  <1>1. /\ os.state = "ParseJSON" /\ os \in OsPlaces /\ r.bin \in Nat /\ InMessage(r.bin) /\ WriteAt(r.bin)
        /\ usage \in [Kinds -> Paths \cup {NoFile}]
    BY <1>t, ReadTurn
  <1>2. UNCHANGED <<msg, idata, got, broken>> /\ Went(Failed(os)) /\ req' = <<>>
    BY DEF SyntaxError, wire
  <1>3. ~ChunkEnds(os)
    BY <1>1 DEF InMessage, Stage, First, ChunkEnds
  <1>4. os'.state = "OutputJSON" /\ os'.fError
    BY <1>1, <1>2, <1>3, FailedIs
  <1>5. idata = NoData
    <2>1. usage["WRITING"] = NoFile
      BY <1>1, <1>t DEF NoneHeld, Kinds
    <2> QED BY <1>1, <1>t, <2>1 DEF WriteAt, Begins, NoWrite
  <1>6. ~broken
    BY <1>1, <1>t, GotOne
  <1> QED BY <1>2, <1>4, <1>5, <1>6, GotAll

LEMMA ReadNextBinaryGives ==
  ASSUME NEW r \in Requests, Ongoing(r), BytesOf(r), ReadNextBinary
  PROVE  BytesOf(r)'
  <1>t. Turn("ReadNextBinary")
    BY DEF ReadNextBinary
  <1>1. /\ os.state = "ReadNextBinary" /\ os.state \in Parsing /\ os \in OsPlaces /\ r.bin \in Nat
        /\ InChunk(os, r.bin) /\ (LeftOf(os) = 0 => AtFileEnd) /\ LeftOf(os) \in Nat /\ os.iBinary \in Int
        /\ idata \in [at : Nat \cup {-1}, cb : Nat]
        /\ (idata # NoData => idata.at \in Nat /\ idata.cb \in Nat /\ (Before \/ Amid \/ After))
        /\ (idata = NoData => os.iBinary = 0 /\ NoWrite)
    BY <1>t, BytesTurn
  <1>2. UNCHANGED <<msg, req, idata, usage, open, got, broken>>
    BY DEF ReadNextBinary, file, wire
  <1>3. LeftOf(os) > 0 /\ ~ChunkEnds(os) /\ ~Amid
    BY <1>1 DEF AtFileEnd, ChunkEnds, Amid, Stage
  <1>4. /\ req # <<>> /\ ~os.fError /\ ~broken
        /\ (idata # NoData /\ os.iBinary <= idata.at => GotBytes(0))
        /\ (idata # NoData /\ os.iBinary > idata.at => GotBytes(os.iBinary - idata.at))
    BY <1>1, <1>t, GotOne
  <1>5. CASE idata.at >= os.iBinary
    <2> DEFINE now == idata.at = os.iBinary
               done == IF now THEN idata.at + idata.cb ELSE idata.at
               a == [os EXCEPT !.state = "ReadBinary"]
               b == [a EXCEPT !.write = now]
               o == [b EXCEPT !.iBinaryDone = done]
    <2>1. Went(o)
      BY <1>5 DEF ReadNextBinary
    <2>2. now \in BOOLEAN /\ done \in Int /\ "ReadBinary" \in States
      BY <1>1, Stages
    <2>3. a \in OsPlaces /\ a.state = "ReadBinary" /\ SameBut(a, os, {"state"})
      BY <1>1, <2>2, StageSet
    <2>4. b \in OsPlaces /\ SameBut(b, a, {"write"})
      <3> HIDE DEF a, now
      <3> QED BY <2>2, <2>3, FlagSet
    <2>5. o \in OsPlaces /\ SameBut(o, b, {"iBinaryDone"})
      <3> HIDE DEF b, done
      <3> QED BY <2>2, <2>4, PlaceSet
    <2> HIDE DEF o, b, a
    <2>6. /\ o.state = "ReadBinary" /\ o.iBinary = os.iBinary /\ o.fError = os.fError
          /\ o.cbChunk = os.cbChunk /\ o.iStream = os.iStream /\ o.iChunkStart = os.iChunkStart
      BY <2>3, <2>4, <2>5 DEF SameBut
    <2>7. WentTo(o) /\ ~ChunkEnds(o)
      BY <1>3, <2>1, <2>5, <2>6, WentEffect DEF ChunkEnds, LeftOf
    <2>8. os'.fError = os.fError /\ os'.iBinary = os.iBinary /\ os'.state = "ReadBinary"
      BY <2>6, <2>7 DEF WentTo
    <2>9. usage["WRITING"] = NoFile \/ open["WRITING"]
      <3>1. idata # NoData => Before \/ After
        BY <1>1, <1>3
      <3> QED BY <1>1, <3>1 DEF Before, After, NoWrite
    <2> QED BY <1>1, <1>2, <2>8, <2>9, Stages, GotNothing
  <1>6. CASE ~(idata.at >= os.iBinary)
    <2>1. os'.state = "OutputJSON" /\ os'.fError
      <3>1. Went(Failed(os))
        BY <1>6 DEF ReadNextBinary
      <3> QED BY <1>1, <1>3, <3>1, FailedIs
    <2>2. os.iBinary < r.bin
      BY <1>1, <1>3 DEF InChunk
    <2>3. CASE idata = NoData
      <3>1. r.bin > Wanted
        BY <1>1, <2>2, <2>3 DEF Wanted
      <3> QED BY <1>2, <1>4, <2>1, <2>3, <3>1, GotAll
    <2>4. CASE idata # NoData
      <3>1. os.iBinary > idata.at
        BY <1>1, <1>6, <2>4
      <3>2. ~Before
        BY <1>1, <2>4, <3>1 DEF Before
      <3>3. os.iBinary = idata.at + idata.cb
        BY <1>1, <1>3, <2>4, <3>2 DEF After
      <3>4. os.iBinary - idata.at = idata.cb /\ r.bin > Wanted
        BY <1>1, <2>2, <2>4, <3>3 DEF Wanted
      <3>5. GotBytes(idata.cb)
        BY <1>4, <2>4, <3>1, <3>4
      <3> QED BY <1>2, <1>4, <2>1, <3>4, <3>5, GotAll
    <2> QED BY <2>3, <2>4
  <1> QED BY <1>5, <1>6

LEMMA SkipBinaryGives ==
  ASSUME NEW r \in Requests, Ongoing(r), BytesOf(r), SkipBinary
  PROVE  BytesOf(r)'
  <1> DEFINE k == CbWrite(os)
             t == Taken(os, k)
             s == IF t.iBinary = t.iBinaryDone THEN "ReadNextBinary" ELSE "ReadBinary"
             o == [t EXCEPT !.state = s]
  <1>t. Turn("ReadBinary") /\ ~os.write
    BY DEF SkipBinary
  <1>1. /\ os.state = "ReadBinary" /\ os.state \in Parsing /\ os \in OsPlaces
        /\ os.iBinary \in Int /\ os.iBinaryDone \in Int
    BY <1>t, BytesTurn
  <1>2. UNCHANGED <<msg, req, idata, usage, open, got, broken>>
    BY DEF SkipBinary, request, file, wire
  <1>3. k \in Nat /\ k <= os.iBinaryDone - os.iBinary /\ idata # NoData /\ Before
    BY <1>t, CbWriteIs
  <1>4. os.iBinaryDone = idata.at /\ os.iBinary < idata.at
    BY <1>1, <1>3 DEF Before, Stage
  <1> HIDE DEF k
  <1>5. t \in OsPlaces /\ t.iBinary = os.iBinary + k /\ SameBut(t, os, {"iStream", "iBinary"})
    BY <1>1, <1>3, TakenIs
  <1>6. Went(o)
    <2>1. t.state = "ReadBinary"
      BY <1>1, <1>5 DEF SameBut
    <2> QED BY <2>1 DEF SkipBinary, k
  <1> HIDE DEF t
  <1>7. s \in States /\ s \in {"ReadNextBinary", "ReadBinary"}
    BY Stages
  <1>8. o \in OsPlaces /\ o.state = s /\ SameBut(o, t, {"state"})
    <2> HIDE DEF s
    <2> QED BY <1>5, <1>7, StageSet
  <1> HIDE DEF o, s
  <1>9. WentTo(o) /\ o.iBinary = os.iBinary + k /\ o.write = os.write /\ o.fError = os.fError
    BY <1>5, <1>6, <1>8, WentEffect DEF SameBut
  <1>10. os'.iBinary = os.iBinary + k /\ ~os'.write /\ os'.fError = os.fError /\ os'.state \in Parsing
    <2>1. os'.state \in {s, "ReadCount"}
      BY <1>8, <1>9 DEF WentTo
    <2> QED BY <1>7, <1>9, <1>t, <2>1, Stages DEF WentTo
  <1>11. /\ req # <<>> /\ ~os.fError /\ ~broken
         /\ (idata # NoData /\ os.iBinary <= idata.at => GotBytes(0)) /\ (idata # NoData => idata.at \in Nat)
    BY <1>1, <1>t, GotOne
  <1>12. GotBytes(0) /\ os'.iBinary <= idata'.at
    BY <1>1, <1>2, <1>3, <1>4, <1>10, <1>11
  <1>13. GotSoFar'
    BY <1>2, <1>3, <1>12 DEF GotSoFar, GotBytes
  <1>14. DataIn(msg)' = DataIn(msg)
    BY <1>2 DEF DataIn
  <1> QED BY <1>2, <1>10, <1>11, <1>13, <1>14 DEF BytesOf

LEMMA WriteFileGives ==
  ASSUME NEW r \in Requests, Ongoing(r), BytesOf(r), WriteFile, "write" \notin Faults
  PROVE  BytesOf(r)'
  <1> DEFINE k == CbWrite(os)
             m == Least(k, Room - Len(got))
             o == Taken(os, m)
             w == SubSeq(msg, os.base + os.iStream + 1, os.base + os.iStream + m)
  <1>t. Turn("ReadBinary") /\ os.write /\ open["WRITING"]
    BY DEF WriteFile, WriteTurn
  <1>1. /\ os.state = "ReadBinary" /\ os.state \in Parsing /\ os \in OsPlaces /\ InChunk(os, r.bin)
        /\ os.iBinary \in Int /\ os.iBinaryDone \in Int /\ os.iStream \in Int /\ got \in Seq(Units) /\ Len(got) <= Room
        /\ LeftOf(os) \in Nat /\ r.bin \in Nat /\ r.bin > 0
    BY <1>t, BytesTurn
  <1>2. UNCHANGED <<msg, req, idata, usage, open, broken>>
    <2>1. PICK ok \in Outcomes("write") :
            IF ~ok THEN broken' = TRUE ELSE UNCHANGED broken
      BY DEF WriteFile
    <2>2. UNCHANGED broken
      BY <2>1 DEF Outcomes
    <2> QED BY <2>2 DEF WriteFile, request, file
  <1>3. /\ got' = got \o w
        /\ IF AtEndOfFile(o) THEN Yields(o) ELSE Went(o)
    BY DEF WriteFile, Outcomes
  <1>4. k \in Nat /\ k <= LeftOf(os) /\ idata # NoData /\ Amid
    BY <1>t, CbWriteIs
  <1> HIDE DEF k
  <1>5. m \in Nat /\ m <= k /\ Len(got) \in Nat
    <2>1. Room \in Nat /\ Len(got) \in Nat
      BY <1>1, BinaryDataAssumption
    <2> QED BY <1>1, <1>4, <2>1 DEF Least
  <1> HIDE DEF m
  <1>6. /\ o \in OsPlaces /\ o.iBinary = os.iBinary + m /\ o.fError = os.fError /\ o.state = "ReadBinary"
    <2>1. m \in Int
      BY <1>5
    <2>2. o \in OsPlaces /\ o.iBinary = os.iBinary + m /\ SameBut(o, os, {"iStream", "iBinary"})
      BY <1>1, <2>1, TakenIs
    <2> HIDE DEF o
    <2> QED BY <1>1, <2>2 DEF SameBut
  <1> HIDE DEF o
  <1>7. os'.iBinary = os.iBinary + m /\ os'.fError = os.fError /\ os'.state \in Parsing
    <2>1. CASE AtEndOfFile(o)
      BY <1>1, <1>3, <1>6, <2>1 DEF Yields
    <2>2. CASE ~AtEndOfFile(o)
      <3>1. WentTo(o)
        BY <1>3, <1>6, <2>2, WentEffect
      <3> QED BY <1>6, <3>1, Stages DEF WentTo
    <2> QED BY <2>1, <2>2
  <1>8. /\ req # <<>> /\ ~os.fError /\ ~broken /\ idata.at \in Nat
        /\ (os.iBinary <= idata.at => GotBytes(0))
        /\ (os.iBinary > idata.at => GotBytes(os.iBinary - idata.at))
    BY <1>1, <1>4, <1>t, GotOne
  <1> DEFINE g == os.iBinary - idata.at
  <1>9. g \in Nat /\ GotBytes(g)
    <2>1. idata.at <= os.iBinary
      BY <1>4 DEF Amid
    <2>2. CASE os.iBinary = idata.at
      <3>1. g = 0
        BY <1>8, <2>2
      <3> QED BY <1>1, <1>8, <2>2, <3>1
    <2>3. CASE os.iBinary # idata.at
      <3>1. os.iBinary > idata.at /\ g \in Nat
        BY <1>1, <1>8, <2>1, <2>3
      <3> QED BY <1>8, <3>1
    <2> QED BY <2>2, <2>3
  <1>10. w \in Seq(Units) /\ Len(w) = m /\ \A j \in 1 .. m : w[j] = Data(os.iBinary + j)
    <2> DEFINE p == PosOf(os)
    <2>1. msg \in Seq(Units) /\ Len(msg) \in Nat /\ p \in Int
      <3>1. Framed(msg, r.bin)
        BY <1>1 DEF Ongoing, OfRequest
      <3>2. p \in Int
        BY <1>1, PlaceIs DEF PosOf
      <3> QED BY <3>1, <3>2 DEF Framed
    <2>2. p >= 2 /\ p + LeftOf(os) + 1 <= Len(msg) /\ \A j \in 1 .. LeftOf(os) : msg[p + j] = Data(os.iBinary + j)
      BY <1>1 DEF InChunk
    <2>3. w = SubSeq(msg, p + 1, p + m)
      BY DEF PosOf
    <2> HIDE DEF p, w
    <2>4. p + m <= Len(msg) /\ p + 1 >= 1 /\ m <= LeftOf(os)
      BY SMTT(30), <1>1, <1>4, <1>5, <2>1, <2>2
    <2>5. w \in Seq(Units) /\ Len(w) = m /\ \A j \in 1 .. m : w[j] = msg[p + j]
      <3>1. p \in Nat
        BY <2>1, <2>2
      <3>2. /\ SubSeq(msg, p + 1, p + m) \in Seq(Units) /\ Len(SubSeq(msg, p + 1, p + m)) = m
            /\ \A j \in 1 .. m : SubSeq(msg, p + 1, p + m)[j] = msg[p + j]
        BY <1>5, <2>1, <2>4, <3>1, PieceIs
      <3> QED BY <2>3, <3>2, Zenon
    <2>6. \A j \in 1 .. m : j \in 1 .. LeftOf(os)
      BY <1>1, <1>5, <2>4
    <2> QED BY <2>2, <2>5, <2>6, Zenon
  <1> HIDE DEF w
  <1>11. Len(got') = g + m /\ \A j \in 1 .. g + m : got'[j] = Data(idata'.at + j)
    <2> DEFINE h == got \o w
    <2>0. got' = h
      BY <1>3
    <2>1. Len(got) = g /\ \A j \in 1 .. g : got[j] = Data(idata.at + j)
      BY <1>9 DEF GotBytes
    <2>2. Len(h) = g + m /\ \A j \in 1 .. Len(got) + Len(w) : h[j] = IF j <= Len(got) THEN got[j] ELSE w[j - Len(got)]
      BY <1>1, <1>10, <2>1, ConcatProperties
    <2>3. g + m \in Nat /\ g \in Nat /\ g = os.iBinary - idata.at
      BY <1>5, <1>9
    <2> HIDE DEF h, g
    <2>4. \A j \in 1 .. g + m : h[j] = Data(idata.at + j)
      <3> SUFFICES ASSUME NEW j \in 1 .. g + m PROVE h[j] = Data(idata.at + j)
        OBVIOUS
      <3>1. CASE j <= g
        <4>1. j \in 1 .. g /\ j \in 1 .. Len(got) + Len(w) /\ j <= Len(got)
          BY <1>5, <1>10, <2>1, <2>3, <3>1
        <4>2. h[j] = got[j]
          BY <2>2, <4>1
        <4> QED BY <2>1, <4>1, <4>2
      <3>2. CASE ~(j <= g)
        <4>1. j - g \in 1 .. m /\ j \in 1 .. Len(got) + Len(w) /\ ~(j <= Len(got)) /\ j - Len(got) = j - g
          BY <1>5, <1>10, <2>1, <2>3, <3>2
        <4>2. h[j] = w[j - g]
          BY <2>2, <4>1
        <4>3. os.iBinary + (j - g) = idata.at + j
          BY SMTT(30), <1>1, <1>8, <2>3
        <4>4. w[j - g] = Data(os.iBinary + (j - g))
          BY <1>10, <4>1
        <4> QED BY <4>2, <4>3, <4>4
      <3> QED BY <3>1, <3>2
    <2> QED BY <1>2, <2>0, <2>2, <2>4
  <1>12. GotSoFar'
    <2>1. idata'.at = idata.at /\ os'.iBinary = os.iBinary + m /\ idata' # NoData
      BY <1>2, <1>4, <1>7
    <2>0. g \in Nat /\ g = os.iBinary - idata.at
      BY <1>9
    <2>2. g + m = IF os'.iBinary <= idata'.at THEN 0 ELSE os'.iBinary - idata'.at
      BY SMTT(30), <1>1, <1>5, <1>8, <2>0, <2>1
    <2> DEFINE x == g + m
               y == IF os'.iBinary <= idata'.at THEN 0 ELSE os'.iBinary - idata'.at
    <2>3. x = y /\ Len(got') = x /\ \A j \in 1 .. x : got'[j] = Data(idata'.at + j)
      BY <1>11, <2>2
    <2> HIDE DEF g, x
    <2>4. Len(got') = y /\ \A j \in 1 .. y : got'[j] = Data(idata'.at + j)
      <3> HIDE DEF y
      <3> QED BY <2>3
    <2> QED BY <2>1, <2>4 DEF GotSoFar, GotBytes
  <1>13. DataIn(msg)' = DataIn(msg)
    BY <1>2 DEF DataIn
  <1> QED BY <1>2, <1>7, <1>8, <1>12, <1>13, <1>t DEF BytesOf

LEMMA WriteFileCloseGives ==
  ASSUME NEW r \in Requests, Ongoing(r), BytesOf(r), WriteFileClose
  PROVE  BytesOf(r)'
  <1>1. Turn("ReadBinary") /\ (CbWrite(os) = 0 \/ broken)
    BY DEF WriteFileClose, WriteTurn, Closing
  <1>2. UNCHANGED <<msg, req, idata, os, usage, got, broken>>
    BY DEF WriteFileClose, request, wire
  <1>3. ~broken
    BY DEF BytesOf
  <1>4. AtFileEnd
    BY <1>1, <1>3, CbWriteIs
  <1>5. AtFileEnd'
    BY <1>2, <1>4 DEF AtFileEnd
  <1> QED BY <1>2, <1>5, GotNothing

\* The file has all its bytes when it is found closed, so that nothing halts.
LEMMA WriteFileDoneGives ==
  ASSUME NEW r \in Requests, Ongoing(r), BytesOf(r), WriteFileDone
  PROVE  BytesOf(r)' /\ ~halted'
  <1> DEFINE o == [os EXCEPT !.state = "ReadNextBinary"]
  <1>1. Turn("ReadBinary") /\ os.write /\ ~open["WRITING"] /\ usage["WRITING"] # NoFile
    BY DEF WriteFileDone, WriteTurn
  <1>2. UNCHANGED <<msg, req, idata, got>> /\ broken' = FALSE /\ usage' = [usage EXCEPT !["WRITING"] = NoFile]
    BY DEF WriteFileDone, request, wire, UsageCleared
  <1>3. /\ os.state = "ReadBinary" /\ os.state \in Parsing /\ os \in OsPlaces /\ Stage = "ReadBinary"
        /\ usage \in [Kinds -> Paths \cup {NoFile}]
    BY <1>1, BytesTurn
  <1>4. AtFileEnd /\ ~broken
    BY <1>1, <1>3 DEF BytesOf
  <1>5. ~halted'
    BY <1>1, <1>4, CbWriteIs DEF WriteFileDone
  <1>6. o \in OsPlaces /\ o.state = "ReadNextBinary" /\ SameBut(o, os, {"state"})
    BY <1>3, Stages, StageSet
  <1>7. Went(o)
    BY DEF WriteFileDone
  <1> HIDE DEF o
  <1>8. WentTo(o) /\ o.fError = os.fError /\ o.iBinary = os.iBinary
    BY <1>6, <1>7, WentEffect DEF SameBut
  <1>9. os'.fError = os.fError /\ os'.iBinary = os.iBinary /\ os'.state \in {"ReadCount", "ReadNextBinary"}
    BY <1>6, <1>8 DEF WentTo
  <1>10. usage'["WRITING"] = NoFile
    BY <1>2, <1>3 DEF Kinds
  <1>11. broken' = broken \/ broken' = FALSE
    BY <1>2
  <1>12. BytesOf(r)'
    <2>1. GotSoFar'
      BY <1>2, <1>3, <1>9 DEF BytesOf, GotSoFar, GotBytes
    <2>2. DataIn(msg)' = DataIn(msg)
      BY <1>2 DEF DataIn
    <2>3. os'.state \in Parsing /\ req # <<>> /\ ~os.fError
      BY <1>3, <1>9, Stages DEF BytesOf
    <2> QED BY <1>2, <1>9, <1>10, <2>1, <2>2, <2>3 DEF BytesOf
  <1> QED BY <1>5, <1>12

LEMMA CommandGives ==
  ASSUME NEW r \in Requests, Ongoing(r), BytesOf(r), SetUsage \/ OpenFile \/ CloseFile \/ LogRead
  PROVE  BytesOf(r)'
  <1>1. os.state = "ParseJSON"
    BY DEF SetUsage, OpenFile, CloseFile, LogRead, At, Turn
  <1>2. UNCHANGED <<msg, req, idata, os, got, broken>>
    BY DEF SetUsage, OpenFile, CloseFile, LogRead, wire
  <1>3. Stage' # "ReadBinary"
    BY <1>1, <1>2 DEF Stage
  <1> QED BY <1>2, <1>3, GotNothing

LEMMA CloseFileGoesOn == CloseFile \/ ReadFileClose => "close" \in Faults \/ ~halted'
  BY DEF CloseFile, ReadFileClose, Outcomes

LEMMA SeekFileGives ==
  ASSUME NEW r \in Requests, Ongoing(r), BytesOf(r), SeekFile, Answerable
  PROVE  BytesOf(r)'
  <1>1. os.state = "ParseJSON" /\ os.state \in Parsing /\ At("JSONSeekFile")
    BY Stages DEF SeekFile, At, Turn
  <1>2. UNCHANGED <<msg, req, os, got, broken>>
    BY DEF SeekFile, wire
  <1>3. Stage' # "ReadBinary" /\ Stage = "ParseJSON"
    BY <1>1, <1>2 DEF Stage
  <1>4. CASE UNCHANGED idata
    BY <1>2, <1>3, <1>4, GotNothing
  <1>5. CASE Cmd.do = "write" /\ idata' = [at |-> Cmd.at, cb |-> Cmd.cb]
    <2>1. Cmd.at \in Nat /\ Cmd.at < r.bin /\ r.bin \in Nat
      BY <1>1, <1>5, CommandTurn DEF Answerable
    <2>2. idata = NoData
      BY <1>1, <1>5, BusyTurn
    <2>3. got = <<>> /\ req # <<>> /\ ~os.fError /\ ~broken
      BY <1>1, <2>2, GotOne
    <2>4. os.iBinary = 0
      <3>1. InMessage(r.bin) /\ r.bin > 0
        BY <1>1, <2>1 DEF Ongoing, OfRequest
      <3> QED BY <1>3, <3>1 DEF InMessage
    <2>5. idata'.at = Cmd.at /\ idata' # NoData
      BY <1>5, <2>1 DEF NoData
    <2>6. GotSoFar'
      <3>1. os'.iBinary <= idata'.at /\ got' = <<>>
        BY <1>2, <2>1, <2>3, <2>4, <2>5
      <3> QED BY <2>5, <3>1 DEF GotSoFar, GotBytes
    <2>7. DataIn(msg)' = DataIn(msg)
      BY <1>2 DEF DataIn
    <2> QED BY <1>1, <1>2, <1>3, <2>3, <2>6, <2>7 DEF BytesOf
  <1> QED BY <1>4, <1>5 DEF SeekFile

LEMMA AnswerGives ==
  ASSUME NEW r \in Requests, Ongoing(r), BytesOf(r),
         \/ OutputJSON \/ WriteChunkSize \/ WriteJSONResp \/ ReadFile \/ ReadFileClose \/ ReadFileDone
         \/ ReadVoltageLog \/ Transmit
  PROVE  BytesOf(r)'
  <1>1. os.state \in Answering \cup {"OutputJSON"} /\ os.state \notin Parsing /\ os \in OsPlaces
    <2>1. os.state \in Answering \cup {"OutputJSON"}
      BY Stages DEF OutputJSON, WriteChunkSize, WriteJSONResp, ReadFile, ReadFileClose, ReadFileDone,
                    ReadVoltageLog, Transmit, Sends, Turn, Ongoing, OfRequest
    <2> QED BY <2>1, Stages DEF Ongoing, RequestTypes
  <1>2. UNCHANGED <<msg, req, idata, got, broken>>
    BY DEF OutputJSON, WriteChunkSize, WriteJSONResp, ReadFile, ReadFileClose, ReadFileDone,
           ReadVoltageLog, Transmit, request, wire
  <1>3. \/ os'.fError = os.fError /\ os'.state \in Answering
        \/ UNCHANGED os
    <2>1. CASE OutputJSON
      <3>1. os'.fError = os.fError /\ os'.state = IF cOData > 1 THEN "WriteChunkSize" ELSE "WriteOData"
        BY <1>1, <2>1 DEF OutputJSON, OsPlaces
      <3> QED BY <3>1, Stages
    <2>2. CASE WriteChunkSize
      <3>1. os'.fError = os.fError /\ os'.state \in {"Done", "WriteOData"}
        BY <1>1, <2>2 DEF WriteChunkSize, OsPlaces
      <3> QED BY <3>1, Stages
    <2>3. NextOData.fError = os.fError /\ NextOData.state \in Answering
      <3>1. NextOData.fError = os.fError /\ NextOData.state = "WriteChunkSize"
        BY <1>1 DEF NextOData, OsPlaces
      <3> QED BY <3>1, Stages
    <2>4. CASE WriteJSONResp \/ ReadFileDone \/ ReadVoltageLog
      <3>1. os' = NextOData \/ UNCHANGED os
        BY <2>4 DEF WriteJSONResp, ReadFileDone, ReadVoltageLog
      <3> QED BY <2>3, <3>1
    <2>5. CASE ReadFile \/ ReadFileClose \/ Transmit
      BY <2>5 DEF ReadFile, ReadFileClose, Transmit
    <2> QED BY <2>1, <2>2, <2>4, <2>5
  <1>4. os'.state \notin Parsing /\ Stage' # "ReadBinary" /\ os'.fError = os.fError
    BY <1>1, <1>3, Stages DEF Stage
  <1> QED BY <1>1, <1>2, <1>4, GotNothing

LEMMA ReceiveGives ==
  ASSUME NEW r \in Requests, Ongoing(r), BytesOf(r), NEW k \in 1 .. CbInput, Receive(k)
  PROVE  BytesOf(r)'
  <1>1. UNCHANGED <<msg, req, idata, got, usage, open, broken>> /\ os' = [os EXCEPT !.cbStream = k]
    BY DEF Receive, request, file, wire
  <1>2. k \in Int /\ os \in OsPlaces
    BY BinaryDataAssumption DEF Ongoing, RequestTypes
  <1>3. SameBut(os', os, {"cbStream"})
    BY <1>1, <1>2, PlaceSet
  <1>4. /\ os'.state = os.state /\ os'.nextChunk = os.nextChunk /\ os'.iBinary = os.iBinary
        /\ os'.iBinaryDone = os.iBinaryDone /\ os'.write = os.write /\ os'.fError = os.fError
    BY <1>3 DEF SameBut
  <1>5. Stage' = Stage /\ AtFileEnd' = AtFileEnd
    BY <1>4 DEF Stage, AtFileEnd
  <1>6. Stage' = "ReadBinary" /\ os'.write /\ usage'["WRITING"] # NoFile /\ ~open'["WRITING"] => AtFileEnd'
    BY <1>1, <1>4, <1>5 DEF BytesOf
  <1> QED BY <1>1, <1>4, <1>6, GotNothing

LEMMA ListenGives ==
  ASSUME ~broken, NEW r \in Requests, Listen(r), r.cmds # <<>>
  PROVE  BytesOf(r)'
  <1>1. /\ msg' \in Messages(r.bin) /\ req' = r.cmds /\ idata' = NoData /\ got' = <<>> /\ broken' = broken
        /\ os' = [OsInit EXCEPT !.cbStream = 1, !.nextChunk = "ParseJSON",
                                !.state = IF r.bin = 0 THEN "ParseJSON" ELSE "ReadCount"]
    BY DEF Listen
  <1>2. /\ os'.fError = FALSE /\ os'.nextChunk = "ParseJSON"
        /\ os'.state = IF r.bin = 0 THEN "ParseJSON" ELSE "ReadCount"
    BY <1>1 DEF OsInit
  <1>3. os'.state \in Parsing /\ Stage' # "ReadBinary"
    BY <1>2, Stages DEF Stage
  <1>4. IsFiniteSet(DataIn(msg)') /\ Cardinality(DataIn(msg)') = r.bin
    <2>0. r.bin \in Nat /\ DataIn(msg)' = DataIn(msg')
      BY Params DEF DataIn
    <2>1. CASE r.bin > 0
      BY <1>1, <2>0, <2>1, MessagesFramed
    <2>2. CASE r.bin = 0
      <3>1. msg' = <<Json>>
        BY <1>1, <2>2 DEF Messages
      <3>2. DataIn(msg') = {}
        BY <3>1 DEF DataIn, Json
      <3> QED BY <2>0, <2>2, <3>2, FS_EmptySet
    <2> QED BY <2>0, <2>1, <2>2
  <1>5. GotSoFar'
    BY <1>1 DEF GotSoFar
  <1> QED BY <1>1, <1>2, <1>3, <1>4, <1>5 DEF BytesOf

LEMMA BytesStep ==
  ASSUME BytesInv, [RequestNext]_requestVars, {"syntax", "drop", "write", "close"} \cap Faults = {},
         Answerable, \A r \in Requests : r.cmds # <<>>
  PROVE  BytesInv'
  <1>0. /\ "syntax" \notin Faults /\ "drop" \notin Faults /\ "write" \notin Faults /\ "close" \notin Faults
    OBVIOUS
  <1>1. Running /\ ~halted /\ ~broken /\ RequestInv
    BY DEF BytesInv, RequestInv
  <1>2. ASSUME NEW r \in Requests, KeepsOn(r), BytesOf(r)' PROVE BytesInv'
    <2>1. Running' /\ ~halted' /\ OfRequest(r)'
      BY <1>2 DEF KeepsOn, Running
    <2>2. ~broken'
      BY <1>2 DEF BytesOf
    <2> QED BY <1>2, <2>1, <2>2 DEF BytesInv
  <1>3. ASSUME UNCHANGED <<msg, req, io, os, fn, idata, odata, usage, open, got, halted, broken>> PROVE BytesInv'
    <2>1. Running'
      BY <1>1, <1>3, LogMoves DEF RequestInv
    <2>2. ASSUME NEW r \in Requests, OfRequest(r), BytesOf(r), io # "Listening" PROVE OfRequest(r)' /\ BytesOf(r)'
      <3>1. Ongoing(r)
        BY <1>1, <2>2 DEF Ongoing, Running
      <3>2. Stage' = Stage /\ AtFileEnd' = AtFileEnd
        BY <1>3 DEF Stage, AtFileEnd
      <3>3. BytesOf(r)'
        <4>1. Stage' = "ReadBinary" /\ os'.write /\ usage'["WRITING"] # NoFile /\ ~open'["WRITING"] => AtFileEnd'
          BY <1>3, <2>2, <3>2 DEF BytesOf
        <4> QED BY <1>3, <2>2, <3>1, <4>1, GotNothing
      <3>4. OfRequest(r)'
        <4>1. InMessage(r.bin) => InMessage(r.bin)'
          BY <1>3 DEF InMessage, InStream, Stage, First, AtCount, InChunk, PosOf, LeftOf, AtFileEnd, ToldAt
        <4>2. WriteAt(r.bin) => WriteAt(r.bin)'
          BY <1>3 DEF WriteAt, Stage, First, NoneHeld, Begins, Busy, Cmd, NoWrite, Before, Amid, After
        <4>3. ReadAt(r.bin) => ReadAt(r.bin)'
          BY <1>3 DEF ReadAt, Busy, Cmd, ToSend
        <4> QED BY <1>3, <2>2, <4>1, <4>2, <4>3 DEF OfRequest
      <3> QED BY <3>3, <3>4
    <2> QED BY <1>1, <1>3, <2>1, <2>2 DEF BytesInv
  <1>4. CASE UNCHANGED requestVars
    BY <1>3, <1>4 DEF requestVars
  <1>5. CASE Convert \/ Stop
    BY <1>3, <1>5 DEF Convert, Stop, request, file, wire
  <1>6. CASE \E r \in Requests : Listen(r)
    BY <1>1, <1>2, <1>6, ListenStarts, ListenGives
  <1>7. CASE StreamOS \/ Client \/ Drop
    <2>1. io # "Listening"
      BY SMTT(30), <1>7 DEF StreamOS, ReadCount, JsonDone, SyntaxError, ReadNextBinary, SkipBinary, WriteFile,
                  WriteFileClose, WriteFileDone, WriteTurn, SetUsage, OpenFile, SeekFile, CloseFile, LogRead, At,
                  OutputJSON, WriteChunkSize, WriteJSONResp, ReadFile, ReadFileClose, ReadFileDone,
                  ReadVoltageLog, Sends, Done, Turn, Client, Receive, Transmit, Drop
    <2>2. PICK r \in Requests : Ongoing(r) /\ BytesOf(r)
      BY <1>1, <2>1 DEF BytesInv, Running, Ongoing
    <2>3. CASE ReadCount \/ JsonDone \/ SyntaxError \/ ReadNextBinary
      BY <1>0, <1>2, <2>2, <2>3, ReadCountKeeps, JsonDoneKeeps, SyntaxErrorKeeps, ReadNextBinaryKeeps,
         ReadCountGives, JsonDoneGives, SyntaxErrorGives, ReadNextBinaryGives
    <2>4. CASE SkipBinary \/ WriteFile \/ WriteFileClose
      BY <1>0, <1>2, <2>2, <2>4, SkipBinaryKeeps, WriteFileKeeps, WriteFileCloseKeeps,
         SkipBinaryGives, WriteFileGives, WriteFileCloseGives
    <2>5. CASE WriteFileDone
      BY <1>2, <2>2, <2>5, WriteFileDoneKeeps, WriteFileDoneGives
    <2>6. CASE CloseFile \/ ReadFileClose
      BY <1>0, <1>2, <2>2, <2>6, CloseFileKeeps, ReadFileCloseKeeps, CloseFileGoesOn, CommandGives, AnswerGives
    <2>7. CASE SetUsage \/ OpenFile \/ SeekFile \/ LogRead
      BY <1>2, <2>2, <2>7, SetUsageKeeps, OpenFileKeeps, SeekFileKeeps, LogReadKeeps, CommandGives, SeekFileGives
    <2>8. CASE OutputJSON \/ WriteChunkSize \/ WriteJSONResp \/ ReadFile
      BY <1>2, <2>2, <2>8, OutputJSONKeeps, WriteChunkSizeKeeps, WriteJSONRespKeeps, ReadFileKeeps, AnswerGives
    <2>9. CASE ReadFileDone \/ ReadVoltageLog \/ Transmit
      BY <1>2, <2>2, <2>9, ReadFileDoneKeeps, ReadVoltageLogKeeps, TransmitKeeps, AnswerGives
    <2>10. CASE \E k \in 1 .. CbInput : Receive(k)
      BY <1>2, <2>2, <2>10, ReceiveKeeps, ReceiveGives
    <2>11. CASE Done \/ Drop
      <3>1. RequestInv'
        BY <1>0, <2>2, <2>11, DoneFrees, DropFrees
      <3>2. io' = "Listening" /\ ~halted' /\ ~broken'
        BY <1>1, <2>11 DEF Done, Drop
      <3> QED BY <3>1, <3>2 DEF BytesInv, RequestInv
    <2> QED BY <1>7, <2>3, <2>4, <2>5, <2>6, <2>7, <2>8, <2>9, <2>10, <2>11 DEF StreamOS, Client
  <1> QED BY <1>4, <1>5, <1>6, <1>7 DEF RequestNext

\* However a request is cut into chunks and pieces, ReadJSONInput never asserts, the request is
\* refused only if it has bytes that no command wants, and the file gets the bytes meant
\* for it, each once and in order.
THEOREM BytesGiven ==
  ASSUME {"syntax", "drop", "write", "close"} \cap Faults = {}, Answerable, \A r \in Requests : r.cmds # <<>>
  PROVE  RequestSpec => []BytesArrive
  <1>1. RequestInit => BytesInv
    <2> SUFFICES ASSUME RequestInit PROVE BytesInv
      OBVIOUS
    <2>1. RequestInv
      BY RequestStarts
    <2> QED BY <2>1 DEF RequestInit, RequestInv, BytesInv
  <1>2. BytesInv /\ [RequestNext]_requestVars => BytesInv'
    BY BytesStep
  <1>3. BytesInv => BytesArrive
    <2> SUFFICES ASSUME BytesInv PROVE BytesArrive
      OBVIOUS
    <2>1. Running /\ ~halted
      BY DEF BytesInv
    <2> SUFFICES ASSUME os.state = "Done"
                 PROVE  /\ os.fError <=> req = <<>> \/ Cardinality({i \in DOMAIN msg : msg[i].is = "data"}) > Wanted
                        /\ idata # NoData => got = [i \in 1 .. idata.cb |-> Data(idata.at + i)]
      BY <2>1 DEF BytesArrive
    <2>2. io # "Listening"
      BY <2>1 DEF Running
    <2>3. PICK r \in Requests : BytesOf(r)
      BY <2>2 DEF BytesInv
    <2>4. os.state \notin Parsing
      BY Stages
    <2>5. os.fError <=> req = <<>> \/ Cardinality({i \in DOMAIN msg : msg[i].is = "data"}) > Wanted
      BY <2>3, <2>4 DEF BytesOf, DataIn
    <2>6. idata # NoData => got = [i \in 1 .. idata.cb |-> Data(idata.at + i)]
      <3> SUFFICES ASSUME idata # NoData PROVE got = [i \in 1 .. idata.cb |-> Data(idata.at + i)]
        OBVIOUS
      <3>1. Len(got) = idata.cb /\ \A j \in 1 .. idata.cb : got[j] = Data(idata.at + j)
        BY <2>3, <2>4 DEF BytesOf, GotBytes
      <3>2. got \in Seq(Units)
        BY <2>1 DEF Running, RequestTypes
      <3> QED BY <3>1, <3>2
    <2> QED BY <2>5, <2>6
  <1> QED BY <1>1, <1>2, <1>3, PTL DEF RequestSpec
=============================================================================
