------------------------------ MODULE SdTarget ------------------------------
(***************************************************************************)
(* The SD card target of a log (OpenLogger/ADCTargets.cpp): ADCSDTask      *)
(* follows logIParam.csTotal, writes the voltage ring to a chain of files  *)
(* in batches, rolls over to a new file at the end of one, and when the    *)
(* log ends, or anything fails, goes back to the first file and writes how *)
(* many samples there are and why it stopped.                              *)
(*                                                                         *)
(* The task is a state machine called once per pass of the super loop.  A  *)
(* file system call runs in the file system thread and returns             *)
(* FR_WAITING_FOR_THREAD until it is complete: a pass that only waits      *)
(* changes nothing and is no step here.  Conversion (ADCTask), the stop    *)
(* command and a client that holds a file open interleave with the passes. *)
(***************************************************************************)
EXTENDS Integers, FiniteSets

CONSTANTS
  CSVBUFF,      \* size of the voltage ring, in samples
  CActiveCh,    \* logged channels: samples come in scans of this many
  CsMax,        \* logIParam.csMax: samples to log, negative for no limit
  CsFile,       \* LOGMAXSAMPINFILE: most samples in one file
  CsPiece,      \* most samples fswrite hands to FatFs at a time
  FreeSizes,    \* samples the free clusters may hold when asked
  Faults,       \* which calls may fail, see FaultKinds
  MaxErr,       \* bound: failures injected
  MaxBurst,     \* bound: scans converted between two passes
  MaxTotal      \* bound: samples converted

FaultKinds == {"open", "close", "seek", "write", "getfree", "full", "locked"}

ASSUME SdTargetAssumption ==
  /\ CSVBUFF \in Nat \ {0} /\ CActiveCh \in Nat \ {0} /\ CSVBUFF % CActiveCh = 0
  /\ CsMax \in Int /\ CsMax % CActiveCh = 0
  /\ CsFile \in Nat \ {0} /\ CsFile % CActiveCh = 0
  /\ CsPiece \in Nat \ {0}
  /\ FreeSizes \subseteq Nat /\ \E f \in FreeSizes : f >= CActiveCh
  /\ Faults \subseteq FaultKinds
  /\ MaxErr \in Nat /\ MaxBurst \in Nat \ {0} /\ MaxTotal \in Nat

VARIABLES
  logState,   \* logIParam.state
  csTotal,    \* logIParam.csTotal: samples put in the voltage ring
  rawLeft,    \* scans of the raw ring still to convert after a stop
  trg,        \* logIParam.adcTrg
  fp,         \* the LOGGING DFILE: FatFs' file object and _fOpen
  usage,      \* the LOGGING entry of fileTask: a file name or NoFile
  holder,     \* the file another client (a read) has in fileTask, or NoFile
  disk,       \* file name -> samples in it, for the files on the card
  header,     \* stop reason and count in the first file; history: is it the last one?
  bad,        \* history: a sample was "overwritten", the card was "full", a file
              \* was "not opened" or "not closed"
  errs,       \* failures injected so far
  trap        \* the ASSERT that stopped the firmware, or "none"

vars == <<logState, csTotal, rawLeft, trg, fp, usage, holder, disk, header, bad, errs, trap>>

\* A file is named for the number of the first sample in it: szUri.
NoFile == -1

\* What a reader finds in the first file until the log closes its header, and
\* for good if that write fails: no samples, and a normal end.
FirstHeader == [count |-> 0, stop |-> "STCDNormal", last |-> FALSE]
Reasons  == {"STCDNormal", "STCDError", "STCDOverflow"}
TrgStates == {"Idle", "Running", "FILEwrite", "FILEclose", "FILEgetsize", "FILEopen",
              "FILEopening", "FILEseek", "Finishing", "Pending", "Done"}
Traps == {"none", "file not open", "no path", "clear while open", "path still set",
          "file not closed", "past end of file"}

Least(S) == CHOOSE x \in S : \A y \in S : x <= y

\* LOGMAXSAMPINFILE or what fits on the card, in whole scans.
FileSize(free) == LET cs == Least({free, CsFile}) IN cs - (cs % CActiveCh)

\* fFinish: the log is finishing and everything sampled is converted.
FinishAtOnce == logState = "Finishing"     \* mutant: what is left to convert is ignored
FFinish == logState = "Finishing" /\ rawLeft = 0
Backlog == csTotal - trg.csProcessed

\* DeferredLogRun left the first file open behind its header.
Init ==
  /\ logState = "Running" /\ csTotal = 0 /\ rawLeft = 0
  /\ \E free \in FreeSizes :
       /\ free >= CActiveCh
       /\ trg = [state |-> "Running", nextState |-> "Idle", uri |-> 0, csProcessed |-> 0,
                 csEOF |-> FileSize(free), seek |-> "start", stcd |-> "STCDNormal",
                 at |-> 0, cs |-> 0, csWritten |-> 0]
  /\ fp = [open |-> TRUE, err |-> FALSE, pos |-> "data"]
  /\ usage = 0 /\ holder = NoFile
  /\ disk = [n \in {0} |-> 0]
  /\ header = FirstHeader
  /\ bad = {} /\ errs = 0 /\ trap = "none"

-----------------------------------------------------------------------------
(* What goes on between the passes.                                        *)

world == <<trg, fp, usage, disk, header, bad, errs, trap>>

\* ADCTask converts n scans; at csMax the log finishes and the rest of the
\* raw ring is dropped.
Convert(n) ==
  LET cs   == csTotal + n * CActiveCh
      last == CsMax > 0 /\ cs >= CsMax
  IN  /\ cs <= MaxTotal
      /\ CsMax > 0 => csTotal < CsMax
      /\ \/ logState = "Running" /\ UNCHANGED rawLeft
         \/ logState = "Finishing" /\ n <= rawLeft /\ rawLeft' = IF last THEN 0 ELSE rawLeft - n
      /\ csTotal' = IF last THEN CsMax ELSE cs
      /\ logState' = IF last THEN "Finishing" ELSE logState
      /\ UNCHANGED <<holder, world>>

\* FnLogStop, or the button: what was sampled by then is still converted.
Stop ==
  /\ logState = "Running"
  /\ logState' = "Finishing"
  /\ rawLeft' \in 0 .. MaxBurst
  /\ csTotal + rawLeft' * CActiveCh <= MaxTotal
  /\ CsMax > 0 => csTotal + rawLeft' * CActiveCh <= CsMax
  /\ UNCHANGED <<csTotal, holder, world>>

\* A file read takes its name in fileTask while it has the file open.
Hold ==
  /\ "locked" \in Faults
  /\ holder = NoFile /\ holder' \in DOMAIN disk \ {usage}
  /\ UNCHANGED <<logState, csTotal, rawLeft, world>>

Release ==
  /\ holder # NoFile /\ holder' = NoFile
  /\ UNCHANGED <<logState, csTotal, rawLeft, world>>

-----------------------------------------------------------------------------
(* ADCSDTask.                                                              *)

log == <<logState, csTotal, rawLeft, holder>>

\* The file system call of this pass fails.
Fails(kind) == kind \in Faults /\ errs < MaxErr /\ errs' = errs + 1

\* The file I/O error condition at the end of the function.
JustGetOut(t) ==                           \* mutant: the open file is not closed
  [t EXCEPT !.state = IF t.nextState = "Pending" THEN "Done" ELSE "Finishing",
            !.stcd = "STCDError"]
OnError(t) ==
  CASE t.nextState # "Pending" -> [t EXCEPT !.state = "Finishing", !.stcd = "STCDError"]
    [] t.nextState = "Pending" /\ fp.open ->
         [t EXCEPT !.state = "FILEclose", !.nextState = "Done", !.stcd = "STCDError"]
    [] OTHER -> [t EXCEPT !.state = "Done", !.stcd = "STCDError"]

FailedAssert(what) == trap' = what /\ UNCHANGED <<log, trg, fp, usage, disk, header, bad, errs>>

\* Running: the backlog, no further than the end of the ring and of the file.
NoSplit(back, at) == back                  \* mutant: the batch runs past the ring
RingPart(back, at) == IF at < 0 THEN -at ELSE back
NoWrap(at) == at                           \* mutant: the start is before the ring
RingStart(at) == IF at < 0 THEN at + CSVBUFF ELSE at

SetUpWrite ==
  LET at   == (csTotal % CSVBUFF) - Backlog
      part == RingPart(Backlog, at)
      room == trg.csEOF - trg.csProcessed
  IN  trg' = [trg EXCEPT !.state = "FILEwrite", !.nextState = "Running",
                         !.at = RingStart(at),
                         !.cs = Least({part, room}), !.csWritten = 0]

TrgRunning ==
  /\ trg.state = "Running"
  /\ IF ~fp.open THEN FailedAssert("file not open")
     ELSE /\ \/ Backlog \in 1 .. CSVBUFF /\ SetUpWrite
             \/ /\ Backlog > CSVBUFF
                /\ trg' = [trg EXCEPT !.state = "Finishing", !.stcd = "STCDOverflow"]
             \/ /\ Backlog = 0 /\ FFinish
                /\ trg' = [trg EXCEPT !.state = "Finishing", !.stcd = "STCDNormal"]
          /\ UNCHANGED <<log, fp, usage, disk, header, bad, errs, trap>>

\* The write of a batch is complete: a short one means the card is full; at
\* the end of the file the next one follows unless the log ends here.
AlwaysRunning(t) == [t EXCEPT !.state = "Running"]     \* mutant: never rolls over
BatchDone(t) ==
  CASE t.csWritten < t.cs -> [t EXCEPT !.state = "Finishing"]
    [] t.csWritten = t.cs /\ t.csProcessed >= t.csEOF /\ (CsMax < 0 \/ t.csProcessed < CsMax) ->
         [t EXCEPT !.state = "FILEclose", !.seek = "start"]
    [] OTHER -> [t EXCEPT !.state = "Running"]

Processed(t) == [t EXCEPT !.csProcessed = @ + t.csWritten]

\* FILEwrite of samples: a piece of k samples.  Fewer than asked for means a
\* full card, and none at all makes fswrite return.
WriteSamples ==
  /\ trg.state = "FILEwrite" /\ trg.nextState = "Running" /\ ~fp.err
  /\ LET piece == Least({CsPiece, trg.cs - trg.csWritten}) IN
     \E k \in 0 .. piece :
       /\ k < piece => "full" \in Faults
       /\ disk' = [disk EXCEPT ![usage] = @ + k]
       /\ bad' = bad
            \cup {w \in {"overwritten"} : fp.pos # "data"
                    \/ (k > 0 /\ csTotal > trg.csProcessed + trg.csWritten + CSVBUFF)}
            \cup {w \in {"full"} : k < piece}
       /\ LET t == [trg EXCEPT !.csWritten = @ + k] IN
            IF k > 0 /\ t.csWritten < t.cs THEN trg' = t /\ UNCHANGED trap
            ELSE /\ trg' = BatchDone(Processed(t))
                 /\ trap' = IF Processed(t).csProcessed > t.csEOF THEN "past end of file" ELSE trap
  /\ UNCHANGED <<log, fp, usage, header, errs>>

\* FILEwrite of the header set up by TrgPending.
WriteHeader ==
  /\ trg.state = "FILEwrite" /\ trg.nextState = "Done" /\ ~fp.err
  /\ header' = [count |-> trg.cs, stop |-> trg.stcd, last |-> TRUE]
  /\ trg' = [trg EXCEPT !.state = "FILEclose"]
  /\ UNCHANGED <<log, fp, usage, disk, bad, errs, trap>>

\* After a disk error FatFs refuses further writes and seeks on the file.
WriteFailed ==
  /\ trg.state = "FILEwrite"
  /\ \/ fp.err /\ UNCHANGED errs
     \/ ~fp.err /\ Fails("write")
  /\ fp' = [fp EXCEPT !.err = TRUE]
  /\ trg' = OnError(IF trg.nextState = "Running" THEN Processed(trg)
                    ELSE [trg EXCEPT !.nextState = "Done"])
  /\ UNCHANGED <<log, usage, disk, header, bad, trap>>

\* FILEclose: anything but waiting is taken for success, then ClearUsage.
CloseFile ==
  /\ trg.state = "FILEclose"
  /\ IF usage = NoFile THEN FailedAssert("no path")
     ELSE \/ /\ fp.open /\ Fails("close")
             /\ bad' = bad \cup {"not closed"}
             /\ trap' = "clear while open"
             /\ UNCHANGED <<log, trg, fp, usage, disk, header>>
          \/ /\ fp' = [fp EXCEPT !.open = FALSE]
             /\ usage' = NoFile
             /\ trg' = [trg EXCEPT !.state = CASE trg.nextState = "Done"    -> "Done"
                                               [] trg.nextState = "Pending" -> "FILEopen"
                                               [] OTHER                     -> "FILEgetsize"]
             /\ UNCHANGED <<log, disk, header, bad, errs, trap>>

\* FILEgetsize: the name and the end of the next file.
EndFirst(t, cs) == [t EXCEPT !.uri = t.csEOF + cs, !.csEOF = @ + cs, !.state = "FILEopen"]  \* mutant
NextFile(t, cs) == [t EXCEPT !.uri = t.csEOF, !.csEOF = @ + cs, !.state = "FILEopen"]

GetSize ==
  /\ trg.state = "FILEgetsize"
  /\ \E free \in FreeSizes :
       LET full == free < CActiveCh
           t    == IF full THEN [trg EXCEPT !.state = "Finishing"]
                   ELSE NextFile(trg, FileSize(free))
       IN  /\ \/ trg' = t /\ UNCHANGED errs
              \/ Fails("getfree") /\ trg' = OnError(t)
           /\ bad' = IF full THEN bad \cup {"full"} ELSE bad
  /\ UNCHANGED <<log, fp, usage, disk, header, trap>>

\* FILEopen: the name is taken in fileTask, and FILEopening follows at once.
TakeName ==
  /\ trg.state = "FILEopen"
  /\ IF usage # NoFile THEN FailedAssert("path still set")
     ELSE /\ IF holder = trg.uri
             THEN trg' = OnError(trg) /\ UNCHANGED usage
             ELSE usage' = trg.uri /\ trg' = [trg EXCEPT !.state = "FILEopening"]
          /\ UNCHANGED <<log, fp, disk, header, bad, errs, trap>>

\* FILEopening: the first file to write its header, or a new one.
OpenFile ==
  /\ trg.state = "FILEopening"
  /\ \/ /\ trg.nextState = "Pending" => trg.uri \in DOMAIN disk
        /\ fp' = [open |-> TRUE, err |-> FALSE, pos |-> "data"]
        /\ disk' = IF trg.nextState = "Pending" THEN disk
                   ELSE [n \in DOMAIN disk \cup {trg.uri} |-> IF n = trg.uri THEN 0 ELSE disk[n]]
        /\ trg' = [trg EXCEPT !.state = "FILEseek"]
        /\ UNCHANGED <<errs, bad>>
     \/ /\ Fails("open")
        /\ trg' = OnError(trg) /\ bad' = bad \cup {"not opened"}
        /\ UNCHANGED <<fp, disk>>
  /\ UNCHANGED <<log, usage, header, trap>>

Seek ==
  /\ trg.state = "FILEseek"
  /\ \/ /\ ~fp.err
        /\ fp' = [fp EXCEPT !.pos = IF trg.seek = "header" THEN "header" ELSE "data"]
        /\ trg' = [trg EXCEPT !.state = trg.nextState]
        /\ UNCHANGED errs
     \/ fp.err /\ trg' = OnError(trg) /\ UNCHANGED <<fp, errs>>
     \/ ~fp.err /\ Fails("seek") /\ fp' = [fp EXCEPT !.err = TRUE] /\ trg' = OnError(trg)
  /\ UNCHANGED <<log, usage, disk, header, bad, trap>>

\* Finishing: on to the header, which is in the first file.
ToHeader(t) ==
  CASE ~fp.open             -> "FILEopen"
    [] fp.open /\ t.uri = 0 -> "FILEseek"
    [] OTHER                -> "FILEclose"

TrgFinishing ==
  /\ trg.state = "Finishing"
  /\ trg' = [trg EXCEPT !.state = ToHeader(trg), !.uri = 0, !.nextState = "Pending",
                        !.seek = "header"]
  /\ UNCHANGED <<log, fp, usage, disk, header, bad, errs, trap>>

\* Pending: the count and the reason that go into the header.
CountTotal == csTotal \div CActiveCh     \* mutant: what was converted
ActualCount == trg.csProcessed \div CActiveCh

TrgPending ==
  /\ trg.state = "Pending"
  /\ trg' = [trg EXCEPT !.state = "FILEwrite", !.nextState = "Done", !.cs = ActualCount,
                        !.csWritten = 0]
  /\ UNCHANGED <<log, fp, usage, disk, header, bad, errs, trap>>

TrgDone ==
  /\ trg.state = "Done"
  /\ IF fp.open THEN FailedAssert("file not closed")
     ELSE IF usage # NoFile THEN FailedAssert("path still set")
     ELSE /\ trg' = [trg EXCEPT !.state = "Idle"]
          /\ UNCHANGED <<log, fp, usage, disk, header, bad, errs, trap>>

\* ADCTargetsTask: all targets are idle, the log is stopped.
LogStopped ==
  /\ trg.state = "Idle" /\ logState = "Finishing"
  /\ logState' = "Stopped"
  /\ UNCHANGED <<csTotal, rawLeft, holder, world>>

ADCSDTask ==
  \/ TrgRunning \/ WriteSamples \/ WriteHeader \/ WriteFailed \/ CloseFile \/ GetSize
  \/ TakeName \/ OpenFile \/ Seek \/ TrgFinishing \/ TrgPending \/ TrgDone

Environment == (\E n \in 1 .. MaxBurst : Convert(n)) \/ Stop \/ Hold \/ Release

Next == trap = "none" /\ (ADCSDTask \/ LogStopped \/ Environment)

Spec == Init /\ [][Next]_vars

\* The super loop runs both tasks on every pass and FatFs calls end.
FairSpec ==
  /\ Spec
  /\ WF_vars(trap = "none" /\ ADCSDTask)
  /\ WF_vars(trap = "none" /\ LogStopped)
  /\ WF_vars(trap = "none" /\ logState = "Finishing" /\ \E n \in 1 .. MaxBurst : Convert(n))

-----------------------------------------------------------------------------
(* Properties.                                                             *)

TypeOK ==
  /\ logState \in {"Running", "Finishing", "Stopped"}
  /\ csTotal \in Nat /\ rawLeft \in Nat
  /\ trg.state \in TrgStates
  /\ trg.nextState \in {"Idle", "Running", "Pending", "Done"}
  /\ trg.uri \in Nat /\ trg.csProcessed \in Nat /\ trg.csEOF \in Nat
  /\ trg.seek \in {"start", "header"} /\ trg.stcd \in Reasons
  /\ trg.at \in 0 .. CSVBUFF - 1 /\ trg.cs \in Nat /\ trg.csWritten \in Nat
  /\ fp.open \in BOOLEAN /\ fp.err \in BOOLEAN /\ fp.pos \in {"data", "header"}
  /\ usage \in {NoFile} \cup Nat /\ holder \in {NoFile} \cup Nat
  /\ \A n \in DOMAIN disk : n \in Nat /\ disk[n] \in Nat
  /\ header.count \in Nat /\ header.stop \in Reasons /\ header.last \in BOOLEAN
  /\ bad \subseteq {"overwritten", "full", "not opened", "not closed"} /\ errs \in 0 .. MaxErr /\ trap \in Traps

\* No assertion about the file, its entry in fileTask or the end of the file
\* fails (ADCTargets.cpp:31, 101, 150, 197, 281, 282 and the one in
\* FILETask::ClearUsage), whichever calls fail on the way; only a file that
\* cannot be opened or closed makes one fail.
NoAssert == trap # "none" => bad \cap {"not opened", "not closed"} # {}

\* The files follow one another without a gap or an overlap: each is named
\* for the sample it starts with, the one where another file ends, and the
\* open one ends at csProcessed whenever a new batch is set up.
FilesAbut ==
  /\ \A n \in DOMAIN disk \ {0} : \E p \in DOMAIN disk : p < n /\ p + disk[p] = n
  /\ trg.state = "Running" => trg.uri = usage /\ usage + disk[usage] = trg.csProcessed

\* A batch lies within the ring and starts with the first sample that is not
\* on the card: counting back from padcVoltNext finds it across the wrap.
BatchInRing ==
  trg.state = "FILEwrite" /\ trg.nextState = "Running" =>
    /\ trg.at = trg.csProcessed % CSVBUFF
    /\ trg.at + trg.cs <= CSVBUFF

\* A log whose header says it stopped normally is complete, or was cut short by
\* a full card, for which there is no reason of its own.  There is one more way
\* to a header that says so: the closing one could not be written (a call failed,
\* or a client reads the first file), which leaves the first one, and then the
\* target itself ended with an error.
NormalIsComplete ==
  trg.state = "Idle" /\ header.stop = "STCDNormal" =>
    \/ header.count * CActiveCh = csTotal
    \/ "full" \in bad
    \/ header = FirstHeader /\ trg.stcd = "STCDError"

\* "stopReason; // reason for logging stopping; 0 = Normal, 1 = Forced,
\* 2 = Error ..." (OpenLogger.h:379): what the card says is the reason the
\* target went idle for.
ReasonOnCard == trg.state = "Idle" => header.stop = trg.stcd

\* Every sample reached the card before the ring came around to it, or the
\* log says that it overflowed: "if we blow over we know the last CSVBUFF is
\* corrupt".
OverwriteIsReported ==
  "overwritten" \in bad /\ trg.state = "Idle" /\ header.last => header.stop = "STCDOverflow"

\* Once the log is to finish the target gets back to Idle, whatever fails.
Finishes == logState = "Finishing" ~> (trg.state = "Idle" \/ trap # "none")

\* The files and the header are a true log.
OnCard == LET last == CHOOSE n \in DOMAIN disk : \A m \in DOMAIN disk : m <= n
          IN  last + disk[last]
Store == INSTANCE LogStore WITH Channels <- CActiveCh, offered <- csTotal, stored <- OnCard
ImplementsStore == Store!LSpec

=============================================================================
